--------------------------- MODULE MCGuestSession ---------------------------
(* Instances of GuestSession for TLC; the constants are in the .cfg files.  *)
(* Hosts are interchangeable, which the run of the safety properties uses.  *)
EXTENDS GuestSession, TLC

Symmetry == Permutations(Host)
=============================================================================
