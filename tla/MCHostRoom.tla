---------------------------- MODULE MCHostRoom ----------------------------
(* Small instances of HostRoom for TLC.                                    *)
EXTENDS HostRoom, TLC

\* The people who ask for a credential are interchangeable.
KeySymmetry == Permutations(Key)
=============================================================================
