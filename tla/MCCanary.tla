------------------------------ MODULE MCCanary ------------------------------
(* Small instances of Canary for TLC.                                       *)
EXTENDS Canary, TLC

Symmetry == Permutations(Member)
=============================================================================
