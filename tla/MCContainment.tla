---------------------------- MODULE MCContainment ----------------------------
EXTENDS Containment, TLC

(* Adapters are only compared, and so are members. *)
Symmetry == Permutations(Adapter) \cup Permutations(Member)
==============================================================================
