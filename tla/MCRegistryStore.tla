-------------------------- MODULE MCRegistryStore --------------------------
(* Small instances of RegistryStore for TLC.                               *)
EXTENDS RegistryStore, TLC

\* IDs, keys, cards and requests are interchangeable.
StoreSymmetry ==
    Permutations(Id) \cup Permutations(Key) \cup Permutations(Card) \cup Permutations(Request)
=============================================================================
