------------------------------- MODULE MCDebts -------------------------------
EXTENDS Debts, TLC
CONSTANTS r1, r2, a1, a2, k1
Symmetry == Permutations({r1, r2}) \cup Permutations({a1, a2})
==============================================================================
