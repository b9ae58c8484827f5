SPECIFICATION Spec
CONSTANTS
    r1 = r1
    r2 = r2
    a1 = a1
    a2 = a2
    k1 = k1
    Rule = {r1, r2}
    Adapter = {a1, a2}
    Asker = {k1}
    Fault = {"tool"}
SYMMETRY Symmetry
CHECK_DEADLOCK FALSE
INVARIANTS OriginalKnown SettledIsPaid
PROPERTIES BookedTillShut
