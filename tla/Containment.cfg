SPECIFICATION Spec
CONSTANTS
    None = None
    NoAdapter = NoAdapter
    Adapter = {a1, a2, a3, a4}
    Member = {m1}
    Shared = {"juego"}
    Fault = {"gate", "permits", "audit", "touch", "revoke"}
SYMMETRY Symmetry
INVARIANTS Contained KickedShut SkipIsSafe
PROPERTIES LeaveTold
CHECK_DEADLOCK FALSE
