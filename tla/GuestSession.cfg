SPECIFICATION Spec
CONSTANTS
    Host = {h1, h2}
    None = None
    Fault = {"engine", "settle", "expiry", "registry"}
    MaxStreak = 1
    MaxUpset = 1
    MaxOrder = 2
    MaxCode = 2
    MaxMail = 1
INVARIANTS InWantedRoom NothingLeftBehind GateFollows
PROPERTIES LastKept
CHECK_DEADLOCK FALSE
SYMMETRY Symmetry
