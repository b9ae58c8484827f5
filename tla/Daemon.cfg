SPECIFICATION DaemonFairSpec
CONSTANTS
    Conn = {c1}
    UI = {u1, u2}
    Nobody = Nobody
    maxRelaunches = 1
    AutoReturn = TRUE
    Fault = {"accept", "launch"}
INVARIANTS NoWindowOutlives CleanEnd
PROPERTIES ShutdownEnds WindowOrEnd SeatsComeBack
CHECK_DEADLOCK FALSE
