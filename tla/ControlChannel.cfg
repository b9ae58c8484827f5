SPECIFICATION FairSpec
CONSTANTS
    Member = {m1}
    Slots = 2
    MaxNotice = 2
    MaxCut = 1
    Backlog = 1
INVARIANTS Reachable AckedIsRead
PROPERTY ComesBack
CHECK_DEADLOCK FALSE
