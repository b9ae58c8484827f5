SPECIFICATION FairSpec
CONSTANTS
    Member = {m1}
    None = None
    CanaryRepairLimit = 1
    TamperRepairLimit = 1
    MaxGen = 1
    MaxUpset = 1
INVARIANTS ShownOfThisRoom
PROPERTIES LeakIsTold TamperTold
CHECK_DEADLOCK FALSE
