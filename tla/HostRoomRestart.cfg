SPECIFICATION Spec
CONSTANTS
    k1 = k1
    k2 = k2
    Key = {k1, k2}
    NoKey = NoKey
    NAddr = 2
    CredentialTTL = 2
    RenewInterval = 1
    ArrivalGrace = 2
    KickGrace = 1
    MaxTime = 2
    MaxRequest = 2
    MaxCode = 1
    MaxRestart = 1
    Fault = {"saveRoom"}
SYMMETRY KeySymmetry
CHECK_DEADLOCK FALSE
INVARIANT RestartKeepsBook
INVARIANT DiskKnowsRevocation
PROPERTY SeatsKept
