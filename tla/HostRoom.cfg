SPECIFICATION Spec
CONSTANTS
    k1 = k1
    k2 = k2
    Key = {k1, k2}
    NoKey = NoKey
    NAddr = 2
    CredentialTTL = 3
    RenewInterval = 2
    ArrivalGrace = 2
    KickGrace = 1
    MaxTime = 2
    MaxRequest = 3
    MaxCode = 2
    MaxRestart = 0
    Fault = {"issue", "clear"}
SYMMETRY KeySymmetry
CHECK_DEADLOCK FALSE
INVARIANT EngineTrustInBook
INVARIANT RevokedNeverAuthorised
INVARIANT ListenerAgrees
INVARIANT VetoExcludes
PROPERTIES AddressKept 
