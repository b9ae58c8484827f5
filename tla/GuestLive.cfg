SPECIFICATION FairSpec
CONSTANTS
    Host = {h1}
    None = None
    Fault = {}
    MaxStreak = 1
    MaxUpset = 1
    MaxOrder = 1
    MaxCode = 1
    MaxMail = 1
PROPERTIES AbandonedRoomLeft CredentialRepaired ComesBack
CHECK_DEADLOCK FALSE
