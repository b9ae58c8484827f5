SPECIFICATION Spec
CONSTANTS
    i1 = i1
    Id = {i1}
    k1 = k1
    k2 = k2
    Key = {k1, k2}
    NoKey = NoKey
    c1 = c1
    Card = {c1}
    NoCard = NoCard
    r1 = r1
    r2 = r2
    Request = {r1, r2}
    Sweeper = Sweeper
    NoOne = NoOne
    RoomTTL = 1
    MaxTries = 2
    Fault = {}
    MaxObject = 4
    MaxTime = 2
    MaxRestart = 1
SYMMETRY StoreSymmetry
CHECK_DEADLOCK FALSE
INVARIANT FileIsFresh
PROPERTY OwnershipKept
