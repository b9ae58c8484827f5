SPECIFICATION FairSpec
CONSTANTS
    WorkCap = 2
    EventCap = 1
    MaxRestarts = 1
    Source = {"beat", "sweep", "notice", "canary", "mesh", "resume"}
    Flight = {"canary", "rejoin", "return"}
    Fault = {"panic"}
    MaxUpset = 0
    MaxOpen = 1
    MaxResume = 1
PROPERTIES FlagComesDown
CHECK_DEADLOCK FALSE
