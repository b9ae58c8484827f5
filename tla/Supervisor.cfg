SPECIFICATION FairSpec
CONSTANTS
    WorkCap = 2
    EventCap = 3
    MaxRestarts = 1
    Source = {"beat", "resume"}
    Flight = {}
    Fault = {"start"}
    MaxUpset = 2
    MaxOpen = 2
    MaxResume = 1
INVARIANTS WatchdogAwake
PROPERTIES DeadEngineResolved DeadlineKept
CHECK_DEADLOCK FALSE
