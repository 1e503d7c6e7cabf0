SPECIFICATION FairSpec
CONSTANTS
    Games <- OneGame
    Manual <- OneGame
    Tracked <- OneGame
    MaxTime = 2
    MaxCalls = 1
    Faults = {"database"}
PROPERTY LocksReleased
CHECK_DEADLOCK FALSE
