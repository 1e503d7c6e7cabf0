SPECIFICATION FairSpec
CONSTANTS
    Games <- OneGame
    Manual <- OneGame
    Tracked <- OneGame
    MaxTime = 2
    MaxCalls = 3
    Faults = {"host"}
INVARIANT AnnouncedGamesListed
PROPERTIES RequestsProcessed LocksReleased
CHECK_DEADLOCK FALSE
