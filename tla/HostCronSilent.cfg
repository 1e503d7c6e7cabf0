SPECIFICATION Spec
CONSTANTS
    Games <- OneGame
    Manual <- OneGame
    Tracked <- OneGame
    MaxTime = 2
    MaxCalls = 2
    Faults = {}
INVARIANT ChangedGamesListed
CHECK_DEADLOCK FALSE
