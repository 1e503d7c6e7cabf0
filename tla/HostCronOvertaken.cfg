SPECIFICATION Spec
CONSTANTS
    Games <- OneGame
    Manual <- OneGame
    Tracked <- OneGame
    MaxTime = 2
    MaxCalls = 3
    Faults = {}
INVARIANT NotifiedGamesListed
CHECK_DEADLOCK FALSE
