SPECIFICATION Spec
CONSTANTS
    Games <- TwoGames
    Manual <- OneGame
    Tracked <- NoGame
    MaxTime = 2
    MaxCalls = 2
    Faults = {"database"}
INVARIANTS LockedGamesAreDue OneEventPerGame HostedGameVisible OneRunWhileSuspended
PROPERTY HostedGameUnchanged
CHECK_DEADLOCK FALSE
