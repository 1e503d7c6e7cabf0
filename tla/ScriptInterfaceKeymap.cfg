SPECIFICATION FairSpec
CONSTANTS
    MaxTasks = 1
    MaxCalls = 2
    MaxBreaks = 0
    Callouts <- AllCallouts
    Targets = {"screen", "exit"}
PROPERTY KeymapReturns
CHECK_DEADLOCK FALSE
