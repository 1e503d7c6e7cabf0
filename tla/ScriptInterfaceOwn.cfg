SPECIFICATION Spec
CONSTANTS
    MaxTasks = 1
    MaxCalls = 2
    MaxBreaks = 0
    Callouts <- AllCallouts
    Targets = {"screen", "own", "exit"}
INVARIANT Attended
CHECK_DEADLOCK FALSE
