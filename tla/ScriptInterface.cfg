SPECIFICATION FairSpec
CONSTANTS
    MaxTasks = 2
    MaxCalls = 3
    MaxBreaks = 2
    Callouts <- AllCallouts
    Targets = {"screen", "exit"}
INVARIANTS OneEndPerWait OneHand Attended InterruptsExpected
PROPERTIES WaitsReturn InterruptsEnd LeftEnds
CHECK_DEADLOCK FALSE
