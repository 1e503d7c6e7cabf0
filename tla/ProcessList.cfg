CONSTANTS
    MaxProcesses = 2
    MaxGroups = 2
    Priorities <- TwoPriorities
    DefaultPriority = 50
    Observed = {1}
    Faults = {"exception", "syncFailure"}
SPECIFICATION FairSpec
INVARIANTS OneActivePerGroup FinishedGroupEmpty
PROPERTIES FinalizedAtRest StartsInPriorityOrder StartedGroupFinishes
CHECK_DEADLOCK FALSE
