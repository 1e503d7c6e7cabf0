SPECIFICATION Spec
CONSTANTS
    s1 = s1
    s2 = s2
    s3 = s3
    Ids <- ThreeIds
    Dirs <- OneDir
    Requests <- Modes
    MaxSessions = 2
    VirginTimeout = 1
    NormalTimeout = 2
    Faults = {"child", "save"}
SYMMETRY IdSymmetry
INVARIANT WritersAlone
CHECK_DEADLOCK FALSE
