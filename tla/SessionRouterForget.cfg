SPECIFICATION Spec
CONSTANTS
    s1 = s1
    s2 = s2
    s3 = s3
    Ids <- TwoIds
    Dirs <- TwoDirs
    Requests <- Writers
    MaxSessions = 2
    VirginTimeout = 1
    NormalTimeout = 1
    Faults = {"child", "forget"}
SYMMETRY IdSymmetry
INVARIANT FileServerCurrent
CHECK_DEADLOCK FALSE
