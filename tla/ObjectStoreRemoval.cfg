SPECIFICATION Spec
CONSTANTS
    x = x
    y = y
    Data <- TwoContents
    Files = {"f"}
    Dir = "d"
    Nested = FALSE
    NameOrder <- DirFirst
    Tags = {}
    MaxOps = 3
    MaxStarts = 2
    Faults = {"crash"}
SYMMETRY ContentSymmetry
INVARIANT Complete
CHECK_DEADLOCK FALSE
