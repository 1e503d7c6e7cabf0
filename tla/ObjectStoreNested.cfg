SPECIFICATION Spec
CONSTANTS
    x = x
    y = y
    Data <- TwoContents
    Files = {"f"}
    Dir = "d"
    Nested = TRUE
    NameOrder <- DirFirst
    Tags = {}
    MaxOps = 2
    MaxStarts = 1
    Faults = {}
INVARIANT StoredCurrent
CHECK_DEADLOCK FALSE
