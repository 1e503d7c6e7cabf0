SPECIFICATION Spec
CONSTANTS
    x = x
    y = y
    Data <- TwoContents
    Files = {"f"}
    Dir = "d"
    Nested = FALSE
    NameOrder <- DirFirst
    Tags = {"s"}
    MaxOps = 6
    MaxStarts = 2
    Faults = {}
SYMMETRY ContentSymmetry
INVARIANTS CountersExact NoGarbage
CHECK_DEADLOCK FALSE
