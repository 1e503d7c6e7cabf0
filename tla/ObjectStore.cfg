SPECIFICATION Spec
CONSTANTS
    x = x
    y = y
    Data <- TwoContents
    Files = {"f"}
    Dir = "d"
    Nested = FALSE
    NameOrder <- DirFirst
    Tags = {"s"}
    MaxOps = 3
    MaxStarts = 2
    Faults = {"crash", "error"}
SYMMETRY ContentSymmetry
INVARIANTS CountersExact NoGarbage StoredCurrent
PROPERTY Promised
CHECK_DEADLOCK FALSE
