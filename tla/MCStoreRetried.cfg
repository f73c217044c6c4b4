CONSTANTS
    t1 = t1
    t2 = t2
    p1 = p1
    v1 = v1
    v2 = v2
    Absent = Absent
    Unset = Unset
    KeyCount = 1
    Transactions <- MCOne
    Publications <- MCNone
    Values <- MCValue
    Isolation = "snapshot"
    MaxStamp = 3
    MaxGeneration = 12
    MaxReads = 0
    ReusesCommitted = FALSE
    RollbackFails = TRUE
    ClearsPublications = FALSE
SPECIFICATION Spec
SYMMETRY Symmetry
VIEW MCView
INVARIANT
    NothingUnwritten
CHECK_DEADLOCK FALSE
