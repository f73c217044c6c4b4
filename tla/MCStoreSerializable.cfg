CONSTANTS
    t1 = t1
    t2 = t2
    p1 = p1
    v1 = v1
    v2 = v2
    Absent = Absent
    Unset = Unset
    KeyCount = 2
    Transactions <- MCOne
    Publications <- MCNone
    Values <- MCValue
    Isolation = "serializable"
    MaxStamp = 2
    MaxGeneration = 12
    MaxReads = 1
    ReusesCommitted = FALSE
    RollbackFails = FALSE
    ClearsPublications = FALSE
SPECIFICATION Spec
SYMMETRY Symmetry
VIEW MCReadView
PROPERTY
    AnswersStand
CHECK_DEADLOCK FALSE
