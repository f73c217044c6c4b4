CONSTANTS
    t1 = t1
    t2 = t2
    p1 = p1
    v1 = v1
    v2 = v2
    Absent = Absent
    Unset = Unset
    KeyCount = 2
    Transactions <- MCPair
    Publications <- MCNone
    Values <- MCValue
    Isolation = "snapshot"
    MaxStamp = 2
    MaxGeneration = 12
    MaxReads = 0
    ReusesCommitted = FALSE
    RollbackFails = FALSE
    ClearsPublications = FALSE
SPECIFICATION MCSpec
SYMMETRY Symmetry
VIEW GroupsView
INVARIANTS
    ExhaustionStrandsNothing
    GroupsAreWritten
PROPERTY
    GroupsAreIsolated
CHECK_DEADLOCK FALSE
