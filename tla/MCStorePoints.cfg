CONSTANTS
    t1 = t1
    t2 = t2
    p1 = p1
    v1 = v1
    v2 = v2
    Absent = Absent
    Unset = Unset
    KeyCount = 1
    Transactions <- MCPair
    Publications <- MCPublication
    Values <- MCValue
    Isolation = "snapshot"
    MaxStamp = 3
    MaxGeneration = 12
    MaxReads = 0
    ReusesCommitted = FALSE
    RollbackFails = FALSE
    ClearsPublications = FALSE
SPECIFICATION Spec
SYMMETRY Symmetry
VIEW MCView
INVARIANTS
    TypeOK
    SnapshotsHold
    ConflictsShow
    StagedStands
    CountsExact
PROPERTIES
    PrunesToTheMark
    ImplementsSnapshotIsolation
CHECK_DEADLOCK FALSE
