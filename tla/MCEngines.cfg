CONSTANTS
    t1 = t1
    t2 = t2
    Absent = Absent
    KeyOnly = KeyOnly
    Direct = Direct
    Unused = Unused
    KeyCount = 2
    Transactions <- MCPair
    MaxWatches = 0
    Reuses = FALSE
    RollbackFails = FALSE
SPECIFICATION MCSpec
SYMMETRY Symmetry
VIEW EnginesView
INVARIANTS
    CountsAndStagesExact
    WalksAgreeWithFinds
PROPERTIES
    WatchesTell
    ImplementGroupStore
