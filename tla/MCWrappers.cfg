CONSTANTS
    t1 = t1
    t2 = t2
    t3 = t3
    a = a
    b = b
    None = None
    Idling = Idling
    Unused = Unused
    Threads = {t1, t2}
    Objects = {a, b}
    KeyCount = 1
    Calls = {"upsert", "erase", "stage", "commit"}
    FinalizerCalls = {"upsert", "size"}
    MaxDepth = 2
    MaxRecorded = 2
SPECIFICATION MCSpec
SYMMETRY Symmetry
INVARIANTS
    CallsTakeTurns
    ReleasesBalance
PROPERTIES
    GroupsEndWhole
