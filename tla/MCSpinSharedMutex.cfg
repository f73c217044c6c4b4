CONSTANTS
    t1 = t1
    t2 = t2
    t3 = t3
    Threads <- MCThree
    ReaderCap = 4
    WriterCap = 4
    Spins = 1
SPECIFICATION MCSpec
INVARIANTS
    TypeOK
    MutualExclusion
    TalliesExact
PROPERTIES
    QueuedGoFirst
    ReadersDoNotStarve
    SleepersWake
