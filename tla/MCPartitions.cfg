CONSTANTS
    a = a
    b = b
    c = c
    Nobody = Nobody
    Unused = Unused
    Threads <- MCTwo
    PartitionCount = 2
    KeyCount = 2
    Isolation = "serializable"
    Calls <- MCSerial
    DropsStaged = FALSE
    MaxStamp = 2
SPECIFICATION MCSpec
SYMMETRY Symmetry
INVARIANTS
    SnapshotsAreWhole
    StagesAreWhole
    FirstCommitterWins
    NoRingOfWaits
PROPERTIES
    ReadsStand
    WalksMissNothing
