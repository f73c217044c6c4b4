CONSTANTS
    c1 = c1
    c2 = c2
    c3 = c3
    l1 = l1
    l2 = l2
    l3 = l3
    p1 = p1
    Committers <- MCCommitters
    Leases <- MCLeases
    Pruners <- MCPruners
    MaxStamp = 3
SPECIFICATION Spec
SYMMETRY Symmetry
INVARIANTS
    TypeOK
    WatermarkIsWhole
    MarkIsExact
    StaleMarkIsSafe
PROPERTIES
    NeverFalls
    ImplementsAbstractClock
