CONSTANTS
    a = a
    b = b
    Elsewhere = Elsewhere
    Threads = {a, b}
    KeyCount = 3
    Hash <- MCHash
    SlotsCount = 4
    CountSpan = 8
    Calls = 2
SPECIFICATION MCSpec
SYMMETRY Symmetry
INVARIANTS
    CountsDecideRight
    KeysAreFound
