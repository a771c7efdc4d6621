SPECIFICATION Spec
CONSTANTS
    Task = {t1, t2}
    NoTask = NoTask
    HEAP_SIZE = 21
    HEADER = 3
    MIN_BLOCK = 1
    ALIGNMENT = 2
    WORD = 32
    Sizes = {1, 3, 11}
    Counts = {1, 3}
INVARIANTS
    TypeOK
    BlocksTile
    Coalesced
    HoldersSafe
    EmptyIsWhole
    CopySafe
    StatsExact
PROPERTIES
    AllocatorSpec
