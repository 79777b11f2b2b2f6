\* Requests of 1, 2, 3 and 6 blocks (the last never fits the pool of 5).
CONSTANTS
    Total = 5
    BlockSize = 4
    Saddr = 12
    WordLimit = 64
    Owners = {o1, o2, o3}
    Sizes = {3, 8, 9, 21}
    LowBytes = {129}
SPECIFICATION Spec
INVARIANTS
    TypeOK
    TableExact
    NullFreeHarmless
PROPERTY
    ImplementsAllocator
SYMMETRY Symmetric
