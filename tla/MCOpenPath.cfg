SPECIFICATION OpenSpec
CONSTANTS
    Filenames <- MCFilenames
    MaxPath = 8
    Digits <- MCDigits
    Colon = ":"
    Slash = "/"
    NUL = "nul"
    MayRefuse = TRUE
    FirstDrive = "0"
    Disks <- MCDisks
    RootSlots = 4
    ClusterSlots = 3
    Space = " "
    Dot = "."
    DeletedByte = "deleted"
    SubdirByte = "subdir"
    Lower <- MCLower
    None = None
INVARIANTS
    InBounds
    ParseExact
    ListOwnsObjects
    LookupExact
CHECK_DEADLOCK FALSE
