SPECIFICATION Spec
CONSTANTS
    Files <- MCFiles
    PageSize = 4
    Memory = 64
    ImageAt = 32
    ProgramAt = 48
    ProgramVirtual = 16
    StackVirtual = 12
    StackAt = 56
    StackSize = 4
INVARIANTS
    LoadBooks
    BoundsExact
    ProgramMapped
CHECK_DEADLOCK FALSE
