CONSTANTS
    Tasks = {t1, t2, t3}
    NULL = NULL
    Kernel = Kernel
    Flags = {0, 1}
    MaxCreated = 5
SPECIFICATION RoundSpec
INVARIANTS
    TypeOK
    ListMirrorsCreation
    SwitchSafe
PROPERTY
    NobodyIsOvertakenTwice
CHECK_DEADLOCK FALSE
