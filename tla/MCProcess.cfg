CONSTANTS
    Procs = {p1, p2, p3}
    NULL = NULL
    Kernel = Kernel
    MaxProcesses = 2
    MaxAllocations = 2
    Addrs = {a1, a2}
    Pages = {1}
    MaxArgs = 1
SPECIFICATION Spec
INVARIANTS
    TypeOK
    TablesAgree
    ObjectsMatchTable
    UserMemoryExact
    TasksSwitchSafely
SYMMETRY Symmetric
CHECK_DEADLOCK FALSE
