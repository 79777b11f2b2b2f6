CONSTANTS
    SectorSize = 3
    SectorsPerCluster = 2
    FatStart = 3
    DataStart = 12
    Words <- MCWords
    UIntRange = 4096
    Chain <- MCChain
    filesize = 16
    MaxSize = 8
    MaxMembers = 3
    Stack = Stack
SPECIFICATION FairReadSpec
INVARIANTS
    ReadTypeOK
    SimpleReadExact
PROPERTY
    Returns
CHECK_DEADLOCK FALSE
