CONSTANTS
    MaxObjects = 9
    NULL = NULL
    MaxDescriptors = 2
    Directory <- MCDirectory
    Root = root
    Filesize <- MCFilesize
    Deleted = gone
    Paths <- MCPaths
    Modes = {"r", "w", "x"}
    Offsets <- MCOffsets
    UINT32 = 4
    MaxOpens = 3
    MaxStray = 1
    Elsewhere = Elsewhere
    root = root
    dir = dir
    f1 = f1
    f2 = f2
    gone = gone
SPECIFICATION Spec
CONSTRAINT HeapSound
INVARIANTS
    TypeOK
    OwnLiveObjects
    OpenNamesItsPath
PROPERTIES
    OneDescriptorPerCall
    ExistingOpens
    LeaksOnlyThere
