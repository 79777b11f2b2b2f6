\* Flags 5 and 7: present and user, read-only or writable.  64 is the last page
\* (a range that begins there wraps around); 12 and 20 are not aligned.
CONSTANTS
    Chunks = {c1, c2}
    Kernel = Kernel
    PageSize = 8
    Entries = 3
    HeapPages <- MCHeapPages
    NewFlags = {5, 7}
    Flags = {5, 7}
    Virts = {12, 32, 64}
    Physs = {8, 20, 40}
    MaxMaps = 2
SPECIFICATION Spec
INVARIANTS
    TypeOK
    TablesExact
    CopySafe
PROPERTIES
    ImplementsAddressSpace
    EditsExact
SYMMETRY Symmetric
