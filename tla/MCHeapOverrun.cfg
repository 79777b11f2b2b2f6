\* The request of 3 blocks meets a free tail of 2 blocks.
CONSTANTS
    Total = 5
    BlockSize = 4
    Saddr = 12
    WordLimit = 64
    Owners = {o1, o2, o3}
    Sizes = {8, 9}
    LowBytes = {129}
SPECIFICATION Spec
INVARIANT GrantInPool
SYMMETRY Symmetric
