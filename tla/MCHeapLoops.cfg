\* All well-formed tables of 5 blocks, requests of 0 to 6 blocks.
CONSTANTS
    Total = 5
    BlockSize = 4
    Saddr = 12
    WordLimit = 64
    MaxRequest = 6
SPECIFICATION FairLoopsSpec
INVARIANTS
    LoopResults
PROPERTY
    Terminates
CHECK_DEADLOCK FALSE
