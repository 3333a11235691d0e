SPECIFICATION FsSpec
CONSTANTS
    Name = {a, b}
    Depth = 1
    NInodes = 3
    NBlocks = 10
    Partitions <- MCCrashed
    Direct = 2
    Indirect = 1
    PerBlock = 4
    BLOCK_SIZE = 1
    MAX_FILE_OPEN = 2
    MaxFds = 1
    InodeNoBits = 8
    MaxLeft = 0
    MaxCrashes = 1
SYMMETRY NameSymmetry
INVARIANT
    EntryFoundOnce
