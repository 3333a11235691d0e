SPECIFICATION FsSpec
CONSTANTS
    Name = {a, b}
    Depth = 2
    NInodes = 3
    NBlocks = 10
    Partitions <- MCPartitions
    Direct = 2
    Indirect = 1
    PerBlock = 3
    BLOCK_SIZE = 1
    MAX_FILE_OPEN = 2
    MaxFds = 1
    InodeNoBits = 8
    MaxLeft = 2
    MaxCrashes = 0
SYMMETRY NameSymmetry
CONSTRAINT NotStale
INVARIANTS
    TreeSound
    OpenCountsExact
PROPERTY
    OthersUntouched
