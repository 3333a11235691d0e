SPECIFICATION MemSpec
CONSTANTS
    process = process
    main = main
    NULL = NULL
    Thread = {process, main}
    Preemptible = {main}
    VPages = 4
    PPages = 2
    Byte = 2
    blocks_per_arena = 2
    MaxPages = 2
CONSTRAINT Untorn
INVARIANTS
    ScanRight
    
    BlocksExact
    LockGivenBack
    
