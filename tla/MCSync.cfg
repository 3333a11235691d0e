SPECIFICATION SyncSpec
CONSTANTS
    idle = idle
    main = main
    p1 = p1
    p2 = p2
    NULL = NULL
    Thread <- MCThread
    idle_thread = idle
    main_thread = main
    Priority <- MCPriority
    BootReady <- MCBootReady
    Lock = {l1}
    MaxDepth = 2
INVARIANTS
    SyncTypeOK
    MutualExclusion
    HolderCountsRight
    WaitersAsleep
    NoLostWakeup
PROPERTIES
    SchedSpec
