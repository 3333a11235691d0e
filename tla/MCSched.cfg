SPECIFICATION SchedFairSpec
CONSTANTS
    idle = idle
    main = main
    p1 = p1
    p2 = p2
    Thread <- MCThread
    idle_thread = idle
    main_thread = main
    Priority <- MCPriority
    BootReady <- MCBootReady
INVARIANTS
    SchedTypeOK
    ReadyExact
    IdleAvailable
PROPERTIES
    StarvationFree
