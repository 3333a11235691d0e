SPECIFICATION ProcFairSpec
CONSTANTS
    idle = idle
    main = main
    init = init
    p1 = p1
    p2 = p2
    p3 = p3
    Thread <- MCThread
    idle_thread = idle
    main_thread = main
    init_process = init
    Priority <- MCPriority
    BootReady <- MCBootReady
    PID_MAX = 6
INVARIANTS
    PidsExact
    ParentAlive
    WaitSound
    DirsExact
PROPERTIES
    SchedSpec
    WaitReturns
