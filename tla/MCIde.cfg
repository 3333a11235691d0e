SPECIFICATION IdeFairSpec
CONSTANTS
    idle = idle
    main = main
    p = p
    q = q
    NULL = NULL
    Thread <- MCThread
    idle_thread = idle
    main_thread = main
    Priority <- MCPriority
    BootReady <- MCBootReady
    Machines <- MCMachines
    TimeLimit = 3
INVARIANT
    CommandMatched
PROPERTY
    ChannelReleased
