SPECIFICATION SoftFairSpec
CONSTANTS
    idle = idle
    ksoftirqd = ksoftirqd
    p1 = p1
    Thread <- MCThread
    idle_thread = idle
    main_thread = p1
    ksoftirqd_thread = ksoftirqd
    Priority <- MCPriority
    BootReady <- MCBootReady
    QueueSize = 2
    Message = {1, 2, 3}
    FrameMax = 2
INVARIANTS
    ReceiveFindsFrame
    BufferNotShared
PROPERTIES
    SleeperWoken
