SPECIFICATION IOQFairSpec
CONSTANTS
    idle = idle
    p1 = p1
    p2 = p2
    p3 = p3
    NULL = NULL
    Thread <- MCThread
    idle_thread = idle
    main_thread = p1
    Priority <- MCPriority
    BootReady <- MCBootReady
    Byte = {1, 2}
    Key = {1}
    bufsize = 3
    MaxCount = 2
    KbdReader = {p1}
    PipeWriter = {p1, p2}
    PipeReader = {p3}
INVARIANTS
    WaiterSlotSafe
    LockWaitersServed
    NoMissedKey
PROPERTIES
    RingIsFifo
    KeyIsRead
