SPECIFICATION SigFairSpec
CONSTANTS
    p1 = p1
    p2 = p2
    f1 = f1
    NULL = NULL
    Proc = {p1, p2}
    first = p1
    SIG_CNT = 2
    SIG_QUEUE_MAX_CNT = 3
    Func = {f1}
    HandlerForks = FALSE
    MaxCalls = 4
INVARIANT
    ContextKept
PROPERTIES
    HandledInOrder
    SignalTaken
