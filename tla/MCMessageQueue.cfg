SPECIFICATION Spec
CONSTANTS
    t1 = t1
    t2 = t2
    t3 = t3
    Idle = Idle
    NULL = NULL
    Task <- MCTask
    Queue <- MCQueue
    IDLE_PRIORITY = 2
    Priority <- MCPriority
    Sliced = {t3, Idle}
    WAIT_FOREVER = 9
    Calls <- MCCalls
    Message = {1, 2}
    MAX_ITEMS = 2
    Timeouts <- MCTimeouts
INVARIANTS
    TypeOK
    NobodyStranded
PROPERTIES
    ChannelSpec
