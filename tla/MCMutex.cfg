SPECIFICATION Spec
CONSTANTS
    t1 = t1
    t2 = t2
    t3 = t3
    Idle = Idle
    NULL = NULL
    Task <- MCTask
    Queue = {"M"}
    IDLE_PRIORITY = 3
    Priority <- MCPriority
    Sliced = {t1, t2, t3, Idle}
    WAIT_FOREVER = 9
    Calls <- MCCalls
    MAX_NEST = 2
    MAX_HELD = 1
    MAX_DEPTH = 8
    Timeouts = {1, 2, 9}
INVARIANTS
    TypeOK
    LinksSound
    Ownership
    NoInversion
    BoostEnds
