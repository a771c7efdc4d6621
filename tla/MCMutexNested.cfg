SPECIFICATION Spec
CONSTANTS
    t1 = t1
    t2 = t2
    t3 = t3
    Idle = Idle
    NULL = NULL
    Task <- MCTask
    Queue = {"M1", "M2"}
    IDLE_PRIORITY = 3
    Priority <- MCPriority
    Sliced = {t1, t2, t3, Idle}
    WAIT_FOREVER = 9
    Calls <- MCCalls
    MAX_NEST = 1
    MAX_HELD = 2
    MAX_DEPTH = 8
    Timeouts = {1, 9}
INVARIANTS
    NoInversion
