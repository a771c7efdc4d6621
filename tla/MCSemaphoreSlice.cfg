SPECIFICATION Spec
CONSTANTS
    t1 = t1
    t2 = t2
    t3 = t3
    Idle = Idle
    NULL = NULL
    Task <- MCTask
    Queue <- MCQueue
    IDLE_PRIORITY = 2
    Priority <- MCEqualPriority
    Sliced = {t1, t2, Idle}
    WAIT_FOREVER = 9
    Calls <- MCCalls
    MAX_COUNT = 2
    Timeouts = {9}
INVARIANTS
    TokensConserved
