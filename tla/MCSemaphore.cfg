SPECIFICATION FairSpec
CONSTANTS
    t1 = t1
    t2 = t2
    t3 = t3
    Idle = Idle
    NULL = NULL
    Task <- MCTask
    Queue <- MCQueue
    IDLE_PRIORITY = 2
    Priority <- MCPriority
    Sliced = {t3, Idle}
    WAIT_FOREVER = 9
    Calls <- MCCalls
    MAX_COUNT = 2
    Timeouts = {1, 2, 9}
INVARIANTS
    TypeOK
    LinksSound
    TokensConserved
    PromptSwitch
PROPERTIES
    SemaphoreSpec
    WaitEnds
