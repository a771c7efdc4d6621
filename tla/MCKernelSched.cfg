SPECIFICATION FairSpec
CONSTANTS
    t1 = t1
    t2 = t2
    t3 = t3
    Idle = Idle
    Task <- MCTask
    Calls <- MCCalls
    IDLE_PRIORITY = 2
    Delays = {1, 2}
    TIME_SLICE = 2
    MAX_LOCK = 0
    MAX_LEAK = 0
PROPERTIES
    RoundRobin
    DelayEnds
