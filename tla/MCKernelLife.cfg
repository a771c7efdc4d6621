SPECIFICATION Spec
CONSTANTS
    s = s
    w1 = w1
    w2 = w2
    Idle = Idle
    Task <- MCTask
    Calls <- MCCalls
    IDLE_PRIORITY = 2
    Delays = {1}
    TIME_SLICE = 1
    MAX_LOCK = 1
    MAX_LEAK = 1
CHECK_DEADLOCK FALSE
INVARIANTS
    TypeOK
    ReadyConsistent
    SleepersQueued
    NoDangling
    SwitchFindsTask
    HighestRuns
PROPERTIES
    NoSwitchWhileLocked
    DelayKept
