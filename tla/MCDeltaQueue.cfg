SPECIFICATION Spec
CONSTANTS
    Task = {t1, t2, t3, t4}
    MAX_TICKS = 3
INVARIANTS
    TypeOK
    QueueInvariant
    HeadPositive
PROPERTIES
    TimersSpec
