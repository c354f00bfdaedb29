SPECIFICATION FairSpec
CONSTANTS
    Worker = {w1, w2, w3}
    External = {e1, e2}
    Task = {t1, t2, t3, t4}
    NoTask = NoTask
INVARIANTS
    TypeOK
    NoLostWakeup
    NobodySleepsThroughStop
    DestructorDrains
PROPERTIES
    ImplementsExecutor
CHECK_DEADLOCK FALSE
