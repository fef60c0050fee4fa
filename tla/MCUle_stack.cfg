SPECIFICATION Spec
CONSTANTS
    t1 = t1
    t2 = t2
    t3 = t3
    NCPU = 2
    Threads = {t1, t2}
    PinnedTo <- NotPinned
    Waiters = {t1}
    RUNQUEUES_N = 2
    PRIO_HIGH_BATCH = 1
    InteractivePrios = {}
    IDLE = IDLE
    NULL = NULL
INVARIANTS
    OneCpuPerThread
CHECK_DEADLOCK FALSE
