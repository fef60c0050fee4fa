SPECIFICATION MCSpec
CONSTANTS
    NCPU = 1
    Threads = {t1, t2, t3}
    PinnedTo <- NotPinned
    Waiters = {t1, t2}
    RUNQUEUES_N = 3
    PRIO_HIGH_BATCH = 1
    InteractivePrios = {}
    IDLE = IDLE
    NULL = NULL
INVARIANTS
    RrOnePlace
PROPERTIES
    TakesTurns
