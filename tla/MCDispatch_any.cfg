SPECIFICATION Spec
CONSTANTS
    t1 = t1
    t2 = t2
    t3 = t3
    m1 = m1
    s1 = s1
    s2 = s2
    e1 = e1
    k1 = k1
    tm1 = tm1
    tm2 = tm2
    tm3 = tm3
    NoThread = NoThread
    Threads = {t1, t2, t3}
    Mutexes = {}
    Semaphores = {s1, s2}
    Events = {e1}
    Notification = {}
    KTimers = {k1}
    TimerOf <- MCTimerOf
    SemInit <- NoToken
    Waits <- AnyWaits
    Posts <- PostAll
    MaxCount = 1
INVARIANTS
    QueuedIsActive
CHECK_DEADLOCK FALSE
