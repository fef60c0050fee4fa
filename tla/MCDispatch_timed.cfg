SPECIFICATION FairSpec
CONSTANTS
    t1 = t1
    t2 = t2
    t3 = t3
    m1 = m1
    s1 = s1
    s2 = s2
    e1 = e1
    k1 = k1
    tm1 = tm1
    tm2 = tm2
    tm3 = tm3
    NoThread = NoThread
    Threads = {t1, t2, t3}
    Mutexes = {}
    Semaphores = {s1}
    Events = {e1}
    Notification = {}
    KTimers = {}
    TimerOf <- MCTimerOf
    SemInit <- OneToken
    Waits <- TimedWaits
    Posts <- NoPosts
    MaxCount = 1
INVARIANTS
    TokenConserved
    NoWaiterLeft
    NoPanic
PROPERTIES
    TimedWaitWakes
