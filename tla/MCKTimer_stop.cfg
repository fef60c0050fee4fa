SPECIFICATION FairSpec
CONSTANTS
    c1 = c1
    c2 = c2
    a = a
    b = b
    NoCPU = NoCPU
    NoTimer = NoTimer
    CPUs = {c1, c2}
    BalanceCPUs = {}
    Timers = {a}
    Delays = {1}
    Calls = {"timer_start", "timer_stop"}
PROPERTIES
    StopReturns
CHECK_DEADLOCK FALSE
