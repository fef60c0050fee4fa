SPECIFICATION MCSpec
CONSTANTS
    NoCPU = NoCPU
    NoTimer = NoTimer
    CPUs = {c1}
    OtherCPU = c2
    BalanceCPUs = {c1}
    Timers = {a, b}
    OneTimer = a
    Delays = {1, 2}
    Calls = {"timer_init", "timer_start", "timer_stop"}
INVARIANTS
    HeapHoldsPending
PROPERTIES
    OneNeverEarly
    OneExpires
CHECK_DEADLOCK FALSE
