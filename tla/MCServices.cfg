SPECIFICATION MCSpec
CONSTANTS
    Threads = {t1}
    Objects = {o1, o2}
    NoObject = NoObject
    NHandles = 2
    StaleHandles = FALSE
    MaxSent = 2
    RefModulus = 8
    MaxRefs = 4
    p1 = p1
    p2 = p2
SYMMETRY Symmetric
INVARIANTS
    HandlesLive
    
    
    
    DirectShared
CHECK_DEADLOCK FALSE
