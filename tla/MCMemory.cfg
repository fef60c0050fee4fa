SPECIFICATION MCSpec
CONSTANTS
    Threads = {t1, t2}
    Regions <- OneRegion
    Requests <- Mixed
    CPUs = {c1, c2}
    Magazines = {m1, m2, m3}
    Slabs = {s1, s2}
    Capacity = 2
    MagazineSize = 1
    NULL = NULL
    OneThread = r1
    OneCPU = p1
    OneSlab = l1
SYMMETRY Symmetric
INVARIANTS
    PageFoundIfAny
    FoundInEach
    
    EveryBufferOnce
    EveryMagazineOnce
    SlabAccounts
    LayoutFits
PROPERTY
    ImplementsPool
CHECK_DEADLOCK FALSE
