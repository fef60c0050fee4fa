SPECIFICATION MCSpec
CONSTANTS
    Bootable = 4
    MaxNamespaces = 4
    EntryCnt = 3
    PairsFit = 4
    MsixEntries = 2
    Faulty = TRUE
INVARIANTS
    OwnLocale
    TrampolineSafe
    CountedAreUp
    IrqReady
    OwnCompletion
    CidsReturned
PROPERTIES
    AllBoot
    
CHECK_DEADLOCK FALSE
