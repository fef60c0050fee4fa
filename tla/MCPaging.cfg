SPECIFICATION Spec
CONSTANTS
    Kernel = k
    Spaces = {k, u}
    Fan = 2
    Pml5 = TRUE
    GibPages = TRUE
    NTables = 20
    Frames = {100}
    Vaddrs = {0, 2, 24}
    FlagsAt <- MCFlagsAt
    ProtsAt <- MCProtsAt
INVARIANTS
    TablesNotShared
PROPERTY
    ImplementsMap
