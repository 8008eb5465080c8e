SPECIFICATION VirtFairSpec
CONSTANTS
    MaxFrames = 8
    LowFrames = 2
    Word = 16
    Maps <- MCMaps
    RunSizes = {}
    Levels = 3
    TableSize = 2
    Span <- MCSpan
    IdentityPages = 2
    DirectPages = 1
    DirectBase = 8
    Pages = {1, 4, 6}
    Targets = {1}
    SwapCapacity = 2
CHECK_DEADLOCK FALSE
INVARIANTS
    VirtTypeOK
    TablesFormTree
PROPERTIES
    IsPageMap
    FaultsServed
