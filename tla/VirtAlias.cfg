SPECIFICATION VirtSpec
CONSTANTS
    MaxFrames = 10
    LowFrames = 2
    Word = 16
    Maps <- MCAmple
    RunSizes = {}
    Levels = 3
    TableSize = 2
    Span <- MCSpan
    IdentityPages = 2
    DirectPages = 4
    DirectBase = 8
    Pages = {}
    Targets = {}
    SwapCapacity = 0
CHECK_DEADLOCK FALSE
INVARIANT
    IdentityHolds
