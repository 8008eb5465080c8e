SPECIFICATION HeapSpec
CONSTANTS
    MaxFrames = 10
    LowFrames = 2
    Word = 16
    Maps <- MCMaps
    RunSizes = {0, 1, 2, 3}
    PageSize = 4
    HeapPages = 2
    HeapAlign = 2
    DirectMap = 100
    BlockSizes = {1, 2, 3}
    BlockAligns = {2, 4, 8}
INVARIANTS
    HeapTypeOK
    FramesConserved
    StatusExact
    CounterBetween
    ScanFindsLowestRun
    BlocksDisjoint
    BlocksInHeldFrames
