SPECIFICATION Spec
CONSTANTS
    MaxMemories = 3
    FlushEvery = 2
    HeapSlots = 5
    Kinds <- MCKinds
    WriteOutcomes <- Unreliable
    ReadOutcomes <- ReadOrFail
    MaxContents = 6
INVARIANTS
    StoreTypeOK
    DirtyCounted
    NoDuplicates
PROPERTY
    FactsEvictedLast
