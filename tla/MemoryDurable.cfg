SPECIFICATION Spec
CONSTANTS
    MaxMemories = 8
    FlushEvery = 3
    HeapSlots = 6
    Kinds <- MCPlainKinds
    WriteOutcomes <- Reliable
    ReadOutcomes <- ReadOnly
    MaxContents = 7
PROPERTY
    IsDurableLog
