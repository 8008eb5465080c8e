SPECIFICATION Spec
CONSTANTS
    MaxMemories = 8
    FlushEvery = 2
    HeapSlots = 7
    Kinds <- MCPlainKinds
    WriteOutcomes <- Reliable
    ReadOutcomes <- ReadOrFail
    MaxContents = 6
INVARIANT
    CleanIsOnDrive
