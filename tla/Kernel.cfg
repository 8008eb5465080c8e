SPECIFICATION KernelSpec
CONSTANTS
    Machines <- MCMachines
    Texts <- MCTexts
    TicksGuess = 1
    TicksPerMs = 2
    MaxTsc = 5
    Word = 256
    CamFrames <- MCCamFrames
    MaxPixels = 2
    MicFrames <- MCMicFrames
    MaxSamples = 2
    RootBits = {1, 2, 4}
    TopBit = 16
INVARIANTS
    KernelTypeOK
    LettersApart
    ReadingsExact
    DevicesDriven
    FramesHaveMemory
PROPERTIES
    SnapshotsFollow
    WakesUp
CHECK_DEADLOCK FALSE
