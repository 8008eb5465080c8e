SPECIFICATION BootSpec
CONSTANTS
    Top = 7
    LowFrames = 2
    Load = 1
    BssStart = 3
    BssEnd = 4
    Slack = 2
    MaxEvents = 2
CHECK_DEADLOCK FALSE
INVARIANTS
    BootTypeOK
    MapIsFirmwares
    RetryEnough
