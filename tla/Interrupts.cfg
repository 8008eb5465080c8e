SPECIFICATION FairSpec
CONSTANTS
    PerChip = 3
    Cascade = 1
    Gates <- MCGates
    DriverLines <- MCDriverLines
    Handlers = {h1, h2}
    NULL = NULL
    MaxRaises = 2
CHECK_DEADLOCK FALSE
INVARIANTS
    InterruptsTypeOK
    OwnContext
    MaskAgrees
    InServiceMatches
PROPERTY
    RaisedIsServed
