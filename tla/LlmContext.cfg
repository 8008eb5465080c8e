SPECIFICATION Spec
CONSTANTS
    CtxSize = 16
    Margin = 2
    FeedMax = 2
    BatchSize = 2
    ThinkMax = 4
    OutSize = 5
    PieceLens <- MCPieceLens
    MaxTokens = 26
INVARIANTS
    ContextTypeOK
    ArraysInBounds
    ContextOrdered
    CacheCurrent
PROPERTY
    ForgetsOldest
