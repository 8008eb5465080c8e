SPECIFICATION Spec
CONSTANTS
    Symbols <- MCSymbols
    Texts <- MCTexts
    MaxResults = 2
    AudioReady = TRUE
    Memories <- MCMemories
    Window = 2
    HeapSlots = 5
    MaxThoughts = 2
INVARIANTS
    MindTypeOK
    EachTagOnce
    ExperienceWithFacts
PROPERTY
    ThoughtIsKept
