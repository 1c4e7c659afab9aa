SPECIFICATION Spec
CONSTANTS
    MaxId = 2
    MaxEvents = 5
    PageSize = 1
    DiffLimit = 2
    TooLongGap = 3
    CatchupBudget = 2
    Misbehaves = TRUE
    MaxInterrupts = 1
INVARIANTS
    CursorIsApplied
    CleanMeansDrained
    TouchedIsCurrent
PROPERTY
    KeepsArchive
