SPECIFICATION Spec
CONSTANTS
    MaxId = 2
    MaxEvents = 4
    PageSize = 1
    DiffLimit = 9
    TooLongGap = 9
    CatchupBudget = 9
    Misbehaves = FALSE
    MaxInterrupts = 0
INVARIANT RerunCapturesChanges
