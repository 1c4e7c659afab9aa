SPECIFICATION FairSpec
CONSTANTS
    MaxId = 4
    PageSize = 2
    ProbeChunk = 2
    PageBudget = 1
    MaxInterrupts = 1
    Placeholders = {2}
INVARIANTS
    NothingStranded
    VerifiedIsHonest
    ResumeIsSafe
PROPERTY
    EverythingCollected
    KeepsArchive
