SPECIFICATION FairSpec
CONSTANTS
    N = 3
    Priority <- MCPriority
    Budget = 1
    Batch = 2
    Hidden = {2}
    MaxChanges = 1
    MaxStops = 1
INVARIANTS
    TriageHearsEveryone
PROPERTIES
    OnlyProvenDead
    NobodyOvertaken
    PassIsHonest
    EveryoneGetsATurn
