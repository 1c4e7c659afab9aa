SPECIFICATION Spec
CONSTANTS
    NoFile = NoFile
    File <- MCFile
    PageSize = 2
    Plans <- MCPlans
    ById <- MCById
    Leads <- MCLeads
    Created = {2}
    Self = 9
    Members = {5, 6, 7}
    Megas = {3, 4, 5}
    Hidden = {5}
    JoinToSend = {3}
    Linked <- MCLinked
    Author <- MCAuthor
    Reacted = {1, 3}
    Reactors <- MCReactors
    OracleBudget = 1
    ListBudget = 1
    ListPages = 1
    RosterPage = 2
    MaxId = 5
    DiffLimit = 1
    TooLong = 2
INVARIANTS
    SegmentsArePasses
    RoundTrips
    SelfRoundTrips
    ReplayIsRepeatable
    CustodyRoundTrips
    FilterIsExact
    SwapIsSafe
    RosterRoundTrips
    RosterConverges
CHECK_DEADLOCK FALSE
