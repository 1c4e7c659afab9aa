SPECIFICATION Spec
CONSTANTS
    h = h
    f = f
    NoChannel = NoChannel
    NoHandle = NoHandle
    Gone = Gone
    Text = Text
    Channels <- MCChannels
    Handles <- MCHandles
    Msgs <- MCMsgs
    Groups <- MCGroups
    Link <- MCLink
    Owner <- MCOwner
    OldHandle <- MCStored
    SeenIn <- MCSeenIn
    Files <- MCFiles
    Batch = 1
    Priorities <- MCPriorities
    Lists <- MCLists
    Specs <- MCSpecs
    OldTombs <- MCOldTombs
INVARIANTS
    OnlyTheRightChannel
    EveryRowIsSettled
    ReportIsTrue
PROPERTY
    NothingIsRedone
