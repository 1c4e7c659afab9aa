SPECIFICATION FairSpec
CONSTANTS
    Methods <- MCMethods
    Interval <- MCInterval
    Backoffs <- MCBackoffs
    Threshold = 7
    MaxRpc = 5
    MaxFloods = 2
    FloodSeconds = {1, 3}
INVARIANT
    RetriesBounded
PROPERTIES
    HonoursFloods
    CallsAreSpaced
    CallsEnd
