SPECIFICATION Spec
CONSTANTS
    photo1 = photo1
    photo2 = photo2
    photo3 = photo3
    x = x
    y = y
    Gone = Gone
    NoFile = NoFile
    Contents <- MCContents
    Shas <- MCShas
    BytesOf <- MCBytesOf
    MaxMsg = 2
    MaxEdits = 1
    MaxRuns = 2
    MaxKills = 0
INVARIANT
    CustodyNamesItsContent
