SPECIFICATION Spec
CONSTANT
    MaxKills = 3
INVARIANT
    RecordsAreHonest
