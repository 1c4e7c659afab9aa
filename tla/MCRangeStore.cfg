SPECIFICATION Spec
CONSTANTS
    MaxId = 5
    MaxCrashes = 1
INVARIANTS
    RowsApart
    NeverOverclaims
PROPERTIES
    AnswersAreComplements
    KeepsPromise
