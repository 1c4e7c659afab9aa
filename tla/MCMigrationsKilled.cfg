SPECIFICATION Spec
CONSTANT
    MaxKills = 1
INVARIANT
    InterruptedIsSafe
