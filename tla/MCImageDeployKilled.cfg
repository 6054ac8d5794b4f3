SPECIFICATION Spec
CONSTANTS
    Nothing = Nothing
    MaxRuns = 2
    MaxKills = 1
CHECK_DEADLOCK FALSE
INVARIANTS KnownGoodKept
