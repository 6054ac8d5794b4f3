SPECIFICATION Spec
CONSTANTS
    Nothing = Nothing
    MaxRuns = 3
    MaxKills = 2
\* A host to which nobody deploys any more stays as it is.
CHECK_DEADLOCK FALSE
INVARIANTS KeptByWholeRuns EndsSettled
