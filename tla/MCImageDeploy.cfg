SPECIFICATION FairSpec
CONSTANTS
    Nothing = Nothing
    MaxRuns = 3
    MaxKills = 2
CHECK_DEADLOCK FALSE
INVARIANTS OneRuns KeptByWholeRuns EndsSettled
PROPERTIES RunsEnd
