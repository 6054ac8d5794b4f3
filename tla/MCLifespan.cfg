SPECIFICATION LifespanFairSpec
CONSTANTS
    p1 = p1
    Probe <- MCProbe
\* A process that has stopped is over.
CHECK_DEADLOCK FALSE
INVARIANTS LifespanInv StopsClean
PROPERTIES ReadyHonest LifecycleEnds
