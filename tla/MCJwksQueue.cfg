SPECIFICATION FairSpec
CONSTANTS
    t1 = t1
    t2 = t2
    t3 = t3
    a = a
    b = b
    signedA = signedA
    signedB = signedB
    forged = forged
    bare = bare
    NoTask = NoTask
    NoKid = NoKid
    Probe = Probe
    Boot = Boot
    Task <- MCTask3
    Kid <- MCKid
    Token = {signedB}
    KidOf <- MCKidOf
    Genuine <- MCGenuine
    KeysOf <- MCKeysOf
    LastVersion = 2
    Ttl = 1
    MaxStale = 0
    HttpTimeout = 1
    RequireWarmup = TRUE
    MaxTime = 2
\* A startup that the required warm-up aborted is over.
CHECK_DEADLOCK FALSE
INVARIANTS WarmBeforeTraffic
PROPERTIES EveryTaskEnds
