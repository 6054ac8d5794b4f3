SPECIFICATION Spec
CONSTANTS
    t1 = t1
    t2 = t2
    t3 = t3
    a = a
    b = b
    signedA = signedA
    signedB = signedB
    forged = forged
    bare = bare
    NoTask = NoTask
    NoKid = NoKid
    Probe = Probe
    Boot = Boot
    Task <- MCTask2
    Kid <- MCKid
    Token = {signedA, signedB, forged, bare}
    KidOf <- MCKidOf
    Genuine <- MCGenuine
    KeysOf <- MCKeysOf
    LastVersion = 3
    Ttl = 1
    MaxStale = 2
    HttpTimeout = 1
    RequireWarmup = FALSE
    MaxTime = 4
SYMMETRY MCSymmetry2
INVARIANTS IInv
PROPERTIES RevokedKeysExpire CacheNeverRegresses RejectionExcused ProbeHonest ImplementsKeyTrust
