SPECIFICATION Spec
CONSTANTS
    alice = alice
    bob = bob
    t1 = t1
    t2 = t2
    Undecided = Undecided
    Client <- MCClient
    Task <- MCTask
    Limit = 2
    Window = 2
    MaxTime = 3
    MaxHits = 3
SYMMETRY MCSymmetry
INVARIANTS IInv BurstBound
PROPERTIES RetryAfterHonest ImplementsQuota
