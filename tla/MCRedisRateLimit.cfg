SPECIFICATION Spec
CONSTANTS
    c1 = c1
    t1 = t1
    t2 = t2
    Client <- MCClient
    Task <- MCTask
    Limit = 2
    Window = 2
    MaxTime = 4
    MaxCount = 5
SYMMETRY MCSymmetry
INVARIANTS PromptQuota LateQuota CountersMortal
PROPERTIES RefusalEarned
