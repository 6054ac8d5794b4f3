SPECIFICATION Spec
CONSTANTS
    Address <- MCAddress
    Environment <- MCEnvironment
    Garbled = "garbled"
    Absent = "absent"
    Claims <- MCClaims
    Opaque = "a JSON text"
    Request = {"r1", "r2", "r3"}
    Offered <- MCOffered
    Habit <- MCHabit
    RequestTimeout = 1
    Latency = 1
    MaxTime = 4
INVARIANTS
    IInv
    KeyIsReal
    TokenDuly
    CachedTimeFresh
    ProbesAnswer
    MigrationsReachRuntime
PROPERTY
    CountersSurviveClear
CHECK_DEADLOCK FALSE
