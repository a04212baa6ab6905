SPECIFICATION PunctualSpec
CONSTANTS
    Reqs = {r1, r2}
    Nobody = Nobody
    InitSessions <- LongSession
    IdleTTL = 14
    Threshold = 1
    StoreTimeout = 1
    RefreshTimeout = 1
    LockTTL = 4
    WaitStep = 2
    TokenLife = 3
    Faults = {"orphan"}
    LastArrival = 4
    MaxTime = 14
CHECK_DEADLOCK FALSE
INVARIANTS RefreshesSerialised
