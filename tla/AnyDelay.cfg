SPECIFICATION Spec
CONSTANTS
    Reqs = {r1, r2}
    Nobody = Nobody
    InitSessions <- AllSessions
    IdleTTL = 4
    Threshold = 1
    StoreTimeout = 1
    RefreshTimeout = 1
    LockTTL = 1
    WaitStep = 1
    TokenLife = 3
    Faults = {"error", "late", "crash", "logout", "revoke", "garble", "orphan"}
    LastArrival = 3
    MaxTime = 5
SYMMETRY RequestSymmetry
CHECK_DEADLOCK FALSE
INVARIANTS TypeOK FreshToken UnauthorizedOnlyIfDead
PROPERTIES LockLostOnlyByTTL RemovedForCause ImplementsPromise
