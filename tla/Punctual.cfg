SPECIFICATION FairSpec
CONSTANTS
    Reqs = {r1, r2}
    Nobody = Nobody
    InitSessions <- Sessions
    IdleTTL = 14
    Threshold = 1
    StoreTimeout = 1
    RefreshTimeout = 1
    LockTTL = 4
    WaitStep = 1
    TokenLife = 3
    Faults = {"error", "late", "crash", "logout"}
    LastArrival = 1
    MaxTime = 10
CHECK_DEADLOCK FALSE
INVARIANTS CallExclusive RefreshesSerialised AnsweredInTime
PROPERTIES RefreshedOnce CeilingOverrunBounded GivesUpLate EveryRequestEnds
