SPECIFICATION PunctualSpec
CONSTANTS
    Reqs = {r1, r2}
    Nobody = Nobody
    InitSessions <- LongSession
    IdleTTL = 14
    Threshold = 1
    StoreTimeout = 2
    RefreshTimeout = 1
    LockTTL = 6
    WaitStep = 1
    TokenLife = 3
    Faults = {}
    LastArrival = 4
    MaxTime = 14
CHECK_DEADLOCK FALSE
PROPERTIES LoserOutwaitsWinner
