SPECIFICATION Spec
CONSTANTS
    Reqs = {r1, r2}
    TTL = 2
    Timeout = 2
    CacheTTL = 3
    RetryDelay = 1
    FetchTimeout = 1
    MaxFailures = 1
    LastChange = 1
    MaxTime = 9
SYMMETRY RequestSymmetry
CHECK_DEADLOCK FALSE
INVARIANTS TypeOK RevocationBounded DeniedForCause WithdrawalBounded OpensInTime
