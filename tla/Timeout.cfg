SPECIFICATION Spec
CONSTANTS
    Trigger = 500
    Timeout = 504
    OK = 200
    Statuses <- AllStatuses
    MinElapsed = 3
    EndpointTimeout = 3
    ChainTime = 2
    MaxBody = 2
    MaxTime = 6
CHECK_DEADLOCK FALSE
INVARIANTS TypeOK TimeoutReported FastErrorKept
PROPERTIES KeepsPromise
