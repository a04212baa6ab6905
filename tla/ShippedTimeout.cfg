SPECIFICATION Spec
CONSTANTS
    Trigger = 500
    Timeout = 504
    OK = 200
    Statuses <- AllStatuses
    MinElapsed = 49
    EndpointTimeout = 30
    ChainTime = 0
    MaxBody = 2
    MaxTime = 60
CHECK_DEADLOCK FALSE
INVARIANTS TimeoutReported
