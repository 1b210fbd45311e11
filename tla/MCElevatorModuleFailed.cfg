\* Loading fails; calls are only made before and after.
CONSTANTS
    FLOORS = 2
    CAPACITY = 1
    Scheduler = scheduler
    Caller = {c1}
    NoOwner = nobody
    Calls = {"start", "issue", "stop"}
    Request <- TwoRequests
    Interruptible = {}
    Starved = {}
    MaxRequests = 1
    Loader = loader
    MaxLoads = 1
    MayFail = TRUE
    Overlap = FALSE
SPECIFICATION LifeSpec
INVARIANT CallsReachCode
