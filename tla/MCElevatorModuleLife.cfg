\* One process calls at any time; loading, unloading and kmalloc may fail.
CONSTANTS
    FLOORS = 2
    CAPACITY = 1
    Scheduler = scheduler
    Caller = {c1}
    NoOwner = nobody
    Calls = {"start", "issue", "stop"}
    Request <- TwoRequests
    Interruptible = {}
    Starved = {c1}
    MaxRequests = 1
    Loader = loader
    MaxLoads = 2
    MayFail = TRUE
    Overlap = TRUE
SPECIFICATION LifeSpec
INVARIANTS LifeTypeOK OrderlyCallsReachCode OrderlyExcludes LeavesNothing StillListedOnce LifeInv
PROPERTY UnloadFinishes
