\* One reader walks the lists while the scheduler loads.
CONSTANTS
    FLOORS = 2
    CAPACITY = 1
    Scheduler = scheduler
    Caller = {c1}
    NoOwner = nobody
    Calls = {"start", "issue"}
    Request <- HumanRequests
    Interruptible = {}
    Starved = {}
    MaxRequests = 1
    Reader = {r1}
    MaxOpens = 2
SPECIFICATION ProcSpec
INVARIANT WalkStays
