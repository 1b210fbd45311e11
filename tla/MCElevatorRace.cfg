CONSTANTS
    FLOORS = 2
    CAPACITY = 1
    Scheduler = Scheduler
    NoOwner = NoOwner
    Caller = {c1, c2}
    Calls = {"start", "issue", "stop"}
    Request <- LobbyRequests
    Interruptible = {c1, c2}
    Starved = {}
    MaxRequests = 2
SPECIFICATION Spec
INVARIANT LockExcludes
