CONSTANTS
    FLOORS = 2
    CAPACITY = 2
    Scheduler = Scheduler
    NoOwner = NoOwner
    Caller = {c1, c2}
    Calls = {"start", "issue", "stop"}
    Request <- LobbyZombie
    Interruptible = {}
    Starved = {}
    MaxRequests = 2
SPECIFICATION Spec
PROPERTY NoAcceptWhenStopped
