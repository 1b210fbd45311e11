CONSTANTS
    FLOORS = 2
    CAPACITY = 2
    Scheduler = Scheduler
    NoOwner = NoOwner
    Caller = {c1}
    Calls = {"start", "issue", "stop"}
    Request <- LobbyRequests
    Interruptible = {}
    Starved = {}
    MaxRequests = 2
SPECIFICATION FairSpec
PROPERTY EveryoneBoards
