\* Two processes make all calls; signals may interrupt their waiting for the mutex.
CONSTANTS
    FLOORS = 3
    CAPACITY = 2
    Scheduler = Scheduler
    NoOwner = NoOwner
    Caller = {c1, c2}
    Calls = {"start", "issue", "stop"}
    Request <- LobbyRequests
    Interruptible = {c1, c2}
    Starved = {c1, c2}
    MaxRequests = 3
SYMMETRY CallerSymmetry
SPECIFICATION Spec
INVARIANTS CapacityRespected Accounting ListedOnce AcceptsWhenStarted IInv
PROPERTIES ImplementsService SweepsFloors RestsWhenEmpty
