\* One process, which starts the elevator and issues requests; no stop.
CONSTANTS
    FLOORS = 3
    CAPACITY = 2
    Scheduler = Scheduler
    NoOwner = NoOwner
    Caller = {c1}
    Calls = {"start", "issue"}
    Request <- MixedRequests
    Interruptible = {}
    Starved = {}
    MaxRequests = 3
SPECIFICATION FairSpec
INVARIANTS TypeOK LoadsExact WaitingTotal
PROPERTIES ImplementsService HumansAvoidZombies BoardsInOrder EveryoneDelivered
