\* Two processes run the programs; a signal may interrupt one, kmalloc fails for the other.
CONSTANTS
    FLOORS = 2
    CAPACITY = 1
    Scheduler = Scheduler
    NoOwner = NoOwner
    Caller = {c1, c2}
    Calls = {"start", "issue", "stop"}
    Request <- ProducerRequest
    Interruptible = {c2}
    Starved = {c1}
    MaxRequests = 1
SPECIFICATION UserSpec
INVARIANT RacesNeedSignal
PROPERTIES AnswersTrue SchedulerReturns CallsReturn StopsInTheEnd
