\* Two readers open the file, in turn or together, while passengers come,
\* ride and leave.
CONSTANTS
    FLOORS = 2
    CAPACITY = 1
    Scheduler = scheduler
    Caller = {c1}
    NoOwner = nobody
    Calls = {"start", "issue"}
    Request <- HumanRequests
    Interruptible = {}
    Starved = {}
    MaxRequests = 2
    Reader = {r1, r2}
    MaxOpens = 2
SPECIFICATION ProcSpec
INVARIANTS ProcTypeOK MessageFreedOnce TextOnce RowAddsUp ProcInv
SYMMETRY ReadersAlike
