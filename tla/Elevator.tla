------------------------------ MODULE Elevator ------------------------------
(***************************************************************************)
(* The elevator kernel module (part3/elevator.c) from the moment           *)
(* elevator_init has returned: the scheduler kthread, the three system     *)
(* calls that user processes run at the same time, and the mutex and the   *)
(* unprotected flags they share.                                           *)
(*                                                                         *)
(* A step is one access to shared state outside the mutex, one acquisition *)
(* or release of the mutex, or one iteration of a list traversal that runs *)
(* under it.  What issue_request does once it has read deactiving, and the *)
(* body of stop_elevator under the mutex, are one step each: of what they  *)
(* touch only num_waiting and list_empty(onboard) are read without the     *)
(* mutex, and these change once per body.  ssleep() is the gap between two *)
(* scheduler steps.                                                        *)
(*                                                                         *)
(* A definition whose name ends in Mutant is the next definition with one  *)
(* plausible mistake in it; no specification uses it.  It shows that a     *)
(* property would notice the mistake.                                      *)
(***************************************************************************)
EXTENDS Integers, Sequences, FiniteSets, SequencesExt

CONSTANTS
    FLOORS,         \* number of floors (10 in the code)
    CAPACITY,       \* most passengers aboard at a time (10 in the code)
    Scheduler,      \* the kthread that runs scheduler()
    Caller,         \* the user processes that make system calls
    NoOwner,        \* the owner of a free mutex
    Calls,          \* the system calls the processes make
    Request,        \* the arguments issue_request is called with
    Interruptible,  \* the processes that a signal may interrupt
    Starved,        \* the processes whose kmalloc may fail
    MaxRequests     \* bound on the number of passengers ever created

HUMAN == 0
ZOMBIE == 1

Floor == 1 .. FLOORS

ASSUME FloorsAssumption == FLOORS \in Nat /\ FLOORS >= 2
ASSUME CapacityAssumption == CAPACITY \in Nat \ {0}
ASSUME ThreadAssumption == /\ Scheduler \notin Caller
                           /\ NoOwner \notin Caller \union {Scheduler}
                           /\ Interruptible \subseteq Caller
                           /\ Starved \subseteq Caller
ASSUME CallsAssumption == Calls \subseteq {"start", "issue", "stop"}
ASSUME RequestAssumption ==
    Request \subseteq [start_floor : Int, destination_floor : Int, type : Int]
ASSUME BoundAssumption == MaxRequests \in Nat

Thread == Caller \union {Scheduler}

VARIABLES
    pc,               \* where each thread is
    mutex,            \* owner of thread1.mutex
    raced,            \* 1 once two threads were inside the mutex together
    state,            \* elevator.state
    current_floor,    \* elevator.current_floor
    next_floor,       \* elevator.next_floor
    loads,            \* elevator.loads
    deactiving,       \* elevator.deactiving
    started,          \* elevator.started
    status,           \* elevator.status: 1 when infected
    onboard,          \* elevator.onboard
    waiting_list,     \* waiting_list[floor - 1], by floor
    waiting_on_floor, \* waiting_on_floor[floor - 1], by floor
    num_waiting,      \* num_waiting
    serviced,         \* serviced
    temp,             \* the scheduler's cursor in the list it traverses
    transfer,         \* the scheduler's unload_sleep || load_sleep
    delete_list,      \* each thread's local delete_list
    args,             \* each process's issue_request arguments
    heap,             \* the passengers kmalloc'ed and not yet kfree'd
    allocs            \* how many passengers were kmalloc'ed so far

lockVars   == <<mutex, raced>>
cabVars    == <<state, current_floor, next_floor>>
flagVars   == <<started, deactiving>>
riderVars  == <<loads, status, onboard, serviced>>
queueVars  == <<waiting_list, waiting_on_floor, num_waiting>>
localVars  == <<temp, transfer>>
heapVars   == <<heap, allocs>>
dataVars   == <<cabVars, flagVars, riderVars, queueVars, localVars, delete_list,
                args, heapVars>>
vars       == <<pc, lockVars, dataVars>>

(* A passenger structure.  The id stands for its address.                  *)
Passenger == [id : Nat, type : {HUMAN, ZOMBIE},
              start_floor : Floor, destination_floor : Floor]

NoArgs == [start_floor |-> 0, destination_floor |-> 0, type |-> 0]

SchedulerLabel == {"top", "top_onboard", "top_started", "unload_lock", "unload",
                   "unload_done", "load_lock", "load", "load_done", "decide",
                   "move", "deact", "offline"}
CallerLabel == {"idle", "start_set", "start_clear",
                "issue_lock", "issue", "issue_add", "issue_unlock", "dead",
                "stop_check", "stop_deact", "stop_started",
                "stop_lock", "stop", "stop_unlock", "stop_free"}

TypeOK ==
    /\ pc \in [Thread -> SchedulerLabel \union CallerLabel]
    /\ pc[Scheduler] \in SchedulerLabel
    /\ \A c \in Caller : pc[c] \in CallerLabel
    /\ mutex \in Thread \union {NoOwner}
    /\ raced \in {0, 1}
    /\ state \in {"OFFLINE", "IDLE", "LOADING", "UP", "DOWN"}
    /\ current_floor \in Floor
    /\ next_floor \in Floor
    /\ loads \in 0 .. CAPACITY
    /\ deactiving \in {0, 1}
    /\ started \in {0, 1}
    /\ status \in {0, 1}
    /\ onboard \in Seq(Passenger)
    /\ waiting_list \in [Floor -> Seq(Passenger)]
    /\ waiting_on_floor \in [Floor -> Nat]
    /\ num_waiting \in Nat
    /\ serviced \in Nat
    /\ temp \in Nat
    /\ transfer \in {0, 1}
    /\ delete_list \in [Thread -> Seq(Passenger)]
    /\ args \in [Caller -> Request \union {NoArgs}]
    /\ heap \subseteq Passenger
    /\ allocs \in Nat

(***************************************************************************)
(* setup_elevator and thread_init_parameter: the scheduler is about to     *)
(* enter its loop, nobody has made a system call.                          *)
(***************************************************************************)
Init ==
    /\ pc = [t \in Thread |-> IF t = Scheduler THEN "top" ELSE "idle"]
    /\ mutex = NoOwner
    /\ raced = 0
    /\ state = "OFFLINE"
    /\ current_floor = 1
    /\ next_floor = 2
    /\ loads = 0
    /\ deactiving = 0
    /\ started = 0
    /\ status = 0
    /\ onboard = <<>>
    /\ waiting_list = [f \in Floor |-> <<>>]
    /\ waiting_on_floor = [f \in Floor |-> 0]
    /\ num_waiting = 0
    /\ serviced = 0
    /\ temp = 0
    /\ transfer = 0
    /\ delete_list = [t \in Thread |-> <<>>]
    /\ args = [c \in Caller |-> NoArgs]
    /\ heap = {}
    /\ allocs = 0

Goto(t, from, to) ==
    /\ pc[t] = from
    /\ pc' = [pc EXCEPT ![t] = to]

-----------------------------------------------------------------------------
(***************************************************************************)
(* The mutex.  mutex_lock_interruptible waits while somebody owns the      *)
(* mutex; a waiting process with a pending signal gets -EINTR.  Kernel     *)
(* threads get no signals.  The kernel's mutex_unlock releases the mutex   *)
(* whoever owns it.  The lists are not defined once two threads work on    *)
(* them together: raced records that, and no step follows.                 *)
(***************************************************************************)
InCS(t) == pc[t] \in {"unload", "load", "issue", "issue_add", "stop"}

Lock(t, from, to) ==
    /\ Goto(t, from, to)
    /\ mutex = NoOwner
    /\ mutex' = t
    /\ raced' = IF \E u \in Thread \ {t} : InCS(u) THEN 1 ELSE raced

Interrupted(t, from, to) ==
    /\ t \in Interruptible
    /\ mutex # NoOwner
    /\ Goto(t, from, to)

Unlock(t, from, to) ==
    /\ Goto(t, from, to)
    /\ mutex' = NoOwner
    /\ UNCHANGED raced

(* The list keeps the entries that were freed.                             *)
FreeDeleteListMutant(t) ==
    /\ heap' = heap \ ToSet(delete_list[t])
    /\ UNCHANGED <<delete_list, allocs>>

(* kfree of every passenger on the thread's delete_list.                   *)
FreeDeleteList(t) ==
    /\ heap' = heap \ ToSet(delete_list[t])
    /\ delete_list' = [delete_list EXCEPT ![t] = <<>>]
    /\ UNCHANGED allocs

-----------------------------------------------------------------------------
(***************************************************************************)
(* scheduler()                                                             *)
(***************************************************************************)

(* num_waiting != 0, the first half of the loop's test.                    *)
CheckWaiting ==
    /\ Goto(Scheduler, "top", IF num_waiting # 0 THEN "unload_lock" ELSE "top_onboard")
    /\ UNCHANGED <<lockVars, dataVars>>

(* The second half is missing.                                             *)
CheckOnboardMutant ==
    /\ Goto(Scheduler, "top_onboard", "top_started")
    /\ UNCHANGED <<lockVars, dataVars>>

(* !list_empty(&elevator.onboard), the second half.                        *)
CheckOnboard ==
    /\ Goto(Scheduler, "top_onboard", IF onboard # <<>> THEN "unload_lock" ELSE "top_started")
    /\ UNCHANGED <<lockVars, dataVars>>

(* The elevator does not see that it was stopped.                          *)
CheckStartedMutant ==
    /\ Goto(Scheduler, "top_started", "top")
    /\ state' = "IDLE"
    /\ UNCHANGED <<lockVars, current_floor, next_floor, flagVars, riderVars, queueVars,
                   localVars, delete_list, args, heapVars>>

(* Nothing to do: IDLE or OFFLINE, then sleep.                             *)
CheckStarted ==
    /\ Goto(Scheduler, "top_started", "top")
    /\ state' = IF started = 1 THEN "IDLE" ELSE "OFFLINE"
    /\ UNCHANGED <<lockVars, current_floor, next_floor, flagVars, riderVars, queueVars,
                   localVars, delete_list, args, heapVars>>

(* unloadPassengers: take the mutex, start at the head of onboard.         *)
UnloadLock ==
    /\ Lock(Scheduler, "unload_lock", "unload")
    /\ temp' = 1
    /\ transfer' = 0
    /\ UNCHANGED <<cabVars, flagVars, riderVars, queueVars, delete_list, args, heapVars>>

(* The mutant compares with the floor the elevator goes to next.           *)
ArrivedMutant(p) == p.destination_floor = next_floor
Arrived(p) == p.destination_floor = current_floor

(* loads is not decremented.                                               *)
UnloadPassengerMutant ==
    /\ pc[Scheduler] = "unload"
    /\ temp <= Len(onboard)
    /\ IF Arrived(onboard[temp])
       THEN /\ onboard' = RemoveAt(onboard, temp)
            /\ delete_list' = [delete_list EXCEPT ![Scheduler] = Append(@, onboard[temp])]
            /\ serviced' = serviced + 1
            /\ transfer' = 1
            /\ UNCHANGED <<temp, loads>>
       ELSE /\ temp' = temp + 1
            /\ UNCHANGED <<onboard, delete_list, loads, serviced, transfer>>
    /\ UNCHANGED <<pc, lockVars, cabVars, flagVars, status, queueVars, args, heapVars>>

(* One iteration over onboard: a passenger whose floor this is gets off.   *)
UnloadPassenger ==
    /\ pc[Scheduler] = "unload"
    /\ temp <= Len(onboard)
    /\ IF Arrived(onboard[temp])
       THEN /\ onboard' = RemoveAt(onboard, temp)
            /\ delete_list' = [delete_list EXCEPT ![Scheduler] = Append(@, onboard[temp])]
            /\ loads' = loads - 1
            /\ serviced' = serviced + 1
            /\ transfer' = 1
            /\ UNCHANGED temp
       ELSE /\ temp' = temp + 1
            /\ UNCHANGED <<onboard, delete_list, loads, serviced, transfer>>
    /\ UNCHANGED <<pc, lockVars, cabVars, flagVars, status, queueVars, args, heapVars>>

(* The mutex stays locked.                                                 *)
UnloadUnlockMutant ==
    /\ temp > Len(onboard)
    /\ Goto(Scheduler, "unload", "unload_done")
    /\ temp' = 0
    /\ UNCHANGED <<lockVars, cabVars, flagVars, riderVars, queueVars, transfer, delete_list,
                   args, heapVars>>

UnloadUnlock ==
    /\ temp > Len(onboard)
    /\ Unlock(Scheduler, "unload", "unload_done")
    /\ temp' = 0
    /\ UNCHANGED <<cabVars, flagVars, riderVars, queueVars, transfer, delete_list, args,
                   heapVars>>

(* An elevator that is empty is uninfected again.                          *)
InfectionMutant == status
Infection == IF loads = 0 THEN 0 ELSE status

(* The end of unloadPassengers frees who got off and resets the infection; *)
(* scheduler() then skips loading when the elevator is full.               *)
UnloadFinish ==
    /\ Goto(Scheduler, "unload_done", IF loads < CAPACITY THEN "load_lock" ELSE "load_done")
    /\ FreeDeleteList(Scheduler)
    /\ status' = Infection
    /\ UNCHANGED <<lockVars, cabVars, flagVars, loads, onboard, serviced, queueVars,
                   localVars, args>>

(* loadPassengers: take the mutex, start at the head of this floor's list. *)
LoadLock ==
    /\ Lock(Scheduler, "load_lock", "load")
    /\ temp' = 1
    /\ UNCHANGED <<cabVars, flagVars, riderVars, queueVars, transfer, delete_list, args,
                   heapVars>>

HasRoomMutant == loads <= CAPACITY
HasRoom == loads + 1 <= CAPACITY

(* Humans board an infected elevator.                                      *)
BoardsMutant(p) == p.start_floor = current_floor /\ HasRoom

(* A zombie always boards; a human boards an uninfected elevator.          *)
Boards(p) ==
    /\ p.start_floor = current_floor
    /\ HasRoom
    /\ p.type = ZOMBIE \/ (p.type = HUMAN /\ status = 0)

(* One iteration over waiting_list[floor - 1]: board or be passed over.    *)
LoadPassenger ==
    /\ pc[Scheduler] = "load"
    /\ temp <= Len(waiting_list[current_floor])
    /\ LET p == waiting_list[current_floor][temp]
       IN  IF Boards(p)
           THEN /\ waiting_list' = [waiting_list EXCEPT ![current_floor] = RemoveAt(@, temp)]
                /\ onboard' = Append(onboard, p)
                /\ status' = IF p.type = ZOMBIE THEN 1 ELSE status
                /\ loads' = loads + 1
                /\ waiting_on_floor' = [waiting_on_floor EXCEPT ![p.start_floor] = @ - 1]
                /\ num_waiting' = num_waiting - 1
                /\ transfer' = 1
                /\ UNCHANGED temp
           ELSE /\ temp' = temp + 1
                /\ UNCHANGED <<waiting_list, onboard, status, loads, waiting_on_floor,
                               num_waiting, transfer>>
    /\ UNCHANGED <<pc, lockVars, cabVars, flagVars, serviced, delete_list, args, heapVars>>

LoadUnlock ==
    /\ temp > Len(waiting_list[current_floor])
    /\ Unlock(Scheduler, "load", "load_done")
    /\ temp' = 0
    /\ UNCHANGED <<cabVars, flagVars, riderVars, queueVars, transfer, delete_list, args,
                   heapVars>>

(* LOADING, and the sleep, only when somebody got on or off.               *)
LoadingSleep ==
    /\ Goto(Scheduler, "load_done", "decide")
    /\ state' = IF transfer = 1 THEN "LOADING" ELSE state
    /\ transfer' = 0
    /\ UNCHANGED <<lockVars, current_floor, next_floor, flagVars, riderVars, queueVars,
                   temp, delete_list, args, heapVars>>

changeElevatorState == IF next_floor > current_floor THEN "UP" ELSE "DOWN"

(* Set the direction and sleep while anybody is aboard or waiting.         *)
DecideMove ==
    /\ IF loads # 0 \/ num_waiting # 0
       THEN Goto(Scheduler, "decide", "move") /\ state' = changeElevatorState
       ELSE Goto(Scheduler, "decide", "deact") /\ UNCHANGED state
    /\ UNCHANGED <<lockVars, current_floor, next_floor, flagVars, riderVars, queueVars,
                   localVars, delete_list, args, heapVars>>

(* The floor after f when the elevator moves up to it, or down to it.      *)
AfterUpMutant(f) == f + 1
AfterUp(f) == IF f = FLOORS THEN f - 1 ELSE f + 1
AfterDownMutant(f) == f + 1
AfterDown(f) == IF f = 1 THEN f + 1 ELSE f - 1

moveElevator ==
    /\ Goto(Scheduler, "move", "top")
    /\ \/ /\ state = "UP"
          /\ current_floor' = current_floor + 1
          /\ next_floor' = AfterUp(current_floor + 1)
       \/ /\ state = "DOWN"
          /\ current_floor' = current_floor - 1
          /\ next_floor' = AfterDown(current_floor - 1)
    /\ UNCHANGED <<lockVars, state, flagVars, riderVars, queueVars, localVars,
                   delete_list, args, heapVars>>

CheckDeactiving ==
    /\ Goto(Scheduler, "deact", IF deactiving = 1 THEN "offline" ELSE "top")
    /\ UNCHANGED <<lockVars, dataVars>>

GoOffline ==
    /\ Goto(Scheduler, "offline", "top")
    /\ state' = "OFFLINE"
    /\ deactiving' = 0
    /\ UNCHANGED <<lockVars, current_floor, next_floor, started, riderVars, queueVars,
                   localVars, delete_list, args, heapVars>>

-----------------------------------------------------------------------------
(***************************************************************************)
(* start_elevator.  A call that finds the elevator started returns 1 and   *)
(* changes nothing.                                                        *)
(***************************************************************************)
StartElevator(c) ==
    /\ "start" \in Calls
    /\ started = 0
    /\ Goto(c, "idle", "start_set")
    /\ UNCHANGED <<lockVars, dataVars>>

StartSet(c) ==
    /\ Goto(c, "start_set", "start_clear")
    /\ started' = 1
    /\ UNCHANGED <<lockVars, cabVars, deactiving, riderVars, queueVars, localVars,
                   delete_list, args, heapVars>>

(* deactiving is not reset.                                                *)
StartClearMutant(c) ==
    /\ Goto(c, "start_clear", "idle")
    /\ UNCHANGED <<lockVars, dataVars>>

StartClear(c) ==
    /\ Goto(c, "start_clear", "idle")
    /\ deactiving' = 0
    /\ UNCHANGED <<lockVars, cabVars, started, riderVars, queueVars, localVars,
                   delete_list, args, heapVars>>

(***************************************************************************)
(* issue_request.  Refused calls return 1 and change nothing.              *)
(***************************************************************************)
ValidRequest(r) ==
    /\ ~(r.type < 0 \/ r.type > 1)
    /\ ~(r.start_floor < 1 \/ r.start_floor > FLOORS)
    /\ ~(r.destination_floor < 1 \/ r.destination_floor > FLOORS)

(* The bound on passengers counts the requests that are under way.         *)
WithinBound ==
    allocs + Cardinality({c \in Caller : pc[c] \in {"issue_lock", "issue", "issue_add"}})
        < MaxRequests

IssueRequest(c, r) ==
    /\ "issue" \in Calls
    /\ WithinBound
    /\ started = 1
    /\ ValidRequest(r)
    /\ Goto(c, "idle", "issue_lock")
    /\ args' = [args EXCEPT ![c] = r]
    /\ UNCHANGED <<lockVars, cabVars, flagVars, riderVars, queueVars, localVars,
                   delete_list, heapVars>>

IssueLock(c) ==
    /\ Lock(c, "issue_lock", "issue")
    /\ UNCHANGED dataVars

(* list_add_tail.  The first mutant is list_add, the second has the two    *)
(* arguments swapped.                                                      *)
AddTailMutant(list, p) == <<p>> \o list
AddTailSwappedMutant(list, p) == list
AddTail(list, p) == Append(list, p)

(* !elevator.deactiving, which stop_elevator and the scheduler write       *)
(* without the mutex.                                                      *)
IssueCheck(c) ==
    /\ Goto(c, "issue", IF deactiving = 1 THEN "issue_unlock" ELSE "issue_add")
    /\ UNCHANGED <<lockVars, dataVars>>

(* kmalloc a passenger and append it to its floor.                         *)
IssueAdd(c) ==
    /\ Goto(c, "issue_add", "issue_unlock")
    /\ LET f == args[c].start_floor
           p == [id |-> allocs + 1, type |-> args[c].type, start_floor |-> f,
                 destination_floor |-> args[c].destination_floor]
       IN  /\ waiting_list' = [waiting_list EXCEPT ![f] = AddTail(@, p)]
           /\ waiting_on_floor' = [waiting_on_floor EXCEPT ![f] = @ + 1]
           /\ num_waiting' = num_waiting + 1
           /\ heap' = heap \union {p}
           /\ allocs' = allocs + 1
    /\ UNCHANGED <<lockVars, cabVars, flagVars, riderVars, localVars, delete_list, args>>

(* kmalloc returns NULL, which is not tested: the kernel kills the process *)
(* where it is, and the mutex stays locked.                                *)
IssueOops(c) ==
    /\ c \in Starved
    /\ Goto(c, "issue_add", "dead")
    /\ UNCHANGED <<lockVars, dataVars>>

IssueInterrupted(c) ==
    /\ Interrupted(c, "issue_lock", "issue_unlock")
    /\ UNCHANGED <<lockVars, dataVars>>

(* The mutex stays locked.                                                 *)
IssueUnlockMutant(c) ==
    /\ Goto(c, "issue_unlock", "idle")
    /\ args' = [args EXCEPT ![c] = NoArgs]
    /\ UNCHANGED <<lockVars, cabVars, flagVars, riderVars, queueVars, localVars, delete_list,
                   heapVars>>

(* Also reached, without the mutex, from an interrupted attempt to lock.   *)
IssueUnlock(c) ==
    /\ Unlock(c, "issue_unlock", "idle")
    /\ args' = [args EXCEPT ![c] = NoArgs]
    /\ UNCHANGED <<cabVars, flagVars, riderVars, queueVars, localVars, delete_list,
                   heapVars>>

(***************************************************************************)
(* stop_elevator.  A call that finds the elevator stopped or deactivating  *)
(* returns 1 and changes nothing.                                          *)
(***************************************************************************)
StopElevator(c) ==
    /\ "stop" \in Calls
    /\ started = 1
    /\ Goto(c, "idle", "stop_check")
    /\ UNCHANGED <<lockVars, dataVars>>

StopCheck(c) ==
    /\ Goto(c, "stop_check", IF deactiving = 1 THEN "idle" ELSE "stop_deact")
    /\ UNCHANGED <<lockVars, dataVars>>

StopDeact(c) ==
    /\ Goto(c, "stop_deact", "stop_started")
    /\ deactiving' = 1
    /\ UNCHANGED <<lockVars, cabVars, started, riderVars, queueVars, localVars,
                   delete_list, args, heapVars>>

StopStarted(c) ==
    /\ Goto(c, "stop_started", "stop_lock")
    /\ started' = 0
    /\ UNCHANGED <<lockVars, cabVars, deactiving, riderVars, queueVars, localVars,
                   delete_list, args, heapVars>>

(* The mutex is not taken.                                                 *)
StopLockMutant(c) ==
    /\ Goto(c, "stop_lock", "stop")
    /\ UNCHANGED <<lockVars, dataVars>>

StopLock(c) ==
    /\ Lock(c, "stop_lock", "stop")
    /\ UNCHANGED dataVars

(* Everybody aboard goes to the delete_list; loads stays as it is.         *)
StopOffload(c) ==
    /\ Goto(c, "stop", "stop_unlock")
    /\ delete_list' = [delete_list EXCEPT ![c] = @ \o onboard]
    /\ onboard' = <<>>
    /\ UNCHANGED <<lockVars, cabVars, flagVars, loads, status, serviced, queueVars,
                   localVars, args, heapVars>>

StopInterrupted(c) ==
    /\ Interrupted(c, "stop_lock", "stop_unlock")
    /\ UNCHANGED <<lockVars, dataVars>>

StopUnlock(c) ==
    /\ Unlock(c, "stop_unlock", "stop_free")
    /\ UNCHANGED dataVars

StopFree(c) ==
    /\ Goto(c, "stop_free", "idle")
    /\ FreeDeleteList(c)
    /\ UNCHANGED <<lockVars, cabVars, flagVars, riderVars, queueVars, localVars, args>>

-----------------------------------------------------------------------------
SchedulerStep ==
    /\ raced = 0
    /\ \/ CheckWaiting \/ CheckOnboard \/ CheckStarted
       \/ UnloadLock \/ UnloadPassenger \/ UnloadUnlock \/ UnloadFinish
       \/ LoadLock \/ LoadPassenger \/ LoadUnlock \/ LoadingSleep
       \/ DecideMove \/ moveElevator \/ CheckDeactiving \/ GoOffline

(* A process makes a system call ...                                       *)
CallerEnters(c) ==
    /\ raced = 0
    /\ \/ StartElevator(c)
       \/ \E r \in Request : IssueRequest(c, r)
       \/ StopElevator(c)

(* ... and carries it out.                                                 *)
CallerStep(c) ==
    /\ raced = 0
    /\ \/ StartSet(c) \/ StartClear(c)
       \/ IssueLock(c) \/ IssueCheck(c) \/ IssueAdd(c) \/ IssueOops(c)
       \/ IssueInterrupted(c) \/ IssueUnlock(c)
       \/ StopCheck(c) \/ StopDeact(c) \/ StopStarted(c) \/ StopLock(c)
       \/ StopOffload(c) \/ StopInterrupted(c) \/ StopUnlock(c) \/ StopFree(c)

(* Two threads inside the mutex: what follows is undefined.                *)
Undefined == raced = 1 /\ UNCHANGED vars

(* A process died with the mutex, and the others may wait for ever.        *)
Died == \E c \in Caller : pc[c] = "dead"
Orphaned == Died /\ UNCHANGED vars

Next ==
    \/ SchedulerStep
    \/ \E c \in Caller : CallerEnters(c) \/ CallerStep(c)
    \/ Undefined
    \/ Orphaned

Spec == Init /\ [][Next]_vars

(***************************************************************************)
(* Threads that can run do run, and sleeps end: weak fairness.  A waiter   *)
(* on a kernel mutex is handed the mutex after it was woken once in vain,  *)
(* so nobody overtakes it for ever: strong fairness of the acquisitions.   *)
(* No process has to make a system call, and no signal has to come.        *)
(***************************************************************************)
Signal(c) == IssueInterrupted(c) \/ StopInterrupted(c)

Fairness ==
    /\ WF_vars(SchedulerStep)
    /\ SF_vars(UnloadLock \/ LoadLock)
    /\ \A c \in Caller : /\ WF_vars(CallerStep(c) /\ ~Signal(c))
                         /\ SF_vars(IssueLock(c) \/ StopLock(c))

FairSpec == Spec /\ Fairness

-----------------------------------------------------------------------------
(***************************************************************************)
(* Safety                                                                  *)
(***************************************************************************)

(* Without interrupted lock attempts, scheduler, issue_request and         *)
(* stop_elevator are never inside thread1.mutex together.                  *)
NoRace == Interruptible = {} => raced = 0

(* No two threads are inside thread1.mutex together, whatever signals the  *)
(* calling processes get.                                                  *)
LockExcludes == raced = 0

(* The elevator never carries more than CAPACITY passengers: loads, which  *)
(* loadPassengers tests, is at most CAPACITY and never below the number of *)
(* passengers really aboard, also after stop_elevator threw some out.      *)
CapacityRespected == Len(onboard) <= loads /\ loads <= CAPACITY

(* Every passenger ever created is counted by exactly one of num_waiting,  *)
(* loads and serviced, and each floor's counter is its list's length.  It  *)
(* holds because loads goes on counting the passengers stop_elevator freed *)
(* (lines 194-210 leave it alone), against the comment "num of passengers  *)
(* onboard" on it: the total adds up, its parts need not say who is where. *)
Accounting ==
    /\ num_waiting + loads + serviced = allocs
    /\ \A f \in Floor : waiting_on_floor[f] = Len(waiting_list[f])

(* num_waiting, which decides whether the elevator runs, is the number of  *)
(* places taken in all the floors' lists.                                  *)
Places(lists) == UNION {{n} \X DOMAIN lists[n] : n \in DOMAIN lists}
WaitingPlaces == Places(waiting_list)
WaitingTotal == num_waiting = Cardinality(WaitingPlaces)

(* The kernel lists that can hold a passenger, each under its name.        *)
CabList == <<"onboard", 0>>
FloorList(f) == <<"waiting", f>>
DeleteList(t) == <<"delete", t>>
ListName == {CabList} \union {FloorList(f) : f \in Floor}
                      \union {DeleteList(t) : t \in Thread}
ListsOf(aboard, waiting, deleted) ==
    [n \in ListName |-> CASE n[1] = "onboard" -> aboard
                          [] n[1] = "waiting" -> waiting[n[2]]
                          [] n[1] = "delete"  -> deleted[n[2]]]
Lists == ListsOf(onboard, waiting_list, delete_list)

(* The lists hold the members of set, and each of them at one place only.  *)
Entry(lists, place) == lists[place[1]][place[2]]
Once(lists, set) ==
    /\ set = {Entry(lists, x) : x \in Places(lists)}
    /\ \A x, y \in Places(lists) : Entry(lists, x) = Entry(lists, y) => x = y

(* A passenger structure is on exactly one list, once, from its kmalloc to *)
(* its kfree, and no list holds a freed one: nothing leaks, nothing is     *)
(* freed twice.                                                            *)
ListedOnce == Once(Lists, heap)

(* A started elevator does not stay deactivating, which would make every   *)
(* issue_request a silent failure and every stop_elevator refused: of the  *)
(* two flags, written without the mutex by all calls, the pair can only be *)
(* seen while a start or a stop is between its two assignments.            *)
AcceptsWhenStarted ==
    started = 1 /\ deactiving = 1 =>
        \E c \in Caller : pc[c] \in {"start_clear", "stop_started"}

(* elevator.loads is the number of passengers on elevator.onboard.         *)
LoadsExact == loads = Len(onboard)

-----------------------------------------------------------------------------
(***************************************************************************)
(* The inductive invariant: the type, the safety properties above and what *)
(* they rest on.                                                           *)
(***************************************************************************)

(* Threads between lock and unlock.                                        *)
Holds(t) == pc[t] \in {"unload", "load", "issue", "issue_add", "issue_unlock", "dead",
                       "stop", "stop_unlock"}

MutexInv ==
    /\ raced = 0 => \A t, u \in Thread : InCS(t) /\ InCS(u) => t = u
    /\ Interruptible = {} =>
         raced = 0 /\ \A t \in Thread : Holds(t) => mutex = t

(* Only checked arguments reach kmalloc.                                   *)
ArgsInv == \A c \in Caller :
    pc[c] \in {"issue_lock", "issue", "issue_add"} =>
        args[c] \in Request /\ ValidRequest(args[c])

(* next_floor adjoins current_floor, and the scheduler moves towards it.   *)
CabInv ==
    /\ next_floor - current_floor \in {1, -1}
    /\ pc[Scheduler] = "move" =>
         \/ state = "UP" /\ next_floor = current_floor + 1
         \/ state = "DOWN" /\ next_floor = current_floor - 1

(* Each waiting list holds its own floor's passengers, in arrival order.   *)
QueueInv == \A f \in Floor : \A i \in DOMAIN waiting_list[f] :
    /\ waiting_list[f][i].start_floor = f
    /\ waiting_list[f][i].id <= allocs
    /\ \A j \in DOMAIN waiting_list[f] :
         i < j => waiting_list[f][i].id < waiting_list[f][j].id

(* An uninfected elevator carries no zombie.                               *)
StatusInv == status = 0 => \A i \in DOMAIN onboard : onboard[i].type # ZOMBIE

(* Whom loadPassengers has passed over could not board, and still cannot.  *)
CursorInv ==
    /\ pc[Scheduler] \in {"unload", "load"} => temp >= 1
    /\ pc[Scheduler] = "load" =>
         \A j \in DOMAIN waiting_list[current_floor] : j < temp =>
            \/ loads = CAPACITY
            \/ waiting_list[current_floor][j].type = HUMAN /\ status = 1

(* The scheduler is about to rest: nobody is aboard.                       *)
RestInv ==
    /\ pc[Scheduler] = "top_started" => onboard = <<>>
    /\ pc[Scheduler] \in {"deact", "offline"} => loads = 0

(* kmalloc has not yet returned the addresses to come.                     *)
HeapInv == \A p \in heap : p.id <= allocs

(* The part of it that makes the lists well formed.  It is inductive by    *)
(* itself, and holds also when the module is loaded again and counts anew. *)
CoreInv ==
    /\ pc \in [Thread -> SchedulerLabel \union CallerLabel]
    /\ pc[Scheduler] \in SchedulerLabel
    /\ \A c \in Caller : pc[c] \in CallerLabel
    /\ current_floor \in Floor
    /\ next_floor \in Floor
    /\ loads \in 0 .. CAPACITY
    /\ onboard \in Seq(Passenger)
    /\ Len(onboard) <= loads
    /\ waiting_list \in [Floor -> Seq(Passenger)]
    /\ delete_list \in [Thread -> Seq(Passenger)]
    /\ args \in [Caller -> Request \union {NoArgs}]
    /\ heap \subseteq Passenger
    /\ allocs \in Nat
    /\ temp \in Nat
    /\ pc[Scheduler] \in {"unload", "load"} => temp >= 1
    /\ ArgsInv
    /\ CabInv
    /\ HeapInv

(* Together they are inductive over every step of the scheduler and of the *)
(* calling processes.                                                      *)
IInv == /\ TypeOK /\ MutexInv /\ ArgsInv /\ CabInv
        /\ CapacityRespected /\ Accounting
        /\ IsFiniteSet(WaitingPlaces) /\ WaitingTotal
        /\ QueueInv /\ StatusInv /\ CursorInv /\ RestInv /\ AcceptsWhenStarted
        /\ HeapInv

-----------------------------------------------------------------------------
(***************************************************************************)
(* Action properties                                                       *)
(***************************************************************************)

Boarding == ToSet(onboard') \ ToSet(onboard)

(* No human boards while a zombie is aboard, although loadPassengers looks *)
(* at elevator.status only, which is set and reset at other times than the *)
(* list changes.                                                           *)
HumansAvoidZombies ==
    [][\A p \in Boarding :
         p.type = HUMAN => \A i \in DOMAIN onboard : onboard[i].type # ZOMBIE]_vars

(* Nobody is overtaken on a floor by a passenger of the same kind whose    *)
(* request came later, however often loadPassengers passes people over.    *)
BoardsInOrder ==
    [][\A f \in Floor : \A i, j \in DOMAIN waiting_list[f] :
         /\ waiting_list[f][i].id < waiting_list[f][j].id
         /\ waiting_list[f][i].type = waiting_list[f][j].type
         => waiting_list[f][j] \notin Boarding]_vars

(* The elevator goes to the floor next_floor announced, which adjoins the  *)
(* one it leaves, and it turns round at the lobby and the top floor only.  *)
SweepsFloors ==
    [][current_floor' # current_floor =>
         /\ current_floor' = next_floor
         /\ current_floor' - current_floor \in {1, -1}
         /\ \/ next_floor' - current_floor' = current_floor' - current_floor
            \/ current_floor' \in {1, FLOORS}]_vars

(* The scheduler shows IDLE or OFFLINE only when nobody is aboard, though  *)
(* it decides on values it read without the mutex some steps before.       *)
RestsWhenEmpty ==
    [][state' \in {"IDLE", "OFFLINE"} /\ state' # state => onboard = <<>>]_vars

(* No request is accepted when the elevator is stopped, no stop_elevator   *)
(* is under way and nobody is starting it.                                 *)
NoAcceptWhenStopped ==
    [][allocs' # allocs => \/ started = 1
                           \/ \E c \in Caller : pc[c] \notin {"idle", "issue_add"}]_vars

-----------------------------------------------------------------------------
(***************************************************************************)
(* Liveness                                                                *)
(***************************************************************************)
Waiting(n) == \E f \in Floor : \E i \in DOMAIN waiting_list[f] : waiting_list[f][i].id = n
InSystem(n) == \E p \in heap : p.id = n

(* No more requests come.                                                  *)
Ceases == <>[][allocs' = allocs]_vars

(* Once no more requests come, every passenger, human or zombie, is taken  *)
(* to the destination in the end: the sweeps visit every floor and an      *)
(* infected elevator empties.  While requests come for ever the code does  *)
(* not promise it: zombies who board in time keep loads above 0 and status *)
(* at 1, and a human on a floor is passed over for ever.                   *)
EveryoneDelivered ==
    Ceases => \A n \in 1 .. MaxRequests : InSystem(n) ~> ~InSystem(n)

(* Every passenger waiting on a floor is picked up in the end.             *)
EveryoneBoards == \A n \in 1 .. MaxRequests : Waiting(n) ~> ~Waiting(n)

(* The scheduler comes back to the top of its loop for ever, where it sees *)
(* kthread_should_stop, whatever system calls run beside it and whatever   *)
(* waits a signal cuts short, unless one of them dies with the mutex or    *)
(* two threads get inside it.                                              *)
Sound == ~Died /\ raced = 0
SchedulerReturns == []Sound => []<>(pc[Scheduler] = "top")

(* Every system call returns, on the same two conditions.                  *)
CallsReturn == []Sound => \A c \in Caller : pc[c] # "idle" ~> pc[c] = "idle"

(* A stopped elevator goes OFFLINE, though people wait and deactiving may  *)
(* be lost, unless it is started again or stop_elevator left a load behind *)
(* with nobody aboard.                                                     *)
StopsInTheEnd ==
    [](LoadsExact /\ Sound) => (started = 0 ~> (state = "OFFLINE" \/ started = 1))

=============================================================================
