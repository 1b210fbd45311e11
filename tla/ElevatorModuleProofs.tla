------------------------ MODULE ElevatorModuleProofs ------------------------
(***************************************************************************)
(* What holds when the module is loaded and unloaded any number of times,  *)
(* for every number of floors and of processes, with and without calls     *)
(* that overlap elevator_init or elevator_exit, failures and signals.      *)
(*                                                                         *)
(* The argument is an induction on LifeInv.  The counters of Elevator's    *)
(* own invariant do not survive a second load, which forgets the           *)
(* passengers counted before; CoreInv, which is about the lists alone,     *)
(* does.                                                                   *)
(***************************************************************************)
EXTENDS ElevatorModule, ElevatorProofs

-----------------------------------------------------------------------------
(***************************************************************************)
(* Lists                                                                   *)
(***************************************************************************)

(* An empty heap means empty lists.                                        *)
LEMMA OnceEmpty ==
    ASSUME NEW N, NEW S, NEW L \in [N -> Seq(S)], Once(L, {}), NEW n \in N
    PROVE  L[n] = <<>>
  <1>1. \A x \in Places(L) : Entry(L, x) \in {}
    BY DEF Once
  <1>2. Places(L) = {}
    BY <1>1
  <1>3. Sizes(L)[n] = 0
    <2>1. Sizes(L)[n] \in Nat /\ \A i \in 1 .. Sizes(L)[n] : <<n, i>> \in Places(L)
      BY PlaceIn DEF PlacesAre
    <2>2. 1 \notin 1 .. Sizes(L)[n]
      BY <1>2, <2>1
    <2>3. QED
      BY <2>1, <2>2
  <1>4. Len(L[n]) = 0 /\ L[n] \in Seq(S)
    BY <1>3, PlaceIn
  <1>5. QED
    BY <1>4, EmptySeq

(* When all lists but one are empty, that one holds whatever is allocated. *)
LEMMA OnceOnly ==
    ASSUME NEW N, NEW S, NEW L \in [N -> Seq(S)], NEW H, Once(L, H), NEW a \in N,
           \A n \in N \ {a} : L[n] = <<>>
    PROVE  H \ ToSet(L[a]) = {}
  <1> SUFFICES ASSUME NEW p \in H
               PROVE  p \in ToSet(L[a])
    OBVIOUS
  <1>1. PICK x \in Places(L) : p = Entry(L, x)
    BY DEF Once
  <1>2. PICK n, i : n \in N /\ i \in 1 .. Sizes(L)[n] /\ x = <<n, i>>
    BY PlaceIn DEF PlacesAre
  <1>3. Sizes(L)[n] = Len(L[n])
    BY <1>2, PlaceIn
  <1>4. p = L[n][i] /\ i \in 1 .. Len(L[n])
    BY <1>1, <1>2, <1>3, EntryAt
  <1>5. n = a
    <2>1. CASE n # a
      <3>1. L[n] = <<>>
        BY <1>2, <2>1
      <3>2. Len(L[n]) = 0
        BY <3>1
      <3>3. QED
        BY <1>4, <3>2
    <2>2. QED
      BY <2>1
  <1>6. L[a] \in Seq(S)
    OBVIOUS
  <1>7. QED
    BY <1>4, <1>5, <1>6 DEF ToSet

(* removeAllPassengers' list is not one of the others.                     *)
LEMMA AllListNames ==
    /\ RemovedList \notin ListName
    /\ RemovedList \in AllListName
    /\ \A n \in ListName : n \in AllListName
    /\ \A n \in AllListName : n = RemovedList \/ n \in ListName
  BY DEF RemovedList, AllListName, ListName, CabList, FloorList, DeleteList

(* Each name stands for its list.                                          *)
LEMMA AllListsAt ==
    ASSUME NEW L, NEW r
    PROVE  /\ AllListsOf(L, r)[RemovedList] = r
           /\ \A n \in ListName : AllListsOf(L, r)[n] = L[n]
  BY AllListNames DEF AllListsOf

(* The lists hold passengers.                                              *)
LEMMA AllListsType ==
    ASSUME NEW S, NEW L \in [ListName -> Seq(S)], NEW r \in Seq(S)
    PROVE  AllListsOf(L, r) \in [AllListName -> Seq(S)]
  <1>1. \A n \in AllListName : AllListsOf(L, r)[n] \in Seq(S)
    BY AllListNames, AllListsAt
  <1>2. QED
    BY <1>1 DEF AllListsOf

(* Every proof below may use the assumptions on the constants, and sees    *)
(* the groups of variables as their members.                               *)
USE FloorsAssumption, CapacityAssumption, ThreadAssumption, RequestAssumption,
    LoaderAssumption, LifeAssumption, CallsAssumption
USE DEF Goto, LoaderGoto, lockVars, cabVars, flagVars, riderVars, queueVars, localVars,
        heapVars, dataVars, removeVars

-----------------------------------------------------------------------------
(***************************************************************************)
(* Steps                                                                   *)
(***************************************************************************)

(* What a step of the composed system is.                                  *)
LEMMA LifeCases ==
    ASSUME [LifeNext]_allVars
    PROVE  \/ /\ ~Broken /\ Observe
              /\ \/ elevator_init \/ elevator_exit
                 \/ SchedulerRuns \/ SchedulerExits
                 \/ \E c \in Caller : \/ NoSys(c) \/ CallStub(c) \/ CallRuns(c)
                                      \/ \E f \in Calls : TestStub(c, f)
           \/ UNCHANGED allVars
  BY DEF LifeNext, LoaderStep, KthreadStep, SyscallStep, SyscallEntry, Step, Stopped

(* A step of elevator_init or elevator_exit.                               *)
LEMMA LoaderCases ==
    ASSUME elevator_init \/ elevator_exit
    PROVE  \/ Insmod
           \/ SetStub("start", "set_start", "set_issue")
           \/ SetStub("issue", "set_issue", "set_stop")
           \/ SetStub("stop", "set_stop", "proc")
           \/ ProcCreate \/ MutexInit \/ KthreadRun
           \/ ClearStub("start", "live", "clear_issue")
           \/ ClearStub("issue", "clear_issue", "clear_stop")
           \/ ClearStub("stop", "clear_stop", "kthread_stop")
           \/ KthreadStop \/ KthreadJoin
           \/ RemoveLock \/ RemoveOnboard \/ RemoveFloor \/ RemoveInterrupted
           \/ RemoveUnlock \/ RemoveFree \/ ProcRemove
  BY DEF elevator_init, elevator_exit

(* Threads move as in Elevator, and none does when the module comes or     *)
(* goes.                                                                   *)
LEMMA ThreadSteps ==
    ASSUME LifeTypeOK, ~Broken
    PROVE  /\ SchedulerRuns => [Next]_vars /\ UNCHANGED lifeVars
           /\ SchedulerExits => UNCHANGED vars
           /\ \A c \in Caller : CallRuns(c) => [Next]_vars /\ UNCHANGED lifeVars
           /\ \A c \in Caller : NoSys(c) => UNCHANGED <<vars, lifeVars>>
           /\ \A c \in Caller : \A f \in Call : TestStub(c, f) => UNCHANGED vars
           /\ \A c \in Caller : CallStub(c) =>
                /\ CallerEnters(c) \/ UNCHANGED vars
                /\ [Next]_vars
                /\ UNCHANGED <<loader, load, stub, kthread, proc_entry, removeVars>>
  <1>1. SchedulerRuns => [Next]_vars /\ UNCHANGED lifeVars
    BY DEF SchedulerRuns, Next
  <1>2. ASSUME NEW c \in Caller, CallRuns(c)
        PROVE  [Next]_vars /\ UNCHANGED lifeVars
    BY <1>2 DEF CallRuns, Next
  <1>3. ASSUME NEW c \in Caller, CallStub(c)
        PROVE  /\ CallerEnters(c) \/ UNCHANGED vars
               /\ UNCHANGED <<loader, load, stub, kthread, proc_entry, removeVars>>
    <2>1. raced = 0
      BY DEF Broken, LifeTypeOK
    <2>2. QED
      BY <1>3, <2>1 DEF CallStub, Enters, Refused, CallerEnters
  <1>4. ASSUME NEW c \in Caller, CallStub(c)
        PROVE  [Next]_vars
    BY <1>3, <1>4 DEF Next
  <1>5. QED
    BY <1>1, <1>2, <1>3, <1>4 DEF SchedulerExits, NoSys, TestStub

(* What loading and unloading does to the elevator itself.                 *)
LEMMA LifeFrame ==
    ASSUME LifeTypeOK, [LifeNext]_allVars
    PROVE  \/ [Next]_vars /\ UNCHANGED removed
           \/ UNCHANGED <<pc, dataVars, removed>>
           \/ Observe /\ (Insmod \/ RemoveOnboard \/ RemoveFloor \/ RemoveFree)
  <1>1. ASSUME elevator_init \/ elevator_exit,
               ~Insmod, ~RemoveOnboard, ~RemoveFloor, ~RemoveFree
        PROVE  UNCHANGED <<pc, dataVars, removed>>
    BY <1>1, LoaderCases DEF SetStub, ProcCreate, MutexInit, KthreadRun, ClearStub,
       KthreadStop, KthreadJoin, RemoveLock, RemoveInterrupted, RemoveUnlock, ProcRemove,
       vars
  <1>2. ASSUME ~Broken, SchedulerRuns \/ SchedulerExits
        PROVE  [Next]_vars /\ UNCHANGED removed
    BY <1>2, ThreadSteps DEF SchedulerExits, lifeVars
  <1>3. ASSUME ~Broken, NEW c \in Caller, NoSys(c) \/ CallStub(c) \/ CallRuns(c)
        PROVE  [Next]_vars /\ UNCHANGED removed
    BY <1>3, ThreadSteps DEF lifeVars
  <1>4. ASSUME NEW c \in Caller, NEW f, TestStub(c, f)
        PROVE  [Next]_vars /\ UNCHANGED removed
    BY <1>4 DEF TestStub
  <1>5. CASE UNCHANGED allVars
    BY <1>5 DEF allVars, lifeVars
  <1>6. QED
    BY <1>1, <1>2, <1>3, <1>4, <1>5, LifeCases

-----------------------------------------------------------------------------
(***************************************************************************)
(* Each conjunct of the invariant is preserved                             *)
(***************************************************************************)

(* The lists stay well formed when the module is loaded anew and when      *)
(* removeAllPassengers empties them.                                       *)
LEMMA LifeCoreStep == LifeInv /\ [LifeNext]_allVars => CoreInv'
  <1> SUFFICES ASSUME LifeInv, [LifeNext]_allVars PROVE CoreInv'
    OBVIOUS
  <1>0. CoreInv /\ LifeTypeOK
    BY DEF LifeInv
  <1>1. CASE [Next]_vars
    BY <1>0, <1>1, CoreStep
  <1>2. CASE UNCHANGED <<pc, dataVars>>
    BY <1>0, <1>2 DEF CoreInv, ArgsInv, CabInv, HeapInv
  <1>3. CASE Insmod
    <2>1. pc[Scheduler] = "top"
      BY <1>3 DEF LifeInv, PhaseInv, Insmod
    <2>2. /\ current_floor' = 1 /\ next_floor' = 2 /\ loads' = 0 /\ onboard' = <<>>
          /\ waiting_list' = [f \in Floor |-> <<>>]
          /\ UNCHANGED <<pc, temp, delete_list, args, heap, allocs>>
      BY <1>3 DEF Insmod, setup_elevator
    <2>3. 1 \in Floor /\ 2 \in Floor
      BY DEF Floor
    <2>4. QED
      BY <1>0, <2>1, <2>2, <2>3 DEF CoreInv, ArgsInv, CabInv, HeapInv
  <1>4. CASE RemoveOnboard
    <2>1. /\ onboard' = <<>>
          /\ UNCHANGED <<pc, cabVars, loads, waiting_list, temp, delete_list, args, heapVars>>
      BY <1>4 DEF RemoveOnboard
    <2>2. QED
      BY <1>0, <2>1 DEF CoreInv, ArgsInv, CabInv, HeapInv
  <1>5. CASE RemoveFloor
    <2>1. /\ waiting_list' = [waiting_list EXCEPT ![cleared + 1] = <<>>]
          /\ UNCHANGED <<pc, cabVars, loads, onboard, temp, delete_list, args, heapVars>>
      BY <1>5 DEF RemoveFloor
    <2>2. waiting_list' \in [Floor -> Seq(Passenger)]
      <3>1. cleared + 1 \in Floor /\ waiting_list \in [Floor -> Seq(Passenger)]
        BY <1>0 DEF CoreInv, LifeTypeOK, Floor
      <3>2. QED
        BY <2>1, <3>1
    <2>3. QED
      BY <1>0, <2>1, <2>2 DEF CoreInv, ArgsInv, CabInv, HeapInv
  <1>6. CASE RemoveFree
    <2>1. /\ heap' \subseteq heap
          /\ UNCHANGED <<pc, cabVars, loads, onboard, waiting_list, temp, delete_list, args,
                         allocs>>
      BY <1>6 DEF RemoveFree
    <2>2. QED
      BY <1>0, <2>1 DEF CoreInv, ArgsInv, CabInv, HeapInv
  <1>7. QED
    BY <1>0, <1>1, <1>2, <1>3, <1>4, <1>5, <1>6, LifeFrame

(* The scheduler and the calls keep the flags and the mutex in range.      *)
LEMMA FlagTypes ==
    ASSUME LifeTypeOK, [Next]_vars
    PROVE  /\ mutex' \in Thread \union {NoOwner, Loader}
           /\ raced' \in {0, 1}
           /\ state' \in {"OFFLINE", "IDLE", "LOADING", "UP", "DOWN"}
           /\ started' \in {0, 1} /\ deactiving' \in {0, 1}
           /\ status' \in {0, 1} /\ transfer' \in {0, 1}
  <1> DEFINE Goal == /\ mutex' \in Thread \union {NoOwner, Loader}
                     /\ raced' \in {0, 1}
                     /\ state' \in {"OFFLINE", "IDLE", "LOADING", "UP", "DOWN"}
                     /\ started' \in {0, 1} /\ deactiving' \in {0, 1}
                     /\ status' \in {0, 1} /\ transfer' \in {0, 1}
  <1> USE DEF LifeTypeOK, Thread
  <1>1. CASE LoadPassenger
    <2>1. CASE Boards(waiting_list[current_floor][temp])
      BY <1>1, <2>1 DEF LoadPassenger
    <2>2. CASE ~Boards(waiting_list[current_floor][temp])
      BY <1>1, <2>2 DEF LoadPassenger
    <2>3. QED
      BY <2>1, <2>2
  <1>2. CASE DecideMove
    BY <1>2 DEF DecideMove, changeElevatorState
  <1>3. ASSUME SchedulerStep, ~LoadPassenger, ~DecideMove
        PROVE  Goal
    BY <1>3 DEF SchedulerStep, Lock, Unlock, CheckWaiting, CheckOnboard, CheckStarted,
       UnloadLock, UnloadPassenger, UnloadUnlock, UnloadFinish, Infection, LoadLock,
       LoadUnlock, LoadingSleep, moveElevator, CheckDeactiving, GoOffline
  <1>4. ASSUME NEW c \in Caller, CallerEnters(c)
        PROVE  Goal
    BY <1>4 DEF CallerEnters, StartElevator, IssueRequest, StopElevator
  <1>5. ASSUME NEW c \in Caller, CallerStep(c)
        PROVE  Goal
    BY <1>5 DEF CallerStep, Lock, Unlock, Interrupted, StartSet,
       StartClear, IssueLock, IssueCheck, IssueAdd, IssueOops, IssueInterrupted, IssueUnlock,
       StopCheck, StopDeact, StopStarted, StopLock, StopOffload, StopInterrupted,
       StopUnlock, StopFree
  <1>6. CASE UNCHANGED vars
    BY <1>6 DEF vars
  <1>7. QED
    BY <1>1, <1>2, <1>3, <1>4, <1>5, <1>6 DEF Next, Undefined, Orphaned

(* A thread that owns the mutex is between its lock and its unlock, which  *)
(* takes the mutex from whoever has it.                                    *)
LEMMA OwnerKept ==
    ASSUME CoreInv, mutex \in Thread => Holds(mutex), [Next]_vars
    PROVE  /\ mutex' \in Thread => Holds(mutex)'
           /\ mutex' = Loader => mutex = Loader
  <1> DEFINE Goal == /\ mutex' \in Thread => Holds(mutex)'
                     /\ mutex' = Loader => mutex = Loader
  <1> USE Positions DEF Thread, Holds
  <1>1. CASE SchedulerStep
    <2>1. CASE UnloadLock \/ LoadLock
      BY <2>1 DEF UnloadLock, LoadLock, Lock
    <2>2. CASE UnloadUnlock \/ LoadUnlock
      BY <2>2 DEF UnloadUnlock, LoadUnlock, Unlock
    <2>3. ASSUME ~UnloadLock, ~LoadLock, ~UnloadUnlock, ~LoadUnlock
          PROVE  Goal
      <3>1. /\ mutex' = mutex
            /\ \A c \in Caller : pc'[c] = pc[c]
            /\ pc[Scheduler] \in {"unload", "load"} => pc'[Scheduler] = pc[Scheduler]
        BY <1>1, <2>3 DEF SchedulerStep, CheckWaiting, CheckOnboard, CheckStarted,
           UnloadPassenger, UnloadFinish, LoadPassenger, LoadingSleep, DecideMove,
           moveElevator, CheckDeactiving, GoOffline
      <3>2. pc[Scheduler] \in SchedulerLabel
        BY DEF CoreInv
      <3>3. QED
        BY <3>1, <3>2 DEF SchedulerLabel
    <2>4. QED
      BY <2>1, <2>2, <2>3
  <1>2. ASSUME NEW c \in Caller, CallerEnters(c)
        PROVE  Goal
    BY <1>2 DEF CallerEnters, StartElevator, IssueRequest, StopElevator
  <1>3. ASSUME NEW c \in Caller, CallerStep(c)
        PROVE  Goal
    BY <1>3 DEF CallerStep, Lock, Unlock, Interrupted, StartSet,
       StartClear, IssueLock, IssueCheck, IssueAdd, IssueOops, IssueInterrupted, IssueUnlock,
       StopCheck, StopDeact, StopStarted, StopLock, StopOffload, StopInterrupted,
       StopUnlock, StopFree
  <1>4. CASE UNCHANGED vars
    BY <1>4 DEF vars
  <1>5. QED
    BY <1>1, <1>2, <1>3, <1>4 DEF Next, Undefined, Orphaned

(* A thread leaves unloadPassengers and stop_elevator with an empty        *)
(* delete_list.                                                            *)
LEMMA DeleteKept ==
    ASSUME CoreInv, DeleteInv, [Next]_vars
    PROVE  DeleteInv'
  <1>0. delete_list \in [Thread -> Seq(Passenger)]
    BY DEF CoreInv
  <1> USE <1>0, Positions DEF Thread, DeleteInv
  <1>1. CASE SchedulerStep
    <2>1. /\ \A c \in Caller : pc'[c] = pc[c]
          /\ \A c \in Caller : delete_list'[c] = delete_list[c]
          /\ delete_list'[Scheduler] # <<>> => pc'[Scheduler] \in {"unload", "unload_done"}
      BY <1>1 DEF SchedulerStep, Lock, Unlock, FreeDeleteList, CheckWaiting,
         CheckOnboard, CheckStarted, UnloadLock, UnloadPassenger, UnloadUnlock,
         UnloadFinish, LoadLock, LoadPassenger, LoadUnlock, LoadingSleep, DecideMove,
         moveElevator, CheckDeactiving, GoOffline
    <2>2. QED
      BY <2>1
  <1>2. ASSUME NEW c \in Caller, CallerEnters(c)
        PROVE  DeleteInv'
    BY <1>2 DEF CallerEnters, StartElevator, IssueRequest, StopElevator
  <1>3. ASSUME NEW c \in Caller, CallerStep(c)
        PROVE  DeleteInv'
    BY <1>3 DEF CallerStep, Lock, Unlock, Interrupted, FreeDeleteList, StartSet,
       StartClear, IssueLock, IssueCheck, IssueAdd, IssueOops, IssueInterrupted, IssueUnlock,
       StopCheck, StopDeact, StopStarted, StopLock, StopOffload, StopInterrupted,
       StopUnlock, StopFree
  <1>4. CASE UNCHANGED vars
    BY <1>4 DEF vars
  <1>5. QED
    BY <1>1, <1>2, <1>3, <1>4 DEF Next, Undefined, Orphaned

(* Loading, unloading and calling keep the types: no load beyond the last, *)
(* a pointer is null or into a load there was, and elevator_init puts the  *)
(* elevator on a floor there is.                                           *)
LEMMA LifeTypeStep == LifeInv /\ [LifeNext]_allVars => LifeTypeOK'
  <1> SUFFICES ASSUME LifeInv, [LifeNext]_allVars PROVE LifeTypeOK'
    OBVIOUS
  <1>0. LifeTypeOK /\ CoreInv /\ CoreInv'
    BY LifeCoreStep DEF LifeInv
  <1> DEFINE Life == /\ loader' \in LoaderLabel /\ load' \in 0 .. MaxLoads
                     /\ stub' \in [Call -> 0 .. MaxLoads]
                     /\ kthread' \in {"none", "running", "should_stop", "exited"}
                     /\ proc_entry' \in {0, 1}
                     /\ target' \in [Caller -> [call : Call \union {"none"},
                                                fn : 0 .. MaxLoads]]
                     /\ crashed' \in {0, 1}
             Removal == removed' \in Seq(Passenger) /\ cleared' \in 0 .. FLOORS - 1
             Cab == /\ mutex' \in Thread \union {NoOwner, Loader}
                    /\ raced' \in {0, 1}
                    /\ state' \in {"OFFLINE", "IDLE", "LOADING", "UP", "DOWN"}
                    /\ started' \in {0, 1} /\ deactiving' \in {0, 1}
                    /\ status' \in {0, 1} /\ transfer' \in {0, 1}
  <1>1. orderly' \in {0, 1}
    BY <1>0, LifeCases DEF LifeTypeOK, Observe, allVars
  <1>2. ASSUME elevator_init
        PROVE  Life /\ Removal /\ Cab
    <2> USE <1>0 DEF LifeTypeOK, LoaderLabel
    <2>1. CASE Insmod
      BY <2>1 DEF Insmod, setup_elevator
    <2>2. ASSUME NEW f \in Call, NEW from, NEW to \in LoaderLabel, SetStub(f, from, to)
          PROVE  Life /\ Removal /\ Cab
      BY <2>2 DEF SetStub, vars
    <2>3. CASE ProcCreate
      BY <2>3 DEF ProcCreate, ModuleFreed, vars
    <2>4. CASE MutexInit
      BY <2>4 DEF MutexInit
    <2>5. CASE KthreadRun
      BY <2>5 DEF KthreadRun, ModuleFreed, vars
    <2>6. QED
      BY <1>2, <2>1, <2>2, <2>3, <2>4, <2>5 DEF elevator_init, Call
  <1>3. ASSUME elevator_exit
        PROVE  Life /\ Removal /\ Cab
    <2> USE <1>0 DEF LifeTypeOK, LoaderLabel
    <2>1. ASSUME NEW f \in Call, NEW from, NEW to \in LoaderLabel, ClearStub(f, from, to)
          PROVE  Life /\ Removal /\ Cab
      BY <2>1 DEF ClearStub, vars
    <2>2. CASE KthreadStop \/ KthreadJoin
      BY <2>2 DEF KthreadStop, KthreadJoin, vars
    <2>3. CASE RemoveLock \/ RemoveInterrupted \/ RemoveUnlock
      <3>1. CASE RemoveLock
        BY <3>1 DEF RemoveLock
      <3>2. CASE RemoveInterrupted
        BY <3>2 DEF RemoveInterrupted, vars
      <3>3. CASE RemoveUnlock
        BY <3>3 DEF RemoveUnlock
      <3>4. QED
        BY <2>3, <3>1, <3>2, <3>3
    <2>4. CASE RemoveOnboard
      <3>1. removed \o onboard \in Seq(Passenger)
        BY ConcatProperties DEF CoreInv
      <3>2. QED
        BY <2>4, <3>1 DEF RemoveOnboard
    <2>5. CASE RemoveFloor
      <3>1. cleared + 1 \in Floor
        BY DEF Floor
      <3>2. removed \o waiting_list[cleared + 1] \in Seq(Passenger)
        BY <3>1, ConcatProperties DEF CoreInv
      <3>3. cleared' \in 0 .. FLOORS - 1
        BY <2>5 DEF RemoveFloor, LastFloor
      <3>4. QED
        BY <2>5, <3>2, <3>3 DEF RemoveFloor
    <2>6. CASE RemoveFree
      BY <2>6 DEF RemoveFree
    <2>7. CASE ProcRemove
      BY <2>7 DEF ProcRemove, ModuleFreed, vars
    <2>8. QED
      BY <1>3, <2>1, <2>2, <2>3, <2>4, <2>5, <2>6, <2>7 DEF elevator_exit, Call
  <1>4. ASSUME ~Broken, SchedulerRuns \/ SchedulerExits
        PROVE  Life /\ Removal /\ Cab
    <2>1. [Next]_vars
      BY <1>0, <1>4, ThreadSteps
    <2>2. Cab
      BY <1>0, <2>1, FlagTypes
    <2>3. Life /\ Removal
      BY <1>0, <1>4 DEF SchedulerRuns, SchedulerExits, lifeVars, LifeTypeOK
    <2>4. QED
      BY <2>2, <2>3
  <1>5. ASSUME ~Broken, NEW c \in Caller,
               NoSys(c) \/ CallStub(c) \/ CallRuns(c) \/ \E f \in Calls : TestStub(c, f)
        PROVE  Life /\ Removal /\ Cab
    <2>1. [Next]_vars
      BY <1>0, <1>5, ThreadSteps DEF TestStub
    <2>2. Cab
      BY <1>0, <2>1, FlagTypes
    <2>3. CASE NoSys(c) \/ CallRuns(c)
      BY <1>0, <2>2, <2>3 DEF NoSys, CallRuns, lifeVars, LifeTypeOK
    <2>4. CASE CallStub(c)
      <3>1. NoTarget \in [call : Call \union {"none"}, fn : 0 .. MaxLoads]
        BY DEF NoTarget
      <3>2. QED
        BY <1>0, <2>2, <2>4, <3>1 DEF CallStub, LifeTypeOK
    <2>5. ASSUME NEW f \in Calls, TestStub(c, f)
          PROVE  Life /\ Removal
      <3>1. f \in Call
        BY DEF Call
      <3>2. QED
        BY <1>0, <2>5, <3>1 DEF TestStub, LifeTypeOK
    <2>6. QED
      BY <1>5, <2>2, <2>3, <2>4, <2>5
  <1>6. ASSUME UNCHANGED allVars
        PROVE  Life /\ Removal /\ Cab
    BY <1>0, <1>6 DEF allVars, lifeVars, vars, LifeTypeOK
  <1> HIDE DEF Life, Removal, Cab
  <1>7. Life /\ Removal /\ Cab
    BY <1>2, <1>3, <1>4, <1>5, <1>6, LifeCases
  <1>8. QED
    BY <1>0, <1>1, <1>7 DEF LifeTypeOK, CoreInv, Life, Removal, Cab

(* kthread_run and kthread_stop bracket the scheduler's life, and the      *)
(* module is freed with nobody inside.                                     *)
LEMMA PhaseStep == LifeInv /\ [LifeNext]_allVars => PhaseInv'
  <1> SUFFICES ASSUME LifeInv, [LifeNext]_allVars PROVE PhaseInv'
    OBVIOUS
  <1>0. LifeTypeOK /\ CoreInv /\ PhaseInv
    BY DEF LifeInv
  <1>1. ASSUME elevator_init
        PROVE  PhaseInv'
    <2> USE <1>0 DEF LifeTypeOK, PhaseInv, LoaderLabel
    <2>1. CASE Insmod
      BY <2>1 DEF Insmod
    <2>2. CASE ProcCreate
      BY <2>2 DEF ProcCreate, ModuleFreed, vars
    <2>3. CASE MutexInit
      BY <2>3 DEF MutexInit
    <2>4. CASE KthreadRun
      BY <2>4 DEF KthreadRun, ModuleFreed, vars
    <2>5. QED
      BY <1>1, <2>1, <2>2, <2>3, <2>4 DEF elevator_init, SetStub, vars
  <1>2. ASSUME elevator_exit
        PROVE  PhaseInv'
    <2> USE <1>0 DEF LifeTypeOK, PhaseInv, LoaderLabel
    <2>1. CASE KthreadStop \/ KthreadJoin
      BY <2>1 DEF KthreadStop, KthreadJoin, vars
    <2>2. CASE RemoveLock \/ RemoveInterrupted \/ RemoveUnlock
      BY <2>2 DEF RemoveLock, RemoveInterrupted, RemoveUnlock, vars
    <2>3. CASE RemoveOnboard \/ RemoveFree
      BY <2>3 DEF RemoveOnboard, RemoveFree
    <2>4. CASE RemoveFloor
      BY <2>4 DEF RemoveFloor
    <2>5. CASE ProcRemove
      BY <2>5 DEF ProcRemove, ModuleFreed, vars
    <2>6. QED
      BY <1>2, <2>1, <2>2, <2>3, <2>4, <2>5 DEF elevator_exit, ClearStub, vars
  <1>3. CASE SchedulerExits
    BY <1>0, <1>3 DEF SchedulerExits, PhaseInv, vars
  <1>4. ASSUME ~Broken, SchedulerRuns
        PROVE  PhaseInv'
    <2>1. kthread \in {"running", "should_stop"} /\ SchedulerStep /\ UNCHANGED lifeVars
      BY <1>4 DEF SchedulerRuns
    <2>2. load # 0 /\ loader # "unloaded"
      BY <1>0, <2>1 DEF PhaseInv, LifeTypeOK, LoaderLabel
    <2>3. QED
      BY <1>0, <2>1, <2>2 DEF PhaseInv, lifeVars
  <1>5. ASSUME ~Broken, NEW c \in Caller, CallRuns(c)
        PROVE  PhaseInv'
    <2>1. CallerStep(c) /\ UNCHANGED lifeVars
      BY <1>5 DEF CallRuns
    <2>2. pc[c] \notin {"idle", "dead"} /\ crashed = 0
      BY <1>0, <2>1, <1>5 DEF Broken, LifeTypeOK, CallerStep, Lock, Unlock, Interrupted,
         StartSet, StartClear, IssueLock, IssueCheck, IssueAdd, IssueOops, IssueInterrupted,
         IssueUnlock, StopCheck, StopDeact, StopStarted, StopLock, StopOffload,
         StopInterrupted, StopUnlock, StopFree
    <2>3. loader # "unloaded" /\ load # 0
      BY <1>0, <2>2 DEF PhaseInv
    <2>4. pc'[Scheduler] = pc[Scheduler]
      BY <1>0, <2>1, CallerFrame
    <2>5. QED
      BY <1>0, <2>1, <2>3, <2>4 DEF PhaseInv, lifeVars
  <1>6. ASSUME ~Broken, NEW c \in Caller, CallStub(c)
        PROVE  PhaseInv'
    <2>1. UNCHANGED <<loader, load, kthread, proc_entry, cleared>>
      BY <1>6 DEF CallStub
    <2>2. CASE UNCHANGED vars
      <3>1. crashed = 0
        BY <1>0, <1>6 DEF Broken, LifeTypeOK
      <3>2. QED
        BY <1>0, <2>1, <2>2, <3>1 DEF PhaseInv, vars
    <2>3. ASSUME CallerEnters(c), ~UNCHANGED vars
          PROVE  PhaseInv'
      <3>1. loader # "unloaded" /\ load # 0
        BY <1>0, <1>6, <2>3 DEF CallStub, PhaseInv
      <3>2. pc'[Scheduler] = pc[Scheduler]
        BY <1>0, <2>3, CallerFrame
      <3>3. QED
        BY <1>0, <2>1, <3>1, <3>2 DEF PhaseInv
    <2>4. QED
      BY <1>0, <1>6, <2>2, <2>3, ThreadSteps
  <1>7. ASSUME NEW c \in Caller, NoSys(c) \/ \E f \in Calls : TestStub(c, f)
        PROVE  PhaseInv'
    BY <1>0, <1>7 DEF NoSys, TestStub, PhaseInv, lifeVars, vars
  <1>8. CASE UNCHANGED allVars
    BY <1>0, <1>8 DEF allVars, lifeVars, vars, PhaseInv
  <1>9. QED
    BY <1>1, <1>2, <1>3, <1>4, <1>5, <1>6, <1>7, <1>8, LifeCases

(* removeAllPassengers too has the mutex only between its lock and its     *)
(* unlock, and an interrupted one did not have it.                         *)
LEMMA OwnerStep == LifeInv /\ [LifeNext]_allVars => OwnerInv'
  <1> SUFFICES ASSUME LifeInv, [LifeNext]_allVars PROVE OwnerInv'
    OBVIOUS
  <1>0. LifeTypeOK /\ CoreInv /\ OwnerInv
    BY DEF LifeInv
  <1>1. ASSUME elevator_init
        PROVE  OwnerInv'
    <2>1. CASE Insmod \/ MutexInit
      BY <2>1 DEF Insmod, MutexInit, OwnerInv, Thread
    <2>2. ASSUME ~Insmod, ~MutexInit
          PROVE  /\ UNCHANGED <<pc, mutex>>
                 /\ loader \notin {"remove", "remove_floors", "remove_unlock"}
      BY <1>1, <2>2 DEF elevator_init, SetStub, ProcCreate, KthreadRun, vars
    <2>3. QED
      BY <1>0, <2>1, <2>2 DEF OwnerInv, Holds
  <1>2. ASSUME elevator_exit
        PROVE  OwnerInv'
    <2>1. CASE RemoveLock
      BY <2>1 DEF RemoveLock, OwnerInv
    <2>2. CASE RemoveUnlock
      BY <2>2 DEF RemoveUnlock, OwnerInv, Thread
    <2>3. CASE RemoveOnboard \/ RemoveFloor
      BY <1>0, <2>3 DEF RemoveOnboard, RemoveFloor, OwnerInv, Holds
    <2>4. ASSUME ~RemoveLock, ~RemoveUnlock, ~RemoveOnboard, ~RemoveFloor
          PROVE  /\ UNCHANGED <<pc, mutex>>
                 /\ loader \notin {"remove", "remove_floors", "remove_unlock"}
      BY <1>2, <2>4 DEF elevator_exit, ClearStub, KthreadStop, KthreadJoin,
         RemoveInterrupted, RemoveFree, ProcRemove, vars
    <2>5. QED
      BY <1>0, <2>1, <2>2, <2>3, <2>4 DEF OwnerInv, Holds
  <1>3. ASSUME [Next]_vars, UNCHANGED loader
        PROVE  OwnerInv'
    BY <1>0, <1>3, OwnerKept DEF OwnerInv
  <1>4. ASSUME ~Broken, SchedulerRuns \/ SchedulerExits
        PROVE  [Next]_vars /\ UNCHANGED loader
    BY <1>0, <1>4, ThreadSteps DEF SchedulerExits, lifeVars
  <1>5. ASSUME ~Broken, NEW c \in Caller,
               NoSys(c) \/ CallStub(c) \/ CallRuns(c) \/ \E f \in Calls : TestStub(c, f)
        PROVE  [Next]_vars /\ UNCHANGED loader
    BY <1>0, <1>5, ThreadSteps DEF TestStub, lifeVars
  <1>6. ASSUME UNCHANGED allVars
        PROVE  [Next]_vars /\ UNCHANGED loader
    BY <1>6 DEF allVars, lifeVars
  <1>7. QED
    BY <1>1, <1>2, <1>3, <1>4, <1>5, <1>6, LifeCases

(* Loading and unloading leaves the threads' delete_lists alone.           *)
LEMMA DeleteStep == LifeInv /\ [LifeNext]_allVars => DeleteInv'
  <1> SUFFICES ASSUME LifeInv, [LifeNext]_allVars PROVE DeleteInv'
    OBVIOUS
  <1>0. LifeTypeOK /\ CoreInv /\ DeleteInv
    BY DEF LifeInv
  <1>1. CASE [Next]_vars
    BY <1>0, <1>1, DeleteKept
  <1>2. CASE UNCHANGED <<pc, delete_list>>
    BY <1>0, <1>2 DEF DeleteInv
  <1>3. QED
    BY <1>0, <1>1, <1>2, LifeFrame DEF Insmod, RemoveOnboard, RemoveFloor, RemoveFree

(* The lists before a load are empty when it matters.                      *)
LEMMA NothingLeft ==
    ASSUME LifeInv, Insmod, Observe, orderly' = 1 \/ load' <= 1
    PROVE  /\ heap = {}
           /\ onboard = <<>>
           /\ \A f \in Floor : waiting_list[f] = <<>>
  <1>1. orderly = 1 \/ load = 0
    BY DEF LifeInv, LifeTypeOK, Observe, Insmod
  <1>2. heap = {}
    BY <1>1 DEF LifeInv, OrderInv, PhaseInv, Insmod
  <1>3. Once(AllLists, {})
    BY <1>1, <1>2 DEF LifeInv, StillListedOnce
  <1>4. AllLists \in [AllListName -> Seq(Passenger)]
    BY ListsType, AllListsType DEF LifeInv, CoreInv, LifeTypeOK, AllLists, Lists
  <1>5. \A n \in ListName : Lists[n] = <<>>
    BY <1>3, <1>4, OnceEmpty, AllListNames, AllListsAt DEF AllLists
  <1>6. QED
    BY <1>2, <1>5, ListNames, ListsAt DEF Lists

(* Whatever is done to the lists, removeAllPassengers included, is a move, *)
(* an addition of a new structure, or a kfree of all of a list.            *)
LEMMA AllListsStep ==
    ASSUME LifeInv, [LifeNext]_allVars, orderly' = 1 \/ load' <= 1
    PROVE  ListOp(AllListName, Passenger, AllLists, AllLists', heap, heap')
  <1> DEFINE L == ListsOf(onboard, waiting_list, delete_list)
             M == ListsOf(onboard', waiting_list', delete_list')
             A == AllListsOf(L, removed)
             B == AllListsOf(M, removed')
  <1>0. /\ AllLists = A /\ AllLists' = B
        /\ Lists = L /\ Lists' = M
    BY DEF AllLists, Lists
  <1>1. /\ L[CabList] = onboard /\ M[CabList] = onboard'
        /\ \A f \in Floor : L[FloorList(f)] = waiting_list[f] /\ M[FloorList(f)] = waiting_list'[f]
        /\ \A t \in Thread : L[DeleteList(t)] = delete_list[t] /\ M[DeleteList(t)] = delete_list'[t]
    BY ListsAt
  <1>2. /\ A[RemovedList] = removed /\ B[RemovedList] = removed'
        /\ \A n \in ListName : A[n] = L[n] /\ B[n] = M[n]
    BY AllListsAt
  <1>3. LifeTypeOK /\ CoreInv /\ waiting_list \in [Floor -> Seq(Passenger)]
    BY DEF LifeInv, CoreInv
  <1> HIDE DEF L, M, A, B
  <1>4. ASSUME \A n \in ListName : M[n] = L[n], UNCHANGED <<removed, heap>>
        PROVE  ListOp(AllListName, Passenger, A, B, heap, heap')
    <2>1. \A n \in AllListName : B[n] = A[n]
      BY <1>2, <1>4, AllListNames
    <2>2. QED
      BY <1>4, <2>1 DEF ListOp
  <1>5. ASSUME [Next]_vars, UNCHANGED removed
        PROVE  ListOp(AllListName, Passenger, A, B, heap, heap')
    <2>1. ListOp(ListName, Passenger, L, M, heap, heap')
      BY <1>0, <1>3, <1>5, ListsStep
    <2>2. \A n \in AllListName \ ListName : B[n] = A[n]
      BY <1>2, <1>5, AllListNames
    <2>3. ListName \subseteq AllListName
      BY AllListNames
    <2>4. QED
      BY <1>2, <2>1, <2>2, <2>3, ListOpWider
  <1>6. ASSUME UNCHANGED <<onboard, waiting_list, delete_list, heap, removed>>
        PROVE  ListOp(AllListName, Passenger, A, B, heap, heap')
    BY <1>4, <1>6 DEF L, M
  <1>7. ASSUME Insmod, Observe
        PROVE  ListOp(AllListName, Passenger, A, B, heap, heap')
    <2>1. onboard = <<>> /\ \A f \in Floor : waiting_list[f] = <<>>
      BY <1>7, NothingLeft
    <2>2. /\ onboard' = <<>> /\ waiting_list' = [f \in Floor |-> <<>>]
          /\ UNCHANGED <<delete_list, heap, removed>>
      BY <1>7 DEF Insmod, setup_elevator
    <2>3. waiting_list' = waiting_list
      BY <1>3, <2>1, <2>2
    <2>4. QED
      BY <1>6, <2>1, <2>2, <2>3
  <1>8. ASSUME RemoveOnboard
        PROVE  ListOp(AllListName, Passenger, A, B, heap, heap')
    <2>1. /\ onboard' = <<>> /\ removed' = removed \o onboard
          /\ UNCHANGED <<waiting_list, delete_list, heap>>
      BY <1>8 DEF RemoveOnboard
    <2>2. \A n \in ListName \ {CabList} : M[n] = L[n]
      BY <1>1, <2>1, ListNames
    <2>3. \A n \in AllListName \ {CabList, RemovedList} : B[n] = A[n]
      BY <1>2, <2>2, AllListNames
    <2>4. B[CabList] = <<>> /\ B[RemovedList] = A[RemovedList] \o A[CabList]
      BY <1>1, <1>2, <2>1, ListNames
    <2>5. MovesAll(AllListName, A, B, CabList, RemovedList)
      BY <2>3, <2>4 DEF MovesAll
    <2>6. QED
      BY <2>1, <2>5, ListNames, AllListNames DEF ListOp
  <1>9. ASSUME RemoveFloor
        PROVE  ListOp(AllListName, Passenger, A, B, heap, heap')
    <2> DEFINE f == cleared + 1
    <2>0. f \in Floor
      BY <1>3 DEF LifeTypeOK, Floor
    <2>1. /\ waiting_list' = [waiting_list EXCEPT ![f] = <<>>]
          /\ removed' = removed \o waiting_list[f]
          /\ UNCHANGED <<onboard, delete_list, heap>>
      BY <1>9 DEF RemoveFloor
    <2> HIDE DEF f
    <2>2. \A n \in ListName \ {FloorList(f)} : M[n] = L[n]
      <3>1. \A g \in Floor : g # f => waiting_list'[g] = waiting_list[g]
        BY <1>3, <2>1
      <3>2. \A g \in Floor : FloorList(g) # FloorList(f) => M[FloorList(g)] = L[FloorList(g)]
        BY <1>1, <3>1
      <3>3. M[CabList] = L[CabList] /\ \A t \in Thread : M[DeleteList(t)] = L[DeleteList(t)]
        BY <1>1, <2>1
      <3>4. QED
        BY <3>2, <3>3, ListNames
    <2>3. \A n \in AllListName \ {FloorList(f), RemovedList} : B[n] = A[n]
      BY <1>2, <2>2, AllListNames
    <2>4. /\ waiting_list'[f] = <<>>
          /\ A[FloorList(f)] = waiting_list[f] /\ B[FloorList(f)] = waiting_list'[f]
      BY <1>1, <1>2, <1>3, <2>0, <2>1, ListNames
    <2>5. B[FloorList(f)] = <<>> /\ B[RemovedList] = A[RemovedList] \o A[FloorList(f)]
      BY <1>2, <2>1, <2>4
    <2>6. MovesAll(AllListName, A, B, FloorList(f), RemovedList)
      BY <2>3, <2>5 DEF MovesAll
    <2>7. FloorList(f) \in AllListName /\ FloorList(f) # RemovedList
      BY <2>0, ListNames, AllListNames
    <2>8. QED
      BY <2>1, <2>6, <2>7, AllListNames DEF ListOp
  <1>10. ASSUME RemoveFree
         PROVE  ListOp(AllListName, Passenger, A, B, heap, heap')
    <2>1. /\ heap' = heap \ ToSet(removed) /\ removed' = <<>>
          /\ UNCHANGED <<onboard, waiting_list, delete_list>>
      BY <1>10 DEF RemoveFree
    <2>2. \A n \in AllListName \ {RemovedList} : B[n] = A[n]
      BY <1>2, <2>1, AllListNames DEF L, M
    <2>3. Frees(AllListName, A, B, heap, heap', RemovedList)
      BY <1>2, <2>1, <2>2 DEF Frees
    <2>4. QED
      BY <2>3, AllListNames DEF ListOp
  <1>11. QED
    BY <1>0, <1>3, <1>5, <1>6, <1>7, <1>8, <1>9, <1>10, LifeFrame

(* No passenger is lost or put on two lists, until a load begins while     *)
(* calls that overlapped the unloading had left some behind.               *)
LEMMA StillListedStep == LifeInv /\ [LifeNext]_allVars => StillListedOnce'
  <1> SUFFICES ASSUME LifeInv, [LifeNext]_allVars, orderly' = 1 \/ load' <= 1
               PROVE  Once(AllLists', heap')
    BY DEF StillListedOnce
  <1>1. orderly = 1 \/ load <= 1
    <2>1. load' \in Nat /\ load \in Nat /\ (load' = load \/ load' = load + 1)
      <3>1. load \in Nat
        BY DEF LifeInv, LifeTypeOK
      <3>2. load' = load \/ load' = load + 1
        BY LifeCases, LoaderCases DEF Insmod, SetStub, ProcCreate, MutexInit, KthreadRun,
           ClearStub, KthreadStop, KthreadJoin, RemoveLock, RemoveOnboard, RemoveFloor,
           RemoveInterrupted, RemoveUnlock, RemoveFree, ProcRemove, SchedulerRuns,
           SchedulerExits, NoSys, CallStub, CallRuns, TestStub, lifeVars, allVars
      <3>3. QED
        BY <3>1, <3>2
    <2>2. orderly' = 1 => orderly = 1
      BY LifeCases DEF Observe, allVars
    <2>3. QED
      BY <2>1, <2>2
  <1>2. Once(AllLists, heap)
    BY <1>1 DEF LifeInv, StillListedOnce
  <1>3. LifeTypeOK /\ CoreInv /\ LifeTypeOK' /\ CoreInv'
    BY LifeTypeStep, LifeCoreStep DEF LifeInv
  <1>4. /\ AllLists \in [AllListName -> Seq(Passenger)]
        /\ AllLists' \in [AllListName -> Seq(Passenger)]
    BY <1>3, ListsType, AllListsType DEF CoreInv, LifeTypeOK, AllLists, Lists
  <1>5. QED
    BY <1>2, <1>4, AllListsStep, OnceStep

(* What follows from all being orderly after a step.                       *)
LEMMA Observed ==
    ASSUME LifeTypeOK, Observe, orderly' = 1
    PROVE  /\ orderly = 1
           /\ loader' \notin {"unloaded", "live"} => Quiet'
           /\ loader \in {"proc", "kthread"} => loader' # "unloaded"
  BY DEF LifeTypeOK, Observe

(* With nobody in a call and scheduler() at rest the mutex is free, and    *)
(* the delete_lists are empty.                                             *)
LEMMA AtRest ==
    ASSUME LifeInv, Quiet, pc[Scheduler] = "top"
    PROVE  /\ mutex \notin Thread
           /\ \A t \in Thread : delete_list[t] = <<>>
  <1>1. \A t \in Thread : pc[t] \in {"idle", "top"}
    BY DEF Quiet, Thread
  <1>2. QED
    BY <1>1 DEF LifeInv, OwnerInv, DeleteInv, Holds

(* elevator_init and elevator_exit keep the pointers, the processes and    *)
(* their own progress in step.                                             *)
LEMMA OrderLoaderStep ==
    ASSUME LifeInv, elevator_init \/ elevator_exit, Observe
    PROVE  OrderInv'
  <1> SUFFICES ASSUME orderly' = 1
               PROVE  OrderInv'
    BY DEF OrderInv
  <1>0. LifeTypeOK /\ CoreInv /\ PhaseInv /\ OwnerInv /\ OrderInv
    BY DEF LifeInv
  <1>1. /\ orderly = 1
        /\ loader' \notin {"unloaded", "live"} => Quiet'
        /\ loader \in {"proc", "kthread"} => loader' # "unloaded"
    BY <1>0, Observed
  <1>2. /\ crashed = 0
        /\ loader # "live" => Quiet
        /\ \A c \in Caller : target[c] # NoTarget => /\ target[c].call \in Call
                                                     /\ target[c].fn = load
    BY <1>0, <1>1 DEF OrderInv
  <1>3. UNCHANGED <<pc, target>>
    BY LoaderCases DEF Insmod, SetStub, ProcCreate, MutexInit, KthreadRun, ClearStub,
       KthreadStop, KthreadJoin, RemoveLock, RemoveOnboard, RemoveFloor,
       RemoveInterrupted, RemoveUnlock, RemoveFree, ProcRemove, vars
  <1>4. Quiet' <=> Quiet
    BY <1>3 DEF Quiet
  <1>5. loader' # "live" => Quiet'
    <2>1. ASSUME loader' = "unloaded"
          PROVE  loader # "live"
      BY <2>1, LoaderCases DEF Insmod, SetStub, ProcCreate, MutexInit, KthreadRun,
         ClearStub, KthreadStop, KthreadJoin, RemoveLock, RemoveOnboard, RemoveFloor,
         RemoveInterrupted, RemoveUnlock, RemoveFree, ProcRemove
    <2>2. QED
      BY <1>1, <1>2, <1>4, <2>1
  <1>6. crashed' = 0
    <2>1. CASE ProcCreate \/ KthreadRun
      BY <1>1, <1>2, <2>1 DEF ProcCreate, KthreadRun, ModuleFreed
    <2>2. CASE ProcRemove
      BY <1>2, <2>2 DEF ProcRemove, ModuleFreed, Quiet
    <2>3. ASSUME ~ProcCreate, ~KthreadRun, ~ProcRemove
          PROVE  UNCHANGED crashed
      BY <2>3, LoaderCases DEF Insmod, SetStub, MutexInit, ClearStub, KthreadStop,
         KthreadJoin, RemoveLock, RemoveOnboard, RemoveFloor, RemoveInterrupted,
         RemoveUnlock, RemoveFree
    <2>4. QED
      BY <1>2, <2>1, <2>2, <2>3
  <1>7. \A c \in Caller : target'[c] # NoTarget => /\ target'[c].call \in Call
                                                   /\ target'[c].fn = load'
    <2>1. CASE Insmod
      <3>1. Quiet
        BY <1>2, <2>1 DEF Insmod
      <3>2. QED
        BY <1>3, <3>1 DEF Quiet
    <2>2. ASSUME ~Insmod
          PROVE  UNCHANGED load
      BY <2>2, LoaderCases DEF SetStub, ProcCreate, MutexInit, KthreadRun, ClearStub,
         KthreadStop, KthreadJoin, RemoveLock, RemoveOnboard, RemoveFloor,
         RemoveInterrupted, RemoveUnlock, RemoveFree, ProcRemove
    <2>3. QED
      BY <1>2, <1>3, <2>1, <2>2
  <1> DEFINE Pointers ==
               /\ stub["start"] = IF loader \in {"set_issue", "set_stop", "proc", "mutex",
                                                 "kthread", "live"} THEN load ELSE 0
               /\ stub["issue"] = IF loader \in {"set_stop", "proc", "mutex", "kthread",
                                                 "live", "clear_issue"} THEN load ELSE 0
               /\ stub["stop"] = IF loader \in {"proc", "mutex", "kthread", "live",
                                                "clear_issue", "clear_stop"} THEN load ELSE 0
             Emptied ==
               /\ loader \in {"remove_floors", "remove_unlock", "remove_free"} =>
                    onboard = <<>>
               /\ loader = "remove_floors" => \A f \in 1 .. cleared : waiting_list[f] = <<>>
               /\ loader \in {"remove_unlock", "remove_free"} =>
                    \A f \in Floor : waiting_list[f] = <<>>
               /\ loader \in {"proc_remove", "unloaded"} => heap = {}
  <1>8. Pointers /\ Emptied
    BY <1>0, <1>1 DEF OrderInv
  <1>9. Pointers'
    <2>1. stub \in [Call -> 0 .. MaxLoads]
      BY <1>0 DEF LifeTypeOK
    <2>2. CASE Insmod
      BY <1>8, <2>2 DEF Insmod
    <2>3. CASE SetStub("start", "set_start", "set_issue")
      BY <1>8, <2>1, <2>3 DEF SetStub, Call
    <2>4. CASE SetStub("issue", "set_issue", "set_stop")
      BY <1>8, <2>1, <2>4 DEF SetStub, Call
    <2>5. CASE SetStub("stop", "set_stop", "proc")
      BY <1>8, <2>1, <2>5 DEF SetStub, Call
    <2>6. CASE ClearStub("start", "live", "clear_issue")
      BY <1>8, <2>1, <2>6 DEF ClearStub, Call
    <2>7. CASE ClearStub("issue", "clear_issue", "clear_stop")
      BY <1>8, <2>1, <2>7 DEF ClearStub, Call
    <2>8. CASE ClearStub("stop", "clear_stop", "kthread_stop")
      BY <1>8, <2>1, <2>8 DEF ClearStub, Call
    <2>9. CASE ProcCreate \/ MutexInit \/ KthreadRun
      BY <1>1, <1>8, <2>9 DEF ProcCreate, MutexInit, KthreadRun, ModuleFreed
    <2>10. CASE KthreadStop \/ KthreadJoin \/ ProcRemove
      BY <1>8, <2>10 DEF KthreadStop, KthreadJoin, ProcRemove, ModuleFreed
    <2>11. CASE \/ RemoveLock \/ RemoveOnboard \/ RemoveFloor \/ RemoveInterrupted
                \/ RemoveUnlock \/ RemoveFree
      BY <1>8, <2>11 DEF RemoveLock, RemoveOnboard, RemoveFloor, RemoveInterrupted,
         RemoveUnlock, RemoveFree
    <2> HIDE DEF Pointers
    <2>12. QED
      BY <2>2, <2>3, <2>4, <2>5, <2>6, <2>7, <2>8, <2>9, <2>10, <2>11, LoaderCases
  <1>10. Emptied'
    <2>1. CASE RemoveOnboard
      <3>1. cleared' = 0 /\ loader' = "remove_floors" /\ onboard' = <<>>
        BY <1>0, <2>1 DEF RemoveOnboard, PhaseInv
      <3>2. QED
        BY <3>1
    <2>2. CASE RemoveFloor
      <3>1. onboard' = <<>> /\ \A f \in 1 .. cleared : waiting_list[f] = <<>>
        BY <1>8, <2>2 DEF RemoveFloor
      <3>2. /\ cleared \in 0 .. FLOORS - 1 /\ waiting_list \in [Floor -> Seq(Passenger)]
            /\ waiting_list' = [waiting_list EXCEPT ![cleared + 1] = <<>>]
        BY <1>0, <2>2 DEF RemoveFloor, LifeTypeOK, CoreInv
      <3>3. \A f \in 1 .. cleared + 1 : f \in Floor /\ waiting_list'[f] = <<>>
        <4> SUFFICES ASSUME NEW f \in 1 .. cleared + 1
                     PROVE  f \in Floor /\ waiting_list'[f] = <<>>
          OBVIOUS
        <4>1. f \in Floor
          BY <3>2 DEF Floor
        <4>2. CASE f = cleared + 1
          BY <3>2, <4>1, <4>2
        <4>3. CASE f # cleared + 1
          <5>1. f \in 1 .. cleared
            BY <3>2, <4>3
          <5>2. QED
            BY <3>1, <3>2, <4>1, <4>3, <5>1
        <4>4. QED
          BY <4>1, <4>2, <4>3
      <3>4. CASE LastFloor
        <4>1. loader' = "remove_unlock" /\ Floor = 1 .. cleared + 1
          BY <2>2, <3>4 DEF RemoveFloor, LastFloor, Floor
        <4>2. QED
          BY <3>1, <3>3, <4>1
      <3>5. CASE ~LastFloor
        <4>1. loader' = "remove_floors" /\ cleared' = cleared + 1
          BY <2>2, <3>5 DEF RemoveFloor
        <4>2. QED
          BY <3>1, <3>3, <4>1
      <3>6. QED
        BY <3>4, <3>5
    <2>3. CASE RemoveInterrupted
      <3>1. Quiet /\ pc[Scheduler] = "top" /\ mutex # NoOwner /\ mutex # Loader
        BY <1>0, <1>2, <2>3 DEF RemoveInterrupted, PhaseInv, OwnerInv
      <3>2. mutex \in Thread
        BY <1>0, <3>1 DEF LifeTypeOK
      <3>3. QED
        BY <3>1, <3>2, AtRest
    <2>4. CASE RemoveUnlock
      BY <1>8, <2>4 DEF RemoveUnlock
    <2>5. CASE RemoveFree
      <3>1. onboard = <<>> /\ \A f \in Floor : waiting_list[f] = <<>>
        BY <1>8, <2>5 DEF RemoveFree
      <3>2. \A t \in Thread : delete_list[t] = <<>>
        BY <1>0, <1>2, <2>5, AtRest DEF RemoveFree, PhaseInv
      <3>3. \A n \in ListName : Lists[n] = <<>>
        BY <3>1, <3>2, ListNames, ListsAt DEF Lists
      <3>4. /\ \A n \in AllListName \ {RemovedList} : AllLists[n] = <<>>
            /\ AllLists[RemovedList] = removed
        BY <3>3, AllListNames, AllListsAt DEF AllLists
      <3>5. AllLists \in [AllListName -> Seq(Passenger)]
        BY <1>0, ListsType, AllListsType DEF CoreInv, LifeTypeOK, AllLists, Lists
      <3>6. Once(AllLists, heap)
        BY <1>1 DEF LifeInv, StillListedOnce
      <3>7. heap \ ToSet(removed) = {}
        BY <3>4, <3>5, <3>6, OnceOnly, AllListNames
      <3>8. heap' = {} /\ loader' = "proc_remove"
        BY <2>5, <3>7 DEF RemoveFree
      <3>9. QED
        BY <3>8
    <2>6. CASE ProcRemove
      BY <1>8, <2>6 DEF ProcRemove, ModuleFreed, vars
    <2>7. ASSUME ~RemoveOnboard, ~RemoveFloor, ~RemoveInterrupted, ~RemoveUnlock,
                 ~RemoveFree, ~ProcRemove
          PROVE  loader' \notin {"remove_floors", "remove_unlock", "remove_free",
                                 "proc_remove", "unloaded"}
      BY <1>1, <2>7, LoaderCases DEF Insmod, SetStub, ProcCreate, MutexInit, KthreadRun,
         ModuleFreed, ClearStub, KthreadStop, KthreadJoin, RemoveLock
    <2>8. ASSUME loader' \notin {"remove_floors", "remove_unlock", "remove_free",
                                 "proc_remove", "unloaded"}
          PROVE  Emptied'
      BY <2>8
    <2> HIDE DEF Emptied
    <2>9. QED
      BY <2>1, <2>2, <2>3, <2>4, <2>5, <2>6, <2>7, <2>8
  <1>11. MutexInv'
    <2>1. MutexInv /\ UNCHANGED <<pc, raced>>
      BY <1>0, <1>1, LoaderCases DEF OrderInv, Insmod, SetStub, ProcCreate, MutexInit,
         KthreadRun, ClearStub, KthreadStop, KthreadJoin, RemoveLock, RemoveOnboard,
         RemoveFloor, RemoveInterrupted, RemoveUnlock, RemoveFree, ProcRemove, vars
    <2>2. CASE UNCHANGED mutex
      BY <2>1, <2>2 DEF MutexInv, InCS, Holds
    <2>3. CASE Insmod \/ MutexInit \/ RemoveLock \/ RemoveUnlock
      <3>1. loader # "live" /\ pc[Scheduler] = "top"
        BY <1>0, <2>3 DEF PhaseInv, Insmod, MutexInit, RemoveLock, RemoveUnlock
      <3>2. \A t \in Thread : pc'[t] \in {"idle", "top"}
        BY <1>2, <2>1, <3>1 DEF Quiet, Thread
      <3>3. QED
        BY <2>1, <3>2 DEF MutexInv, InCS, Holds
    <2>4. ASSUME ~Insmod, ~MutexInit, ~RemoveLock, ~RemoveUnlock
          PROVE  UNCHANGED mutex
      BY <2>4, LoaderCases DEF SetStub, ProcCreate, KthreadRun, ClearStub, KthreadStop,
         KthreadJoin, RemoveOnboard, RemoveFloor, RemoveInterrupted, RemoveFree,
         ProcRemove, vars
    <2>5. QED
      BY <2>2, <2>3, <2>4
  <1>12. QED
    BY <1>5, <1>6, <1>7, <1>9, <1>10, <1>11 DEF OrderInv

(* A process inside a call, or about to make one, makes the module live.   *)
LEMMA BusyIsLive ==
    ASSUME OrderInv, orderly = 1, NEW c \in Caller, pc[c] # "idle" \/ target[c] # NoTarget
    PROVE  loader = "live"
  BY DEF OrderInv, Quiet

(* In a live module every pointer is to its code.                          *)
LEMMA LivePointers ==
    ASSUME OrderInv, orderly = 1, loader = "live", NEW f \in Call
    PROVE  stub[f] = load
  BY DEF OrderInv, Call

(* scheduler() and the calls keep order: a call finds its pointer set only *)
(* when its code is there until it returns.                                *)
LEMMA OrderThreadStep ==
    ASSUME LifeInv, ~Broken, Observe,
           \/ SchedulerRuns \/ SchedulerExits
           \/ \E c \in Caller : \/ NoSys(c) \/ CallStub(c) \/ CallRuns(c)
                                \/ \E f \in Calls : TestStub(c, f)
    PROVE  OrderInv'
  <1> SUFFICES ASSUME orderly' = 1
               PROVE  OrderInv'
    BY DEF OrderInv
  <1>0. LifeTypeOK /\ CoreInv /\ PhaseInv /\ OrderInv
    BY DEF LifeInv
  <1>1. orderly = 1 /\ (loader' \notin {"unloaded", "live"} => Quiet')
    BY <1>0, Observed
  <1>2. MutexInv'
    <2>1. [Next]_vars
      BY <1>0, ThreadSteps DEF TestStub
    <2>2. QED
      BY <1>0, <1>1, <2>1, MutexStep DEF OrderInv
  <1>3. CASE SchedulerRuns
    <2>1. kthread \in {"running", "should_stop"} /\ SchedulerStep /\ UNCHANGED lifeVars
      BY <1>3 DEF SchedulerRuns
    <2>2. loader \notin {"remove_floors", "remove_unlock", "remove_free", "proc_remove",
                         "unloaded"}
      BY <1>0, <2>1 DEF PhaseInv
    <2>3. \A c \in Caller : pc'[c] = pc[c]
      BY <1>0, <2>1, SchedulerFrame
    <2>4. Quiet => Quiet'
      BY <2>1, <2>3 DEF Quiet, lifeVars
    <2>5. QED
      BY <1>0, <1>1, <1>2, <2>1, <2>2, <2>4 DEF OrderInv, lifeVars
  <1>4. CASE SchedulerExits
    BY <1>0, <1>1, <1>2, <1>4 DEF SchedulerExits, OrderInv, Quiet, vars
  <1>5. ASSUME NEW c \in Caller, NoSys(c)
        PROVE  OrderInv'
    BY <1>0, <1>1, <1>2, <1>5 DEF NoSys, OrderInv, Quiet, vars, lifeVars
  <1>6. ASSUME NEW c \in Caller, CallRuns(c)
        PROVE  OrderInv'
    <2>1. CallerStep(c) /\ UNCHANGED lifeVars
      BY <1>6 DEF CallRuns
    <2>2. pc[c] # "idle"
      BY <2>1 DEF CallerStep, Lock, Unlock, Interrupted, StartSet, StartClear, IssueLock, IssueCheck,
         IssueAdd, IssueOops, IssueInterrupted, IssueUnlock, StopCheck, StopDeact,
         StopStarted, StopLock, StopOffload, StopInterrupted, StopUnlock, StopFree
    <2>3. loader = "live"
      BY <1>0, <1>1, <2>2, BusyIsLive
    <2>4. QED
      BY <1>0, <1>1, <1>2, <2>1, <2>3 DEF OrderInv, lifeVars
  <1>7. ASSUME NEW c \in Caller, CallStub(c)
        PROVE  OrderInv'
    <2>1. target[c] # NoTarget /\ target' = [target EXCEPT ![c] = NoTarget]
          /\ UNCHANGED <<loader, load, stub, kthread, proc_entry, removeVars>>
      BY <1>7 DEF CallStub
    <2>2. loader = "live" /\ target[c].call \in Call /\ target[c].fn = load
      BY <1>0, <1>1, <2>1, BusyIsLive DEF OrderInv
    <2>3. stub[target[c].call] = load
      BY <1>0, <1>1, <2>2, LivePointers
    <2>4. crashed' = crashed
      BY <1>7, <2>2, <2>3 DEF CallStub
    <2>5. \A d \in Caller : target'[d] # NoTarget => target'[d] = target[d]
      BY <1>0, <2>1 DEF LifeTypeOK
    <2>6. QED
      BY <1>0, <1>1, <1>2, <2>1, <2>2, <2>4, <2>5 DEF OrderInv
  <1>8. ASSUME NEW c \in Caller, NEW f \in Calls, TestStub(c, f)
        PROVE  OrderInv'
    <2>1. /\ stub[f] # 0 /\ f \in Call
          /\ target' = [target EXCEPT ![c] = [call |-> f, fn |-> stub[f]]]
          /\ UNCHANGED <<vars, loader, load, stub, kthread, proc_entry, removeVars, crashed>>
      BY <1>8 DEF TestStub, Call
    <2>2. target'[c] = [call |-> f, fn |-> stub[f]]
      BY <1>0, <2>1 DEF LifeTypeOK
    <2>3. ~Quiet'
      BY <2>1, <2>2 DEF Quiet, NoTarget
    <2>4. loader # "unloaded"
      BY <1>0, <1>1, <2>1 DEF OrderInv, Call
    <2>5. loader = "live"
      BY <1>1, <2>1, <2>3, <2>4
    <2>6. stub[f] = load
      BY <1>0, <1>1, <2>1, <2>5, LivePointers
    <2>7. \A d \in Caller : target'[d] # NoTarget => target'[d].call \in Call
                                                     /\ target'[d].fn = load'
      <3> SUFFICES ASSUME NEW d \in Caller, target'[d] # NoTarget
                   PROVE  target'[d].call \in Call /\ target'[d].fn = load'
        OBVIOUS
      <3>1. CASE d = c
        BY <2>1, <2>2, <2>6, <3>1
      <3>2. CASE d # c
        BY <1>0, <1>1, <2>1, <3>2 DEF LifeTypeOK, OrderInv
      <3>3. QED
        BY <3>1, <3>2
    <2>8. QED
      BY <1>0, <1>1, <1>2, <2>1, <2>5, <2>7 DEF OrderInv, vars
  <1>9. QED
    BY <1>3, <1>4, <1>5, <1>6, <1>7, <1>8

(* Order is kept by every step.                                            *)
LEMMA OrderStep == LifeInv /\ [LifeNext]_allVars => OrderInv'
  <1> SUFFICES ASSUME LifeInv, [LifeNext]_allVars PROVE OrderInv'
    OBVIOUS
  <1>1. CASE UNCHANGED allVars
    BY <1>1 DEF allVars, lifeVars, vars, LifeInv, OrderInv, Quiet, MutexInv, InCS, Holds
  <1>2. QED
    BY <1>1, LifeCases, OrderLoaderStep, OrderThreadStep

-----------------------------------------------------------------------------
(* Before the module is loaded the invariant holds.                        *)
LEMMA LifeInitInv == LifeInit => LifeInv
  <1> SUFFICES ASSUME LifeInit PROVE LifeInv
    OBVIOUS
  <1>1. Init /\ IInv
    BY InitInv DEF LifeInit
  <1>2. CoreInv
    BY <1>1, CoreFromInv
  <1>3. LifeTypeOK
    <2>1. NoTarget \in [call : Call \union {"none"}, fn : 0 .. MaxLoads]
      BY DEF NoTarget
    <2>2. TypeOK
      BY <1>1 DEF IInv
    <2>3. QED
      BY <2>1, <2>2 DEF LifeInit, LifeTypeOK, LoaderLabel, TypeOK
  <1>4. PhaseInv /\ OwnerInv /\ DeleteInv
    BY <1>1 DEF LifeInit, Init, PhaseInv, OwnerInv, DeleteInv, Thread
  <1>5. OrderInv
    <2>1. Quiet
      BY <1>1 DEF LifeInit, Init, Quiet, Thread
    <2>2. heap = {} /\ crashed = 0 /\ loader = "unloaded"
      BY <1>1 DEF LifeInit, Init
    <2>3. stub["start"] = 0 /\ stub["issue"] = 0 /\ stub["stop"] = 0
      BY DEF LifeInit, Call
    <2>4. MutexInv
      BY <1>1 DEF IInv
    <2>5. QED
      BY <2>1, <2>2, <2>3, <2>4 DEF OrderInv, Quiet
  <1>6. StillListedOnce
    <2>1. \A n \in ListName : Lists[n] = <<>>
      BY <1>1, ListNames, ListsAt DEF Init, Lists
    <2>2. \A n \in AllListName : AllLists[n] = <<>>
      BY <2>1, AllListNames, AllListsAt DEF LifeInit, AllLists
    <2>3. DOMAIN AllLists = AllListName
      BY DEF AllLists, AllListsOf
    <2>4. Places(AllLists) = {}
      BY <2>2, <2>3 DEF Places
    <2>5. heap = {}
      BY <1>1 DEF Init
    <2>6. QED
      BY <2>4, <2>5 DEF StillListedOnce, Once
  <1>7. QED
    BY <1>2, <1>3, <1>4, <1>5, <1>6 DEF LifeInv

(* The inductive invariant of loading and unloading holds in every state   *)
(* that insmod, rmmod, scheduler() and the calls reach, whether or not     *)
(* calls overlap the loading and steps of it fail.                         *)
THEOREM LifeInvariance == LifeSpec => []LifeInv
  <1>1. LifeInv /\ [LifeNext]_allVars => LifeInv'
    BY LifeTypeStep, LifeCoreStep, PhaseStep, OwnerStep, DeleteStep, OrderStep,
       StillListedStep DEF LifeInv
  <1>2. QED
    BY <1>1, LifeInitInv, PTL DEF LifeSpec

(* The elevator is on a floor there is, the pointers are null or into a    *)
(* load there was, after any number of loads.                              *)
THEOREM LifeTypeCorrect == LifeSpec => []LifeTypeOK
  <1>1. LifeInv => LifeTypeOK
    BY DEF LifeInv
  <1>2. QED
    BY <1>1, LifeInvariance, PTL

(* As long as no call overlaps elevator_init or elevator_exit and          *)
(* elevator_init does not fail, no process calls or returns to code that   *)
(* is gone, however often the module is loaded.                            *)
THEOREM OrderlyCallsReachCodeHolds == LifeSpec => []OrderlyCallsReachCode
  <1>1. LifeInv => OrderlyCallsReachCode
    BY DEF LifeInv, OrderInv, OrderlyCallsReachCode
  <1>2. QED
    BY <1>1, LifeInvariance, PTL

(* Then the mutex excludes, if no lock attempt is interrupted, through all *)
(* loads: mutex_init finds the mutex free, and when removeAllPassengers    *)
(* takes it scheduler() has returned and no process is inside.             *)
THEOREM OrderlyExcludesHolds == LifeSpec => []OrderlyExcludes
  <1>1. LifeInv => OrderlyExcludes
    <2> SUFFICES ASSUME LifeInv, orderly = 1, Interruptible = {}
                 PROVE  raced = 0 /\ ~Collided
      BY DEF OrderlyExcludes
    <2>1. raced = 0
      BY DEF LifeInv, OrderInv, MutexInv
    <2>2. ASSUME loader \in {"remove", "remove_floors"}
          PROVE  \A t \in Thread : pc[t] \in {"idle", "top"}
      BY <2>2 DEF LifeInv, OrderInv, PhaseInv, Quiet, Thread
    <2>3. QED
      BY <2>1, <2>2 DEF Collided, InCS
  <1>2. QED
    BY <1>1, LifeInvariance, PTL

(* Then elevator_exit leaves no passenger, no owner of the mutex, no       *)
(* kthread, no pointer and no /proc entry, wherever the elevator was:      *)
(* scheduler() has returned, so nobody has the mutex when                  *)
(* removeAllPassengers asks for it, and its lists held all there were.     *)
THEOREM LeavesNothingHolds == LifeSpec => []LeavesNothing
  <1>1. LifeInv => LeavesNothing
    <2> SUFFICES ASSUME LifeInv, loader = "unloaded", orderly = 1
                 PROVE  /\ heap = {} /\ mutex = NoOwner /\ kthread = "none"
                        /\ proc_entry = 0 /\ \A f \in Call : stub[f] = 0
      BY DEF LeavesNothing
    <2>1. heap = {} /\ Quiet /\ \A f \in Call : stub[f] = 0
      BY DEF LifeInv, OrderInv, Call
    <2>2. kthread = "none" /\ proc_entry = 0 /\ pc[Scheduler] = "top"
      BY DEF LifeInv, PhaseInv
    <2>3. mutex \notin Thread /\ mutex # Loader
      BY <2>1, <2>2, AtRest DEF LifeInv, OwnerInv
    <2>4. mutex = NoOwner
      BY <2>3 DEF LifeInv, LifeTypeOK
    <2>5. QED
      BY <2>1, <2>2, <2>4
  <1>2. QED
    BY <1>1, LifeInvariance, PTL

(* Also while removeAllPassengers works, a passenger structure is on one   *)
(* list, once, from its kmalloc to its kfree.                              *)
THEOREM StillListedOnceHolds == LifeSpec => []StillListedOnce
  <1>1. LifeInv => StillListedOnce
    BY DEF LifeInv
  <1>2. QED
    BY <1>1, LifeInvariance, PTL

=============================================================================
