--------------------------- MODULE ElevatorProofs ---------------------------
(***************************************************************************)
(* Elevator's safety properties, for every number of floors, every         *)
(* capacity, every set of processes and every bound on the requests.       *)
(*                                                                         *)
(* The argument is an induction on IInv.  Each conjunct of IInv has a      *)
(* lemma that says a step preserves it; the frame lemmas say which actions *)
(* matter to it, so the proof has a case for each of these and one for     *)
(* all the others together.                                                *)
(***************************************************************************)
EXTENDS ListProofs, FiniteSetTheorems

-----------------------------------------------------------------------------
(***************************************************************************)
(* Requests and places                                                     *)
(***************************************************************************)

(* A request that passes issue_request's checks names two floors and a     *)
(* kind of passenger that exist, so waiting_list[start_floor - 1] does.    *)
LEMMA ValidRequestRange ==
    ASSUME NEW r \in Request, ValidRequest(r)
    PROVE  /\ r.start_floor \in Floor
           /\ r.destination_floor \in Floor
           /\ r.type \in {HUMAN, ZOMBIE}
  <1>1. r.start_floor \in Int /\ r.destination_floor \in Int /\ r.type \in Int
    BY RequestAssumption
  <1>2. r.start_floor \in Floor /\ r.destination_floor \in Floor
    BY <1>1, FloorsAssumption DEF ValidRequest, Floor
  <1>3. r.type = 0 \/ r.type = 1
    BY <1>1 DEF ValidRequest
  <1>4. QED
    BY <1>2, <1>3 DEF HUMAN, ZOMBIE

(* One more entry on one floor's list is one more place taken on all the   *)
(* floors together.                                                        *)
LEMMA PlacesLonger ==
    ASSUME NEW S, NEW short \in [Floor -> Seq(S)], NEW long \in [Floor -> Seq(S)],
           NEW f \in Floor, \A g \in Floor \ {f} : short[g] = long[g],
           Len(long[f]) = Len(short[f]) + 1
    PROVE  /\ IsFiniteSet(Places(long)) => IsFiniteSet(Places(short))
           /\ IsFiniteSet(Places(short)) =>
                /\ IsFiniteSet(Places(long))
                /\ Cardinality(Places(long)) = Cardinality(Places(short)) + 1
  <1> DEFINE new == <<f, Len(long[f])>>
  <1>1. \A g \in Floor : DOMAIN short[g] = 1 .. Len(short[g])
                         /\ DOMAIN long[g] = 1 .. Len(long[g])
    OBVIOUS
  <1>2. ASSUME NEW g, NEW i
        PROVE  /\ <<g, i>> \in Places(short) <=> g \in Floor /\ i \in 1 .. Len(short[g])
               /\ <<g, i>> \in Places(long) <=> g \in Floor /\ i \in 1 .. Len(long[g])
    BY <1>1 DEF Places
  <1>3. \A x \in Places(short) \union Places(long) : \E g, i : x = <<g, i>>
    BY DEF Places
  <1>4. ASSUME NEW g, NEW i
        PROVE  <<g, i>> \in Places(long) <=> <<g, i>> \in Places(short) \/ <<g, i>> = new
    <2>1. CASE g = f
      BY <2>1, <1>2
    <2>2. CASE g # f
      BY <2>2, <1>2
    <2>3. QED
      BY <2>1, <2>2
  <1>5. new \in Places(long) /\ new \notin Places(short)
    <2>1. Len(long[f]) \in 1 .. Len(long[f]) /\ Len(long[f]) \notin 1 .. Len(short[f])
      OBVIOUS
    <2>2. QED
      BY <2>1, <1>2
  <1> HIDE DEF new
  <1>6. ASSUME NEW x
        PROVE  x \in Places(long) <=> x \in Places(short) \/ x = new
    <2>1. CASE \E g, i : x = <<g, i>>
      BY <2>1, <1>4
    <2>2. CASE ~(\E g, i : x = <<g, i>>)
      BY <2>2, <1>3, <1>5
    <2>3. QED
      BY <2>1, <2>2
  <1>7. Places(long) = Places(short) \union {new}
    BY <1>6
  <1>8. Places(short) = Places(long) \ {new}
    BY <1>5, <1>6
  <1>9. IsFiniteSet(Places(short)) =>
          /\ IsFiniteSet(Places(long))
          /\ Cardinality(Places(long)) = Cardinality(Places(short)) + 1
    BY <1>5, <1>7, FS_AddElement
  <1>10. IsFiniteSet(Places(long)) => IsFiniteSet(Places(short))
    BY <1>8, FS_RemoveElement
  <1>11. QED
    BY <1>9, <1>10

(* The names of the lists are different.                                   *)
LEMMA ListNames ==
    /\ CabList \in ListName
    /\ \A f \in Floor : FloorList(f) \in ListName /\ FloorList(f) # CabList
    /\ \A t \in Thread : DeleteList(t) \in ListName /\ DeleteList(t) # CabList
    /\ \A f, g : FloorList(f) = FloorList(g) => f = g
    /\ \A t, u : DeleteList(t) = DeleteList(u) => t = u
    /\ \A f, t : FloorList(f) # DeleteList(t)
    /\ \A n \in ListName : \/ n = CabList
                           \/ \E f \in Floor : n = FloorList(f)
                           \/ \E t \in Thread : n = DeleteList(t)
  BY DEF ListName, CabList, FloorList, DeleteList

(* Each name stands for its list.                                          *)
LEMMA ListsAt ==
    ASSUME NEW o, NEW w, NEW d
    PROVE  /\ ListsOf(o, w, d)[CabList] = o
           /\ \A f \in Floor : ListsOf(o, w, d)[FloorList(f)] = w[f]
           /\ \A t \in Thread : ListsOf(o, w, d)[DeleteList(t)] = d[t]
  BY ListNames DEF ListsOf, CabList, FloorList, DeleteList

(* The kernel's lists hold passengers.                                     *)
LEMMA ListsType ==
    ASSUME NEW S, NEW o \in Seq(S), NEW w \in [Floor -> Seq(S)], NEW d \in [Thread -> Seq(S)]
    PROVE  ListsOf(o, w, d) \in [ListName -> Seq(S)]
  <1>1. \A n \in ListName : ListsOf(o, w, d)[n] \in Seq(S)
    BY ListNames, ListsAt
  <1>2. QED
    BY <1>1 DEF ListsOf

(* Every proof below may use the assumptions on the constants, and sees    *)
(* the groups of variables as their members.                               *)
USE FloorsAssumption, CapacityAssumption, ThreadAssumption, RequestAssumption
USE DEF Goto, lockVars, cabVars, flagVars, riderVars, queueVars, localVars, heapVars,
        dataVars

-----------------------------------------------------------------------------
(***************************************************************************)
(* Each conjunct of the invariant is preserved                             *)
(***************************************************************************)

(* Every step of scheduler() and of the system calls keeps the types: in   *)
(* particular loads stays between 0 and CAPACITY and the elevator between  *)
(* the lobby and the top floor.                                            *)
LEMMA TypeStep == IInv /\ [Next]_vars => TypeOK'
  <1> SUFFICES ASSUME IInv, [Next]_vars PROVE TypeOK'
    OBVIOUS
  <1> USE DEF IInv, TypeOK, Thread, SchedulerLabel, CallerLabel
  <1>1. CASE CheckWaiting
    BY <1>1 DEF CheckWaiting
  <1>2. CASE CheckOnboard
    BY <1>2 DEF CheckOnboard
  <1>3. CASE CheckStarted
    BY <1>3 DEF CheckStarted
  <1>4. CASE UnloadLock
    BY <1>4 DEF UnloadLock, Lock
  <1>5. CASE UnloadPassenger
    <2>1. temp \in 1 .. Len(onboard)
      BY <1>5 DEF UnloadPassenger, CursorInv
    <2>2. /\ onboard[temp] \in Passenger
          /\ RemoveAt(onboard, temp) \in Seq(Passenger)
      BY <2>1, ElementOfSeq, RemoveAtProperties
    <2>3. loads - 1 \in 0 .. CAPACITY
      BY <2>1 DEF CapacityRespected
    <2>4. Append(delete_list[Scheduler], onboard[temp]) \in Seq(Passenger)
      BY <2>2, AppendProperties
    <2>5. CASE onboard[temp].destination_floor = current_floor
      <3>1. delete_list' \in [Thread -> Seq(Passenger)]
        BY <1>5, <2>4, <2>5 DEF UnloadPassenger, Arrived
      <3>2. onboard' \in Seq(Passenger) /\ loads' \in 0 .. CAPACITY
        BY <1>5, <2>2, <2>3, <2>5 DEF UnloadPassenger, Arrived
      <3>3. serviced' \in Nat /\ transfer' \in {0, 1} /\ temp' \in Nat
        BY <1>5, <2>5 DEF UnloadPassenger, Arrived
      <3>4. QED
        BY <1>5, <3>1, <3>2, <3>3 DEF UnloadPassenger, Arrived
    <2>6. CASE onboard[temp].destination_floor # current_floor
      BY <1>5, <2>6 DEF UnloadPassenger, Arrived
    <2>7. QED
      BY <2>5, <2>6
  <1>6. CASE UnloadUnlock
    BY <1>6 DEF UnloadUnlock, Unlock
  <1>7. CASE UnloadFinish
    BY <1>7 DEF UnloadFinish, Infection, FreeDeleteList
  <1>8. CASE LoadLock
    BY <1>8 DEF LoadLock, Lock
  <1>9. CASE LoadPassenger
    <2> DEFINE queue == waiting_list[current_floor]
               p == queue[temp]
    <2>1. queue \in Seq(Passenger) /\ temp \in 1 .. Len(queue)
      BY <1>9 DEF LoadPassenger, CursorInv
    <2>2. p \in Passenger /\ RemoveAt(queue, temp) \in Seq(Passenger)
      BY <2>1, ElementOfSeq, RemoveAtProperties
    <2>3. Append(onboard, p) \in Seq(Passenger)
      BY <2>2, AppendProperties
    <2>4. CASE Boards(p)
      <3>1. p.start_floor = current_floor /\ loads + 1 \in 0 .. CAPACITY
        BY <2>4 DEF Boards, HasRoom
      <3>2. waiting_on_floor[current_floor] - 1 \in Nat
        BY <2>1 DEF Accounting
      <3>3. num_waiting - 1 \in Nat
        <4>1. <<current_floor, temp>> \in WaitingPlaces
          BY <2>1 DEF WaitingPlaces, Places
        <4>2. Cardinality(WaitingPlaces) \in Nat /\ Cardinality(WaitingPlaces) # 0
          BY <4>1, FS_CardinalityType, FS_EmptySet
        <4>3. QED
          BY <4>2 DEF WaitingTotal
      <3>4. QED
        <4>1. waiting_list' \in [Floor -> Seq(Passenger)]
          BY <1>9, <2>2, <2>4 DEF LoadPassenger
        <4>2. onboard' \in Seq(Passenger) /\ loads' \in 0 .. CAPACITY
          BY <1>9, <2>3, <2>4, <3>1 DEF LoadPassenger
        <4>3. waiting_on_floor' \in [Floor -> Nat] /\ num_waiting' \in Nat
          <5>1. /\ waiting_on_floor' = [waiting_on_floor EXCEPT ![current_floor] = @ - 1]
                /\ num_waiting' = num_waiting - 1
            BY <1>9, <2>4, <3>1 DEF LoadPassenger
          <5>2. QED
            BY <5>1, <3>2, <3>3
        <4>4. status' \in {0, 1} /\ transfer' \in {0, 1} /\ temp' \in Nat
          BY <1>9, <2>4 DEF LoadPassenger
        <4>5. QED
          BY <1>9, <4>1, <4>2, <4>3, <4>4 DEF LoadPassenger
    <2>5. CASE ~Boards(p)
      BY <1>9, <2>5 DEF LoadPassenger
    <2>6. QED
      BY <2>4, <2>5
  <1>10. CASE LoadUnlock
    BY <1>10 DEF LoadUnlock, Unlock
  <1>11. CASE LoadingSleep
    BY <1>11 DEF LoadingSleep
  <1>12. CASE DecideMove
    <2>1. CASE loads # 0 \/ num_waiting # 0
      BY <1>12, <2>1 DEF DecideMove, changeElevatorState
    <2>2. CASE ~(loads # 0 \/ num_waiting # 0)
      <3>1. /\ Goto(Scheduler, "decide", "deact")
            /\ UNCHANGED <<state, lockVars, current_floor, next_floor, flagVars, riderVars,
                           queueVars, localVars, delete_list, args, heapVars>>
        BY <1>12, <2>2 DEF DecideMove
      <3>2. QED
        BY <3>1
    <2>3. QED
      BY <2>1, <2>2
  <1>13. CASE moveElevator
    <2>1. current_floor' = next_floor
      BY <1>13 DEF moveElevator, CabInv
    <2>2. next_floor' \in Floor
      BY <1>13, <2>1 DEF moveElevator, AfterUp, AfterDown, Floor
    <2>3. QED
      BY <1>13, <2>1, <2>2 DEF moveElevator
  <1>14. CASE CheckDeactiving
    BY <1>14 DEF CheckDeactiving
  <1>15. CASE GoOffline
    BY <1>15 DEF GoOffline
  <1>16. ASSUME NEW c \in Caller, StartElevator(c)
        PROVE  TypeOK'
    BY <1>16 DEF StartElevator
  <1>17. ASSUME NEW c \in Caller, NEW r \in Request, IssueRequest(c, r)
        PROVE  TypeOK'
    BY <1>17 DEF IssueRequest
  <1>18. ASSUME NEW c \in Caller, StopElevator(c)
        PROVE  TypeOK'
    BY <1>18 DEF StopElevator
  <1>19. ASSUME NEW c \in Caller, StartSet(c)
        PROVE  TypeOK'
    BY <1>19 DEF StartSet
  <1>20. ASSUME NEW c \in Caller, StartClear(c)
        PROVE  TypeOK'
    BY <1>20 DEF StartClear
  <1>21. ASSUME NEW c \in Caller, IssueLock(c)
        PROVE  TypeOK'
    BY <1>21 DEF IssueLock, Lock
  <1>22. ASSUME NEW c \in Caller, IssueAdd(c)
        PROVE  TypeOK'
    <2> DEFINE f == args[c].start_floor
               p == [id |-> allocs + 1, type |-> args[c].type, start_floor |-> f,
                     destination_floor |-> args[c].destination_floor]
    <2>1. args[c] \in Request /\ ValidRequest(args[c])
      BY <1>22 DEF IssueAdd, ArgsInv
    <2>2. f \in Floor /\ p \in Passenger
      <3>1. /\ f \in Floor /\ args[c].destination_floor \in Floor
            /\ args[c].type \in {HUMAN, ZOMBIE}
        BY <2>1, ValidRequestRange
      <3>2. QED
        BY <3>1 DEF Passenger
    <2>3. Append(waiting_list[f], p) \in Seq(Passenger)
      BY <2>2, AppendProperties
    <2> HIDE DEF p
    <2>4. waiting_list' \in [Floor -> Seq(Passenger)]
      BY <1>22, <2>2, <2>3 DEF IssueAdd, AddTail, p
    <2>5. waiting_on_floor' \in [Floor -> Nat] /\ num_waiting' \in Nat
      <3>1. /\ waiting_on_floor' = [waiting_on_floor EXCEPT ![f] = @ + 1]
            /\ num_waiting' = num_waiting + 1
        BY <1>22 DEF IssueAdd
      <3>2. waiting_on_floor[f] + 1 \in Nat
        BY <2>2
      <3>3. QED
        BY <3>1, <3>2, <2>2
    <2>6. heap' \subseteq Passenger /\ allocs' \in Nat
      BY <1>22, <2>2 DEF IssueAdd, p
    <2>7. QED
      BY <1>22, <2>4, <2>5, <2>6 DEF IssueAdd
  <1>23. ASSUME NEW c \in Caller, IssueCheck(c) \/ IssueOops(c) \/ IssueInterrupted(c)
        PROVE  TypeOK'
    <2>1. CASE IssueCheck(c)
      BY <2>1 DEF IssueCheck
    <2>2. CASE IssueOops(c)
      BY <2>2 DEF IssueOops
    <2>3. CASE IssueInterrupted(c)
      BY <2>3 DEF IssueInterrupted, Interrupted
    <2>4. QED
      BY <1>23, <2>1, <2>2, <2>3
  <1>24. ASSUME NEW c \in Caller, IssueUnlock(c)
        PROVE  TypeOK'
    BY <1>24 DEF IssueUnlock, Unlock
  <1>25. ASSUME NEW c \in Caller, StopCheck(c)
        PROVE  TypeOK'
    BY <1>25 DEF StopCheck
  <1>26. ASSUME NEW c \in Caller, StopDeact(c)
        PROVE  TypeOK'
    BY <1>26 DEF StopDeact
  <1>27. ASSUME NEW c \in Caller, StopStarted(c)
        PROVE  TypeOK'
    BY <1>27 DEF StopStarted
  <1>28. ASSUME NEW c \in Caller, StopLock(c)
        PROVE  TypeOK'
    BY <1>28 DEF StopLock, Lock
  <1>29. ASSUME NEW c \in Caller, StopOffload(c)
        PROVE  TypeOK'
    BY <1>29 DEF StopOffload
  <1>30. ASSUME NEW c \in Caller, StopInterrupted(c)
        PROVE  TypeOK'
    BY <1>30 DEF StopInterrupted, Interrupted
  <1>31. ASSUME NEW c \in Caller, StopUnlock(c)
        PROVE  TypeOK'
    BY <1>31 DEF StopUnlock, Unlock
  <1>32. ASSUME NEW c \in Caller, StopFree(c)
        PROVE  TypeOK'
    BY <1>32 DEF StopFree, FreeDeleteList
  <1>33. CASE UNCHANGED vars
    BY <1>33 DEF vars
  <1>34. QED
    BY <1>1, <1>2, <1>3, <1>4, <1>5, <1>6, <1>7, <1>8, <1>9, <1>10, <1>11, <1>12,
       <1>13, <1>14, <1>15, <1>16, <1>17, <1>18, <1>19, <1>20, <1>21, <1>22, <1>23,
       <1>24, <1>25, <1>26, <1>27, <1>28, <1>29, <1>30, <1>31, <1>32, <1>33
    DEF Next, SchedulerStep, CallerEnters, CallerStep, Undefined, Orphaned

(* Only loadPassengers and issue_request change the floors' lists and      *)
(* counters.                                                               *)
LEMMA QueueFrame ==
    ASSUME [Next]_vars
    PROVE  \/ raced = 0 /\ LoadPassenger
           \/ \E c \in Caller : raced = 0 /\ IssueAdd(c)
           \/ UNCHANGED <<waiting_list, waiting_on_floor, num_waiting, allocs>>
  <1> DEFINE Frame == UNCHANGED <<waiting_list, waiting_on_floor, num_waiting, allocs>>
  <1>1. ASSUME SchedulerStep, ~LoadPassenger
        PROVE  Frame
    BY <1>1 DEF SchedulerStep, Lock, Unlock, FreeDeleteList, CheckWaiting,
       CheckOnboard, CheckStarted, UnloadLock, UnloadPassenger, UnloadUnlock,
       UnloadFinish, LoadLock, LoadUnlock, LoadingSleep, DecideMove, moveElevator,
       CheckDeactiving, GoOffline
  <1>2. ASSUME NEW c \in Caller, CallerEnters(c)
        PROVE  Frame
    BY <1>2 DEF CallerEnters, StartElevator, IssueRequest, StopElevator
  <1>3. ASSUME NEW c \in Caller, CallerStep(c), ~IssueAdd(c)
        PROVE  Frame
    BY <1>3 DEF CallerStep, Lock, Unlock, Interrupted, FreeDeleteList, StartSet,
       StartClear, IssueLock, IssueCheck, IssueOops, IssueInterrupted, IssueUnlock, StopCheck,
       StopDeact, StopStarted, StopLock, StopOffload, StopInterrupted, StopUnlock, StopFree
  <1>4. CASE UNCHANGED vars
    BY <1>4 DEF vars
  <1>5. QED
    BY <1>1, <1>2, <1>3, <1>4 DEF Next, Undefined, Orphaned, SchedulerStep, CallerStep

(* Only unloadPassengers, loadPassengers and stop_elevator change who is   *)
(* aboard, the load, the infection and the serviced count.                 *)
LEMMA RiderFrame ==
    ASSUME [Next]_vars
    PROVE  \/ raced = 0 /\ UnloadPassenger
           \/ raced = 0 /\ UnloadFinish
           \/ raced = 0 /\ LoadPassenger
           \/ \E c \in Caller : raced = 0 /\ StopOffload(c)
           \/ UNCHANGED <<loads, status, onboard, serviced>>
  <1> DEFINE Frame == UNCHANGED <<loads, status, onboard, serviced>>
  <1>1. ASSUME SchedulerStep, ~UnloadPassenger, ~UnloadFinish, ~LoadPassenger
        PROVE  Frame
    BY <1>1 DEF SchedulerStep, Lock, Unlock, CheckWaiting, CheckOnboard, CheckStarted,
       UnloadLock, UnloadUnlock, LoadLock, LoadUnlock, LoadingSleep, DecideMove,
       moveElevator, CheckDeactiving, GoOffline
  <1>2. ASSUME NEW c \in Caller, CallerEnters(c)
        PROVE  Frame
    BY <1>2 DEF CallerEnters, StartElevator, IssueRequest, StopElevator
  <1>3. ASSUME NEW c \in Caller, CallerStep(c), ~StopOffload(c)
        PROVE  Frame
    BY <1>3 DEF CallerStep, Lock, Unlock, Interrupted, FreeDeleteList, StartSet,
       StartClear, IssueLock, IssueCheck, IssueAdd, IssueOops, IssueInterrupted, IssueUnlock,
       StopCheck,
       StopDeact, StopStarted, StopLock, StopInterrupted, StopUnlock, StopFree
  <1>4. CASE UNCHANGED vars
    BY <1>4 DEF vars
  <1>5. QED
    BY <1>1, <1>2, <1>3, <1>4 DEF Next, Undefined, Orphaned, SchedulerStep, CallerStep

(* The inductive invariant contains what the lists need.                   *)
LEMMA CoreFromInv == IInv => CoreInv
  BY DEF IInv, TypeOK, CapacityRespected, CursorInv, CoreInv

(* Both know the threads' positions.                                       *)
LEMMA Positions ==
    TypeOK \/ CoreInv => /\ pc \in [Thread -> SchedulerLabel \union CallerLabel]
                         /\ current_floor \in Floor /\ next_floor \in Floor
                         /\ args \in [Caller -> Request \union {NoArgs}]
  BY DEF TypeOK, CoreInv

(* No system call moves the elevator, or the scheduler's position and      *)
(* cursor.                                                                 *)
LEMMA CallerFrame ==
    ASSUME TypeOK \/ CoreInv, NEW c \in Caller, CallerEnters(c) \/ CallerStep(c)
    PROVE  /\ pc'[Scheduler] = pc[Scheduler]
           /\ UNCHANGED <<state, current_floor, next_floor, temp>>
  <1>1. CASE CallerEnters(c)
    BY <1>1, Positions DEF Thread, CallerEnters, StartElevator, IssueRequest, StopElevator
  <1>2. CASE CallerStep(c)
    BY <1>2, Positions DEF Thread, CallerStep, Lock, Unlock, Interrupted, FreeDeleteList,
       StartSet, StartClear, IssueLock, IssueCheck, IssueAdd, IssueOops, IssueInterrupted, IssueUnlock,
       StopCheck, StopDeact, StopStarted, StopLock, StopOffload, StopInterrupted,
       StopUnlock, StopFree
  <1>3. QED
    BY <1>1, <1>2

(* The scheduler moves no process and leaves started alone.               *)
LEMMA SchedulerFrame ==
    ASSUME TypeOK \/ CoreInv, SchedulerStep
    PROVE  /\ \A c \in Caller : pc'[c] = pc[c]
           /\ UNCHANGED <<started, args>>
  <1>1. \A c \in Caller : c \in Thread /\ c # Scheduler
    BY ThreadAssumption DEF Thread
  <1>2. QED
    BY <1>1, Positions DEF SchedulerStep, Lock, Unlock, FreeDeleteList, CheckWaiting,
       CheckOnboard, CheckStarted, UnloadLock, UnloadPassenger, UnloadUnlock,
       UnloadFinish, LoadLock, LoadPassenger, LoadUnlock, LoadingSleep, DecideMove,
       moveElevator, CheckDeactiving, GoOffline

(* A system call moves the process that makes it and no other thread.      *)
LEMMA OneMoves ==
    ASSUME TypeOK \/ CoreInv, NEW c \in Caller, CallerEnters(c) \/ CallerStep(c)
    PROVE  \A t \in Thread \ {c} : pc'[t] = pc[t]
  <1>1. CASE CallerEnters(c)
    BY <1>1, Positions DEF Thread, CallerEnters, StartElevator, IssueRequest, StopElevator
  <1>2. CASE CallerStep(c)
    BY <1>2, Positions DEF Thread, CallerStep, Lock, Unlock, Interrupted,
       StartSet, StartClear, IssueLock, IssueCheck, IssueAdd, IssueOops, IssueInterrupted, IssueUnlock,
       StopCheck, StopDeact, StopStarted, StopLock, StopOffload, StopInterrupted,
       StopUnlock, StopFree
  <1>3. QED
    BY <1>1, <1>2

(* Two threads are inside thread1.mutex together only after a step that    *)
(* set raced, and never when no lock attempt is interrupted.               *)
LEMMA MutexStep == CoreInv /\ MutexInv /\ [Next]_vars => MutexInv'
  <1> SUFFICES ASSUME CoreInv, MutexInv, [Next]_vars PROVE MutexInv'
    OBVIOUS
  <1>0. /\ pc \in [Thread -> SchedulerLabel \union CallerLabel]
        /\ pc[Scheduler] \in SchedulerLabel
        /\ \A c \in Caller : pc[c] \in CallerLabel
    BY DEF CoreInv
  <1> USE <1>0 DEF MutexInv, InCS, Holds, Thread
  <1>1. CASE CheckWaiting
    BY <1>1 DEF CheckWaiting
  <1>2. CASE CheckOnboard
    BY <1>2 DEF CheckOnboard
  <1>3. CASE CheckStarted
    BY <1>3 DEF CheckStarted
  <1>4. CASE UnloadLock
    BY <1>4 DEF UnloadLock, Lock
  <1>5. CASE UnloadPassenger
    BY <1>5 DEF UnloadPassenger
  <1>6. CASE UnloadUnlock
    BY <1>6 DEF UnloadUnlock, Unlock
  <1>7. CASE UnloadFinish
    BY <1>7 DEF UnloadFinish, FreeDeleteList
  <1>8. CASE LoadLock
    BY <1>8 DEF LoadLock, Lock
  <1>9. CASE LoadPassenger
    BY <1>9 DEF LoadPassenger
  <1>10. CASE LoadUnlock
    BY <1>10 DEF LoadUnlock, Unlock
  <1>11. CASE LoadingSleep
    BY <1>11 DEF LoadingSleep
  <1>12. CASE DecideMove
    BY <1>12 DEF DecideMove, changeElevatorState
  <1>13. CASE moveElevator
    BY <1>13 DEF moveElevator
  <1>14. CASE CheckDeactiving
    BY <1>14 DEF CheckDeactiving
  <1>15. CASE GoOffline
    BY <1>15 DEF GoOffline
  <1>16. ASSUME NEW c \in Caller, StartElevator(c)
        PROVE  MutexInv'
    BY <1>16 DEF StartElevator
  <1>17. ASSUME NEW c \in Caller, NEW r \in Request, IssueRequest(c, r)
        PROVE  MutexInv'
    BY <1>17 DEF IssueRequest
  <1>18. ASSUME NEW c \in Caller, StopElevator(c)
        PROVE  MutexInv'
    BY <1>18 DEF StopElevator
  <1>19. ASSUME NEW c \in Caller, StartSet(c)
        PROVE  MutexInv'
    BY <1>19 DEF StartSet
  <1>20. ASSUME NEW c \in Caller, StartClear(c)
        PROVE  MutexInv'
    BY <1>20 DEF StartClear
  <1>21. ASSUME NEW c \in Caller, IssueLock(c)
        PROVE  MutexInv'
    BY <1>21 DEF IssueLock, Lock
  <1>22. ASSUME NEW c \in Caller, IssueAdd(c)
        PROVE  MutexInv'
    BY <1>22 DEF IssueAdd
  <1>23. ASSUME NEW c \in Caller, IssueCheck(c) \/ IssueOops(c) \/ IssueInterrupted(c)
        PROVE  MutexInv'
    BY <1>23 DEF IssueCheck, IssueOops, IssueInterrupted, Interrupted
  <1>24. ASSUME NEW c \in Caller, IssueUnlock(c)
        PROVE  MutexInv'
    BY <1>24 DEF IssueUnlock, Unlock
  <1>25. ASSUME NEW c \in Caller, StopCheck(c)
        PROVE  MutexInv'
    BY <1>25 DEF StopCheck
  <1>26. ASSUME NEW c \in Caller, StopDeact(c)
        PROVE  MutexInv'
    BY <1>26 DEF StopDeact
  <1>27. ASSUME NEW c \in Caller, StopStarted(c)
        PROVE  MutexInv'
    BY <1>27 DEF StopStarted
  <1>28. ASSUME NEW c \in Caller, StopLock(c)
        PROVE  MutexInv'
    BY <1>28 DEF StopLock, Lock
  <1>29. ASSUME NEW c \in Caller, StopOffload(c)
        PROVE  MutexInv'
    BY <1>29 DEF StopOffload
  <1>30. ASSUME NEW c \in Caller, StopInterrupted(c)
        PROVE  MutexInv'
    BY <1>30 DEF StopInterrupted, Interrupted
  <1>31. ASSUME NEW c \in Caller, StopUnlock(c)
        PROVE  MutexInv'
    BY <1>31 DEF StopUnlock, Unlock
  <1>32. ASSUME NEW c \in Caller, StopFree(c)
        PROVE  MutexInv'
    BY <1>32 DEF StopFree, FreeDeleteList
  <1>33. CASE UNCHANGED vars
    BY <1>33 DEF vars
  <1>34. QED
    BY <1>1, <1>2, <1>3, <1>4, <1>5, <1>6, <1>7, <1>8, <1>9, <1>10, <1>11, <1>12,
       <1>13, <1>14, <1>15, <1>16, <1>17, <1>18, <1>19, <1>20, <1>21, <1>22, <1>23,
       <1>24, <1>25, <1>26, <1>27, <1>28, <1>29, <1>30, <1>31, <1>32, <1>33
    DEF Next, SchedulerStep, CallerEnters, CallerStep, Undefined, Orphaned

(* A process that waits for the mutex in issue_request, or holds it there, *)
(* has arguments that passed the checks.                                   *)
LEMMA ArgsStep == CoreInv /\ [Next]_vars => ArgsInv'
  <1> SUFFICES ASSUME CoreInv, [Next]_vars PROVE ArgsInv'
    OBVIOUS
  <1>0. /\ pc \in [Thread -> SchedulerLabel \union CallerLabel]
        /\ args \in [Caller -> Request \union {NoArgs}]
        /\ ArgsInv
    BY DEF CoreInv
  <1> USE <1>0 DEF ArgsInv, Thread
  <1>1. CASE SchedulerStep
    <2>1. args' = args /\ \A c \in Caller : pc'[c] = pc[c]
      BY <1>1 DEF SchedulerStep, Lock, Unlock, FreeDeleteList, CheckWaiting,
         CheckOnboard, CheckStarted, UnloadLock, UnloadPassenger, UnloadUnlock,
         UnloadFinish, LoadLock, LoadPassenger, LoadUnlock, LoadingSleep, DecideMove,
         moveElevator, CheckDeactiving, GoOffline
    <2>2. QED
      BY <2>1
  <1>2. ASSUME NEW c \in Caller, CallerEnters(c)
        PROVE  ArgsInv'
    BY <1>2 DEF CallerEnters, StartElevator, IssueRequest, StopElevator
  <1>3. ASSUME NEW c \in Caller, CallerStep(c)
        PROVE  ArgsInv'
    BY <1>3 DEF CallerStep, Lock, Unlock, Interrupted, FreeDeleteList, StartSet,
       StartClear, IssueLock, IssueCheck, IssueAdd, IssueOops, IssueInterrupted, IssueUnlock,
       StopCheck,
       StopDeact, StopStarted, StopLock, StopOffload, StopInterrupted, StopUnlock,
       StopFree
  <1>4. CASE UNCHANGED vars
    BY <1>4 DEF vars
  <1>5. QED
    BY <1>1, <1>2, <1>3, <1>4 DEF Next, Undefined, Orphaned

(* next_floor always adjoins current_floor, and moveElevator is entered    *)
(* with state towards it.                                                  *)
LEMMA CabStep == CoreInv /\ [Next]_vars => CabInv'
  <1> SUFFICES ASSUME CoreInv, [Next]_vars PROVE CabInv'
    OBVIOUS
  <1>0. CabInv
    BY DEF CoreInv
  <1> USE <1>0, Positions DEF CabInv, Thread
  <1>1. CASE moveElevator
    BY <1>1 DEF moveElevator, AfterUp, AfterDown, Floor
  <1>2. CASE DecideMove
    BY <1>2 DEF DecideMove, changeElevatorState, Floor
  <1>3. ASSUME SchedulerStep, ~moveElevator, ~DecideMove
        PROVE  CabInv'
    <2>1. UNCHANGED <<current_floor, next_floor>> /\ pc'[Scheduler] # "move"
      BY <1>3 DEF SchedulerStep, Lock, Unlock, FreeDeleteList, CheckWaiting,
         CheckOnboard, CheckStarted, UnloadLock, UnloadPassenger, UnloadUnlock,
         UnloadFinish, LoadLock, LoadPassenger, LoadUnlock, LoadingSleep,
         CheckDeactiving, GoOffline
    <2>2. QED
      BY <2>1
  <1>4. ASSUME NEW c \in Caller, CallerEnters(c) \/ CallerStep(c)
        PROVE  CabInv'
    BY <1>4, CallerFrame
  <1>5. CASE UNCHANGED vars
    BY <1>5 DEF vars
  <1>6. QED
    BY <1>1, <1>2, <1>3, <1>4, <1>5 DEF Next, Undefined, Orphaned

(* The load bound and the counters survive every step: a boarding          *)
(* passenger is moved from num_waiting to loads, one who gets off from     *)
(* loads to serviced, and stop_elevator leaves loads too high rather than  *)
(* too low.                                                                *)
LEMMA CountStep == IInv /\ [Next]_vars => CapacityRespected' /\ Accounting'
  <1> SUFFICES ASSUME IInv, [Next]_vars PROVE CapacityRespected' /\ Accounting'
    OBVIOUS
  <1> USE DEF IInv, TypeOK, CapacityRespected, Accounting
  <1>1. CASE UnloadPassenger
    <2>1. temp \in 1 .. Len(onboard)
      BY <1>1 DEF UnloadPassenger, CursorInv
    <2>2. Len(RemoveAt(onboard, temp)) = Len(onboard) - 1
      BY <2>1, RemoveAtProperties
    <2>3. CASE onboard[temp].destination_floor = current_floor
      BY <1>1, <2>1, <2>2, <2>3 DEF UnloadPassenger, Arrived
    <2>4. CASE onboard[temp].destination_floor # current_floor
      BY <1>1, <2>4 DEF UnloadPassenger, Arrived
    <2>5. QED
      BY <2>3, <2>4
  <1>2. CASE UnloadFinish
    BY <1>2 DEF UnloadFinish, FreeDeleteList
  <1>3. CASE LoadPassenger
    <2> DEFINE queue == waiting_list[current_floor]
               p == queue[temp]
    <2>1. queue \in Seq(Passenger) /\ temp \in 1 .. Len(queue)
      BY <1>3 DEF LoadPassenger, CursorInv
    <2>2. CASE Boards(p)
      <3>1. p \in Passenger /\ Len(RemoveAt(queue, temp)) = Len(queue) - 1
        BY <2>1, ElementOfSeq, RemoveAtProperties
      <3>2. Len(Append(onboard, p)) = Len(onboard) + 1
        BY <3>1, AppendProperties
      <3>3. CapacityRespected'
        BY <1>3, <2>2, <3>2 DEF LoadPassenger, Boards, HasRoom
      <3>4. num_waiting' + loads' + serviced' = allocs'
        BY <1>3, <2>2 DEF LoadPassenger
      <3>5. /\ waiting_on_floor' = [waiting_on_floor EXCEPT ![current_floor] = @ - 1]
            /\ waiting_list' = [waiting_list EXCEPT ![current_floor] = RemoveAt(queue, temp)]
        BY <1>3, <2>2 DEF LoadPassenger, Boards
      <3>6. \A f \in Floor : waiting_on_floor'[f] = Len(waiting_list'[f])
        BY <3>1, <3>5
      <3>7. QED
        BY <3>3, <3>4, <3>6
    <2>3. CASE ~Boards(p)
      BY <1>3, <2>3 DEF LoadPassenger
    <2>4. QED
      BY <2>2, <2>3
  <1>4. ASSUME NEW c \in Caller, IssueAdd(c)
        PROVE  CapacityRespected' /\ Accounting'
    <2> DEFINE f == args[c].start_floor
    <2>1. f \in Floor
      BY <1>4, ValidRequestRange DEF IssueAdd, ArgsInv
    <2>2. PICK p : /\ waiting_list' = [waiting_list EXCEPT ![f] = Append(@, p)]
                   /\ waiting_on_floor' = [waiting_on_floor EXCEPT ![f] = @ + 1]
      BY <1>4 DEF IssueAdd, AddTail
    <2>3. waiting_list'[f] \in Seq(Passenger)
      BY <2>1, TypeStep
    <2>4. Len(Append(waiting_list[f], p)) = Len(waiting_list[f]) + 1
      BY <2>1
    <2>5. \A g \in Floor : waiting_on_floor'[g] = Len(waiting_list'[g])
      BY <2>1, <2>2, <2>4
    <2>6. CapacityRespected' /\ num_waiting' + loads' + serviced' = allocs'
      BY <1>4 DEF IssueAdd
    <2>7. QED
      BY <2>5, <2>6
  <1>5. ASSUME NEW c \in Caller, StopOffload(c)
        PROVE  CapacityRespected' /\ Accounting'
    BY <1>5 DEF StopOffload
  <1>6. CASE UNCHANGED <<loads, onboard, serviced, waiting_list, waiting_on_floor,
                         num_waiting, allocs>>
    BY <1>6
  <1>7. QED
    BY <1>1, <1>2, <1>3, <1>4, <1>5, <1>6, QueueFrame, RiderFrame

(* num_waiting follows the floors' lists: issue_request takes one place    *)
(* more, a boarding passenger gives one up.                                *)
LEMMA WaitingStep ==
    IInv /\ [Next]_vars => IsFiniteSet(WaitingPlaces') /\ WaitingTotal'
  <1> SUFFICES ASSUME IInv, [Next]_vars
               PROVE  IsFiniteSet(WaitingPlaces') /\ WaitingTotal'
    OBVIOUS
  <1> USE DEF WaitingTotal, WaitingPlaces
  <1>0. /\ IsFiniteSet(Places(waiting_list))
        /\ num_waiting = Cardinality(Places(waiting_list)) /\ num_waiting \in Nat
        /\ waiting_list \in [Floor -> Seq(Passenger)]
        /\ waiting_list' \in [Floor -> Seq(Passenger)]
    BY TypeStep DEF IInv, TypeOK
  <1>1. CASE LoadPassenger
    <2> DEFINE queue == waiting_list[current_floor]
               p == queue[temp]
    <2>1. /\ current_floor \in Floor
          /\ queue \in Seq(Passenger) /\ temp \in 1 .. Len(queue)
      BY <1>1 DEF IInv, TypeOK, LoadPassenger, CursorInv
    <2>2. CASE Boards(p)
      <3>1. /\ waiting_list' = [waiting_list EXCEPT ![current_floor] = RemoveAt(queue, temp)]
            /\ num_waiting' = num_waiting - 1
        BY <1>1, <2>2 DEF LoadPassenger
      <3>2. Len(waiting_list[current_floor]) = Len(waiting_list'[current_floor]) + 1
        BY <1>0, <2>1, <3>1, RemoveAtProperties
      <3>3. \A g \in Floor \ {current_floor} : waiting_list'[g] = waiting_list[g]
        BY <1>0, <3>1
      <3>4. /\ IsFiniteSet(Places(waiting_list'))
            /\ Cardinality(Places(waiting_list)) = Cardinality(Places(waiting_list')) + 1
        <4>1. IsFiniteSet(Places(waiting_list'))
          BY <1>0, <2>1, <3>2, <3>3, PlacesLonger
        <4>2. QED
          BY <4>1, <1>0, <2>1, <3>2, <3>3, PlacesLonger
      <3>5. Cardinality(Places(waiting_list')) \in Nat
        BY <3>4, FS_CardinalityType
      <3>6. QED
        BY <1>0, <3>1, <3>4, <3>5
    <2>3. CASE ~Boards(p)
      BY <1>0, <1>1, <2>3 DEF LoadPassenger
    <2>4. QED
      BY <2>2, <2>3
  <1>2. ASSUME NEW c \in Caller, IssueAdd(c)
        PROVE  IsFiniteSet(WaitingPlaces') /\ WaitingTotal'
    <2> DEFINE f == args[c].start_floor
    <2>1. f \in Floor
      BY <1>2, ValidRequestRange DEF IInv, IssueAdd, ArgsInv
    <2>2. PICK p : waiting_list' = [waiting_list EXCEPT ![f] = Append(@, p)]
      BY <1>2 DEF IssueAdd, AddTail
    <2>3. num_waiting' = num_waiting + 1
      BY <1>2 DEF IssueAdd
    <2> HIDE DEF f
    <2>4. Len(waiting_list'[f]) = Len(waiting_list[f]) + 1
      BY <1>0, <2>1, <2>2
    <2>5. \A g \in Floor \ {f} : waiting_list[g] = waiting_list'[g]
      BY <1>0, <2>2
    <2>6. /\ IsFiniteSet(Places(waiting_list'))
          /\ Cardinality(Places(waiting_list')) = Cardinality(Places(waiting_list)) + 1
      BY <1>0, <2>1, <2>4, <2>5, PlacesLonger
    <2>7. QED
      BY <1>0, <2>3, <2>6
  <1>3. CASE UNCHANGED <<waiting_list, num_waiting>>
    BY <1>0, <1>3
  <1>4. QED
    BY <1>1, <1>2, <1>3, QueueFrame

(* What issue_request adds: one new passenger, younger than all others, at *)
(* the tail of the list of the floor it waits on.                          *)
LEMMA IssueAddEffect ==
    ASSUME IInv, NEW c \in Caller, IssueAdd(c)
    PROVE  \E f \in Floor, p \in Passenger :
             /\ p.start_floor = f /\ p.id = allocs + 1
             /\ waiting_list' = [waiting_list EXCEPT ![f] = Append(waiting_list[f], p)]
             /\ allocs' = allocs + 1
  <1> DEFINE f == args[c].start_floor
             p == [id |-> allocs + 1, type |-> args[c].type, start_floor |-> f,
                   destination_floor |-> args[c].destination_floor]
  <1>1. /\ f \in Floor /\ args[c].destination_floor \in Floor
        /\ args[c].type \in {HUMAN, ZOMBIE}
    BY ValidRequestRange DEF IInv, IssueAdd, ArgsInv
  <1>2. p \in Passenger /\ p.start_floor = f /\ p.id = allocs + 1
    BY <1>1 DEF Passenger, IInv, TypeOK
  <1>3. /\ waiting_list' = [waiting_list EXCEPT ![f] = Append(waiting_list[f], p)]
        /\ allocs' = allocs + 1
    BY DEF IssueAdd, AddTail
  <1>4. QED
    BY <1>1, <1>2, <1>3

(* The floors' lists stay sorted by arrival: list_add_tail appends the     *)
(* youngest, and whoever boards leaves the others in order.                *)
LEMMA QueueStep == IInv /\ [Next]_vars => QueueInv'
  <1> SUFFICES ASSUME IInv, [Next]_vars PROVE QueueInv'
    OBVIOUS
  <1>0. /\ waiting_list \in [Floor -> Seq(Passenger)] /\ allocs \in Nat
        /\ QueueInv
    BY DEF IInv, TypeOK
  <1>1. CASE LoadPassenger
    <2> DEFINE queue == waiting_list[current_floor]
               p == queue[temp]
               rest == RemoveAt(queue, temp)
    <2>1. /\ current_floor \in Floor
          /\ queue \in Seq(Passenger) /\ temp \in 1 .. Len(queue)
      BY <1>1 DEF IInv, TypeOK, LoadPassenger, CursorInv
    <2>2. CASE Boards(p)
      <3>1. waiting_list' = [waiting_list EXCEPT ![current_floor] = rest] /\ allocs' = allocs
        BY <1>1, <2>2 DEF LoadPassenger
      <3>2. /\ \A j \in DOMAIN rest : \E m \in DOMAIN queue : rest[j] = queue[m]
            /\ \A j, k \in DOMAIN rest :
                 j < k => \E m, n \in DOMAIN queue :
                            m < n /\ rest[j] = queue[m] /\ rest[k] = queue[n]
        BY <2>1, RemoveAtOrder
      <3> HIDE DEF rest
      <3>3. \A i \in DOMAIN queue :
              /\ queue[i].start_floor = current_floor
              /\ queue[i].id <= allocs
              /\ \A j \in DOMAIN queue : i < j => queue[i].id < queue[j].id
        BY <1>0, <2>1 DEF QueueInv
      <3>4. \A i \in DOMAIN rest :
              /\ rest[i].start_floor = current_floor
              /\ rest[i].id <= allocs
              /\ \A j \in DOMAIN rest : i < j => rest[i].id < rest[j].id
        BY <3>2, <3>3
      <3>5. QED
        BY <1>0, <2>1, <3>1, <3>4 DEF QueueInv
    <2>3. CASE ~Boards(p)
      BY <1>0, <1>1, <2>3 DEF LoadPassenger, QueueInv
    <2>4. QED
      BY <2>2, <2>3
  <1>2. ASSUME NEW c \in Caller, IssueAdd(c)
        PROVE  QueueInv'
    <2>1. PICK f \in Floor, p \in Passenger :
             /\ p.start_floor = f /\ p.id = allocs + 1
             /\ waiting_list' = [waiting_list EXCEPT ![f] = Append(waiting_list[f], p)]
             /\ allocs' = allocs + 1
      BY <1>2, IssueAddEffect
    <2> DEFINE queue == waiting_list[f]
               more == Append(queue, p)
    <2>2. /\ queue \in Seq(Passenger) /\ DOMAIN queue = 1 .. Len(queue)
          /\ more \in Seq(Passenger) /\ DOMAIN more = 1 .. Len(queue) + 1
          /\ \A i \in 1 .. Len(queue) : more[i] = queue[i]
          /\ more[Len(queue) + 1] = p
      BY <1>0, AppendProperties
    <2> HIDE DEF more
    <2>3. \A i \in DOMAIN more :
            /\ more[i].start_floor = f
            /\ more[i].id <= allocs + 1
            /\ \A j \in DOMAIN more : i < j => more[i].id < more[j].id
      <3> SUFFICES ASSUME NEW i \in DOMAIN more
                   PROVE  /\ more[i].start_floor = f
                          /\ more[i].id <= allocs + 1
                          /\ \A j \in DOMAIN more : i < j => more[i].id < more[j].id
        OBVIOUS
      <3>1. CASE i = Len(queue) + 1
        <4>1. \A j \in DOMAIN more : ~(i < j)
          BY <3>1, <2>2
        <4>2. QED
          BY <1>0, <3>1, <4>1, <2>1, <2>2
      <3>2. CASE i \in 1 .. Len(queue)
        <4>0. queue[i] \in Passenger
          BY <2>2, <3>2, ElementOfSeq
        <4>1. /\ more[i].start_floor = f /\ more[i].id <= allocs /\ more[i].id \in Nat
              /\ \A j \in 1 .. Len(queue) : i < j => more[i].id < more[j].id
          BY <1>0, <3>2, <4>0, <2>2 DEF QueueInv, Passenger
        <4>2. more[i].id < more[Len(queue) + 1].id /\ more[i].id <= allocs + 1
          BY <1>0, <4>1, <2>1, <2>2
        <4>3. ASSUME NEW j \in DOMAIN more, i < j
              PROVE  more[i].id < more[j].id
          <5>1. j \in 1 .. Len(queue) \/ j = Len(queue) + 1
            BY <2>2
          <5>2. QED
            BY <5>1, <4>1, <4>2, <4>3
        <4>4. QED
          BY <4>1, <4>2, <4>3
      <3>3. QED
        BY <3>1, <3>2, <2>2
    <2>4. ASSUME NEW g \in Floor, g # f, NEW i \in DOMAIN waiting_list[g]
          PROVE  waiting_list[g][i].id <= allocs + 1
      <3>1. waiting_list[g][i] \in Passenger
        BY <1>0, <2>4, ElementOfSeq
      <3>2. waiting_list[g][i].id \in Nat /\ waiting_list[g][i].id <= allocs
        BY <1>0, <2>4, <3>1 DEF QueueInv, Passenger
      <3>3. QED
        BY <1>0, <3>2
    <2>5. /\ waiting_list'[f] = more
          /\ \A g \in Floor \ {f} : waiting_list'[g] = waiting_list[g]
      BY <1>0, <2>1 DEF more
    <2>6. ASSUME NEW g \in Floor, NEW i \in DOMAIN waiting_list'[g]
          PROVE  /\ waiting_list'[g][i].start_floor = g
                 /\ waiting_list'[g][i].id <= allocs'
                 /\ \A j \in DOMAIN waiting_list'[g] :
                      i < j => waiting_list'[g][i].id < waiting_list'[g][j].id
      <3>1. CASE g = f
        BY <3>1, <2>1, <2>3, <2>5
      <3>2. CASE g # f
        BY <1>0, <3>2, <2>1, <2>4, <2>5 DEF QueueInv
      <3>3. QED
        BY <3>1, <3>2
    <2>7. QED
      BY <2>6 DEF QueueInv
  <1>3. CASE UNCHANGED <<waiting_list, allocs>>
    BY <1>0, <1>3 DEF QueueInv
  <1>4. QED
    BY <1>1, <1>2, <1>3, QueueFrame

(* While elevator.status is uninfected no zombie is aboard: status is set  *)
(* with every boarding zombie and reset only when loads says the elevator  *)
(* is empty, which loads never does too early.                             *)
LEMMA StatusStep == IInv /\ [Next]_vars => StatusInv'
  <1> SUFFICES ASSUME IInv, [Next]_vars PROVE StatusInv'
    OBVIOUS
  <1>0. onboard \in Seq(Passenger) /\ StatusInv
    BY DEF IInv, TypeOK
  <1>1. CASE UnloadPassenger
    <2>1. temp \in 1 .. Len(onboard)
      BY <1>1 DEF IInv, TypeOK, UnloadPassenger, CursorInv
    <2> DEFINE rest == RemoveAt(onboard, temp)
    <2>2. CASE onboard[temp].destination_floor = current_floor
      <3>2. \A j \in DOMAIN rest : \E i \in DOMAIN onboard : rest[j] = onboard[i]
        BY <1>0, <2>1, RemoveAtOrder
      <3>3. onboard' = rest /\ status' = status
        BY <1>1, <2>2 DEF UnloadPassenger, Arrived
      <3> HIDE DEF rest
      <3>4. QED
        BY <1>0, <3>2, <3>3 DEF StatusInv
    <2>3. CASE onboard[temp].destination_floor # current_floor
      BY <1>0, <1>1, <2>3 DEF UnloadPassenger, Arrived, StatusInv
    <2>4. QED
      BY <2>2, <2>3
  <1>2. CASE UnloadFinish
    <2>1. loads = 0 => onboard = <<>>
      BY EmptySeq DEF IInv, TypeOK, CapacityRespected
    <2>2. QED
      BY <1>0, <1>2, <2>1 DEF UnloadFinish, Infection, StatusInv
  <1>3. CASE LoadPassenger
    <2> DEFINE queue == waiting_list[current_floor]
               p == queue[temp]
               more == Append(onboard, p)
    <2>1. p \in Passenger
      BY <1>3, ElementOfSeq DEF IInv, TypeOK, LoadPassenger, CursorInv
    <2>2. CASE Boards(p)
      <3>1. /\ onboard' = more
            /\ status' = IF p.type = ZOMBIE THEN 1 ELSE status
        BY <1>3, <2>2 DEF LoadPassenger
      <3>2. /\ DOMAIN more = 1 .. Len(onboard) + 1 /\ DOMAIN onboard = 1 .. Len(onboard)
            /\ \A i \in 1 .. Len(onboard) : more[i] = onboard[i]
            /\ more[Len(onboard) + 1] = p
        BY <1>0, <2>1, AppendProperties
      <3> HIDE DEF more, p
      <3>3. QED
        BY <1>0, <3>1, <3>2 DEF StatusInv
    <2>3. CASE ~Boards(p)
      BY <1>0, <1>3, <2>3 DEF LoadPassenger, StatusInv
    <2>4. QED
      BY <2>2, <2>3
  <1>4. ASSUME NEW c \in Caller, StopOffload(c)
        PROVE  StatusInv'
    BY <1>4 DEF StopOffload, StatusInv
  <1>5. CASE UNCHANGED <<status, onboard>>
    BY <1>0, <1>5 DEF StatusInv
  <1>6. QED
    BY <1>1, <1>2, <1>3, <1>4, <1>5, RiderFrame

(* Whoever loadPassengers has passed over cannot board later in the same   *)
(* traversal: the load and the infection only grow during it, and nobody   *)
(* else touches the list, since the scheduler is alone inside the mutex.   *)
LEMMA CursorStep == IInv /\ [Next]_vars => CursorInv'
  <1> SUFFICES ASSUME IInv, [Next]_vars PROVE CursorInv'
    OBVIOUS
  <1>0. TypeOK /\ CursorInv
    BY DEF IInv
  <1>1. ASSUME SchedulerStep PROVE CursorInv'
    <2>1. CASE UnloadPassenger
      BY <2>1, <1>0 DEF UnloadPassenger, CursorInv, TypeOK
    <2>2. CASE LoadPassenger
      <3> DEFINE queue == waiting_list[current_floor]
                 p == queue[temp]
                 rest == RemoveAt(queue, temp)
      <3>1. /\ current_floor \in Floor /\ loads \in 0 .. CAPACITY /\ status \in {0, 1}
            /\ queue \in Seq(Passenger) /\ temp \in 1 .. Len(queue)
            /\ \A j \in DOMAIN queue : j < temp =>
                 loads = CAPACITY \/ (queue[j].type = HUMAN /\ status = 1)
        BY <1>0, <2>2 DEF TypeOK, LoadPassenger, CursorInv
      <3>2. CASE Boards(p)
        <4>1. /\ waiting_list' = [waiting_list EXCEPT ![current_floor] = rest]
              /\ status' = IF p.type = ZOMBIE THEN 1 ELSE status
              /\ UNCHANGED <<temp, current_floor>>
          BY <2>2, <3>2 DEF LoadPassenger
        <4>2. loads # CAPACITY
          BY <3>1, <3>2 DEF Boards, HasRoom
        <4>3. waiting_list'[current_floor'] = rest
          BY <1>0, <3>1, <4>1 DEF TypeOK
        <4>4. \A j \in DOMAIN rest : j < temp => j \in DOMAIN queue /\ rest[j] = queue[j]
          <5> HIDE DEF queue
          <5>1. /\ rest \in Seq(Passenger) /\ Len(rest) = Len(queue) - 1
                /\ \A j \in 1 .. Len(queue) - 1 :
                     rest[j] = IF j < temp THEN queue[j] ELSE queue[j + 1]
            BY <3>1, RemoveAtProperties
          <5> HIDE DEF rest
          <5>2. QED
            BY <3>1, <5>1
        <4> HIDE DEF rest, p
        <4>5. \A j \in DOMAIN rest : j < temp => rest[j].type = HUMAN /\ status' = 1
          BY <3>1, <4>1, <4>2, <4>4
        <4>6. temp' >= 1
          BY <3>1, <4>1
        <4>7. QED
          BY <4>1, <4>3, <4>5, <4>6 DEF CursorInv
      <3>3. CASE ~Boards(p)
        <4>1. /\ UNCHANGED <<waiting_list, loads, status, current_floor>>
              /\ temp' = temp + 1
          BY <2>2, <3>3 DEF LoadPassenger
        <4>2. p \in Passenger /\ p.start_floor = current_floor
          BY <3>1, ElementOfSeq DEF IInv, QueueInv
        <4>3. loads = CAPACITY \/ (p.type = HUMAN /\ status = 1)
          BY <3>1, <3>3, <4>2 DEF Boards, HasRoom, Passenger
        <4>4. ASSUME NEW j \in DOMAIN queue, j < temp + 1
              PROVE  loads = CAPACITY \/ (queue[j].type = HUMAN /\ status = 1)
          <5>1. j < temp \/ j = temp
            BY <3>1, <4>4
          <5>2. QED
            BY <5>1, <3>1, <4>3
        <4>5. temp' >= 1
          BY <3>1, <4>1
        <4>6. QED
          BY <4>1, <4>4, <4>5 DEF CursorInv
      <3>4. QED
        BY <3>2, <3>3
    <2>3. CASE UnloadLock
      BY <2>3, <1>0 DEF UnloadLock, Lock, CursorInv, TypeOK, Thread
    <2>4. CASE LoadLock
      <3>1. temp' = 1 /\ waiting_list'[current_floor'] \in Seq(Passenger)
        BY <2>4, <1>0 DEF LoadLock, TypeOK
      <3>2. QED
        BY <3>1 DEF CursorInv
    <2>5. ASSUME ~UnloadPassenger, ~LoadPassenger, ~UnloadLock, ~LoadLock
          PROVE  pc'[Scheduler] \notin {"unload", "load"}
      BY <1>0, <1>1, <2>5 DEF SchedulerStep, Unlock, FreeDeleteList, CheckWaiting,
         CheckOnboard, CheckStarted, UnloadUnlock, UnloadFinish, LoadUnlock,
         LoadingSleep, DecideMove, moveElevator, CheckDeactiving, GoOffline, TypeOK,
         Thread
    <2>6. QED
      BY <2>1, <2>2, <2>3, <2>4, <2>5 DEF CursorInv
  <1>2. ASSUME NEW c \in Caller, CallerEnters(c) \/ CallerStep(c)
        PROVE  CursorInv'
    <2>1. pc'[Scheduler] = pc[Scheduler] /\ UNCHANGED <<current_floor, temp>>
      BY <1>0, <1>2, CallerFrame
    <2>2. pc[Scheduler] \in {"unload", "load"} =>
            UNCHANGED <<waiting_list, loads, status>>
      <3>1. raced = 0 /\ c # Scheduler /\ c \in Thread /\ Scheduler \in Thread
        BY <1>2 DEF CallerEnters, CallerStep, Thread
      <3>2. pc[Scheduler] \in {"unload", "load"} => ~IssueAdd(c)
        BY <3>1 DEF IInv, MutexInv, InCS, IssueAdd
      <3>4. CASE CallerEnters(c)
        BY <3>4 DEF CallerEnters, StartElevator, IssueRequest, StopElevator
      <3>5. CASE CallerStep(c)
        BY <3>2, <3>5 DEF CallerStep, Lock, Unlock, Interrupted, FreeDeleteList,
           StartSet, StartClear, IssueLock, IssueCheck, IssueOops, IssueInterrupted, IssueUnlock,
           StopCheck, StopDeact, StopStarted, StopLock, StopOffload, StopInterrupted, StopUnlock,
           StopFree
      <3>6. QED
        BY <1>2, <3>4, <3>5
    <2>3. QED
      BY <1>0, <2>1, <2>2 DEF CursorInv
  <1>3. CASE UNCHANGED vars
    BY <1>0, <1>3 DEF CursorInv, vars
  <1>4. QED
    BY <1>1, <1>2, <1>3 DEF Next, Undefined, Orphaned

(* Between finding the elevator empty and showing IDLE or OFFLINE nobody   *)
(* boards: only the scheduler itself loads.                                *)
LEMMA RestStep == IInv /\ [Next]_vars => RestInv'
  <1> SUFFICES ASSUME IInv, [Next]_vars PROVE RestInv'
    OBVIOUS
  <1>0. TypeOK /\ RestInv
    BY DEF IInv
  <1>1. CASE SchedulerStep
    BY <1>0, <1>1 DEF SchedulerStep, Lock, Unlock, FreeDeleteList, CheckWaiting,
       CheckOnboard, CheckStarted, UnloadLock, UnloadPassenger, UnloadUnlock,
       UnloadFinish, LoadLock, LoadPassenger, LoadUnlock, LoadingSleep, DecideMove,
       moveElevator, CheckDeactiving, GoOffline, TypeOK, Thread, RestInv
  <1>2. ASSUME NEW c \in Caller, CallerEnters(c) \/ CallerStep(c)
        PROVE  RestInv'
    <2>1. pc'[Scheduler] = pc[Scheduler]
      BY <1>0, <1>2, CallerFrame
    <2>2. loads' = loads /\ (onboard = <<>> => onboard' = <<>>)
      BY <1>2 DEF CallerEnters, StartElevator, IssueRequest, StopElevator, CallerStep,
         Lock, Unlock, Interrupted, FreeDeleteList, StartSet, StartClear, IssueLock, IssueCheck,
         IssueAdd, IssueOops, IssueInterrupted, IssueUnlock, StopCheck, StopDeact, StopStarted,
         StopLock, StopOffload, StopInterrupted, StopUnlock, StopFree
    <2>3. QED
      BY <1>0, <2>1, <2>2 DEF RestInv
  <1>3. CASE UNCHANGED vars
    BY <1>0, <1>3 DEF RestInv, vars
  <1>4. QED
    BY <1>1, <1>2, <1>3 DEF Next, Undefined, Orphaned

-----------------------------------------------------------------------------
(***************************************************************************)
(* The theorems                                                            *)
(***************************************************************************)

(* A started elevator is deactivating only between the two assignments of  *)
(* a start or a stop: stop_elevator sets deactiving before it clears       *)
(* started, start_elevator sets started before it clears deactiving.       *)
LEMMA FlagStep == IInv /\ [Next]_vars => AcceptsWhenStarted'
  <1> SUFFICES ASSUME IInv, [Next]_vars PROVE AcceptsWhenStarted'
    OBVIOUS
  <1>0. /\ pc \in [Thread -> SchedulerLabel \union CallerLabel]
        /\ Scheduler \notin Caller /\ AcceptsWhenStarted
    BY ThreadAssumption DEF IInv, TypeOK
  <1> USE DEF Thread, AcceptsWhenStarted
  <1>1. ASSUME SchedulerStep
        PROVE  AcceptsWhenStarted'
    <2>1. /\ \A c \in Caller : pc'[c] = pc[c]
          /\ UNCHANGED started /\ (deactiving' = deactiving \/ deactiving' = 0)
      BY <1>0, <1>1 DEF SchedulerStep, Lock, Unlock, FreeDeleteList, CheckWaiting,
         CheckOnboard, CheckStarted, UnloadLock, UnloadPassenger, UnloadUnlock,
         UnloadFinish, LoadLock, LoadPassenger, LoadUnlock, LoadingSleep, DecideMove,
         moveElevator, CheckDeactiving, GoOffline
    <2>2. QED
      BY <1>0, <2>1
  <1>2. ASSUME NEW c \in Caller, StartSet(c) \/ StartClear(c) \/ StopDeact(c) \/ StopStarted(c)
        PROVE  AcceptsWhenStarted'
    BY <1>0, <1>2 DEF StartSet, StartClear, StopDeact, StopStarted
  <1>3. ASSUME NEW c \in Caller, CallerEnters(c) \/ CallerStep(c), ~StartSet(c),
               ~StartClear(c), ~StopDeact(c), ~StopStarted(c)
        PROVE  AcceptsWhenStarted'
    <2>1. /\ UNCHANGED <<started, deactiving>>
          /\ pc[c] \notin {"start_clear", "stop_started"}
          /\ \A d \in Caller \ {c} : pc'[d] = pc[d]
      BY <1>0, <1>3 DEF CallerEnters, StartElevator, IssueRequest, StopElevator,
         CallerStep, Lock, Unlock, Interrupted, FreeDeleteList, IssueLock, IssueCheck, IssueAdd,
         IssueOops, IssueInterrupted, IssueUnlock, StopCheck, StopLock, StopOffload,
         StopInterrupted, StopUnlock, StopFree
    <2>2. QED
      BY <1>0, <2>1
  <1>4. CASE UNCHANGED vars
    BY <1>0, <1>4 DEF vars
  <1>5. QED
    BY <1>1, <1>2, <1>3, <1>4 DEF Next, Undefined, Orphaned

-----------------------------------------------------------------------------
(***************************************************************************)
(* Each passenger structure on one list.  These lemmas need only CoreInv.  *)
(***************************************************************************)

(* The six actions that change a list, the load or the heap.               *)
LEMMA ListFrame ==
    ASSUME [Next]_vars
    PROVE  \/ UnloadPassenger \/ UnloadFinish \/ LoadPassenger
           \/ \E c \in Caller : IssueAdd(c) \/ StopOffload(c) \/ StopFree(c)
           \/ UNCHANGED <<onboard, loads, waiting_list, delete_list, heapVars>>
  <1> DEFINE Frame == UNCHANGED <<onboard, loads, waiting_list, delete_list, heapVars>>
  <1>1. ASSUME SchedulerStep, ~UnloadPassenger, ~UnloadFinish, ~LoadPassenger
        PROVE  Frame
    BY <1>1 DEF SchedulerStep, Lock, Unlock, CheckWaiting, CheckOnboard, CheckStarted,
       UnloadLock, UnloadUnlock, LoadLock, LoadUnlock, LoadingSleep, DecideMove,
       moveElevator, CheckDeactiving, GoOffline
  <1>2. ASSUME NEW c \in Caller, CallerEnters(c)
        PROVE  Frame
    BY <1>2 DEF CallerEnters, StartElevator, IssueRequest, StopElevator
  <1>3. ASSUME NEW c \in Caller, CallerStep(c), ~IssueAdd(c), ~StopOffload(c), ~StopFree(c)
        PROVE  Frame
    BY <1>3 DEF CallerStep, Lock, Unlock, Interrupted, StartSet, StartClear, IssueLock, IssueCheck,
       IssueOops, IssueInterrupted, IssueUnlock, StopCheck, StopDeact, StopStarted,
       StopLock, StopInterrupted, StopUnlock
  <1>4. CASE UNCHANGED vars
    BY <1>4 DEF vars
  <1>5. QED
    BY <1>1, <1>2, <1>3, <1>4 DEF Next, Undefined, Orphaned, SchedulerStep, CallerStep

(* What issue_request allocates: a passenger whose address no other one    *)
(* has, for the floor it waits on.                                         *)
LEMMA IssueAddNew ==
    ASSUME CoreInv, NEW c \in Caller, IssueAdd(c)
    PROVE  \E f \in Floor, p \in Passenger \ heap :
             /\ p.id = allocs + 1
             /\ waiting_list' = [waiting_list EXCEPT ![f] = Append(waiting_list[f], p)]
             /\ heap' = heap \union {p}
             /\ allocs' = allocs + 1
  <1> DEFINE f == args[c].start_floor
             p == [id |-> allocs + 1, type |-> args[c].type, start_floor |-> f,
                   destination_floor |-> args[c].destination_floor]
  <1>1. /\ f \in Floor /\ args[c].destination_floor \in Floor
        /\ args[c].type \in {HUMAN, ZOMBIE}
    BY ValidRequestRange DEF CoreInv, IssueAdd, ArgsInv
  <1>2. p \in Passenger /\ p.id = allocs + 1 /\ allocs \in Nat
    BY <1>1 DEF Passenger, CoreInv
  <1>3. p \notin heap
    BY <1>2 DEF CoreInv, HeapInv
  <1>4. /\ waiting_list' = [waiting_list EXCEPT ![f] = Append(waiting_list[f], p)]
        /\ heap' = heap \union {p}
        /\ allocs' = allocs + 1
    BY DEF IssueAdd, AddTail
  <1>5. QED
    BY <1>1, <1>2, <1>3, <1>4

(* Whatever the scheduler and the calls do to the lists is a move, an      *)
(* addition of a new structure, or a kfree of all of a delete_list.        *)
LEMMA ListsStep ==
    ASSUME CoreInv, [Next]_vars
    PROVE  ListOp(ListName, Passenger, Lists, Lists', heap, heap')
  <1> DEFINE L == ListsOf(onboard, waiting_list, delete_list)
             M == ListsOf(onboard', waiting_list', delete_list')
  <1>0. Lists = L /\ Lists' = M
    BY DEF Lists
  <1>1. /\ onboard \in Seq(Passenger) /\ waiting_list \in [Floor -> Seq(Passenger)]
        /\ delete_list \in [Thread -> Seq(Passenger)] /\ current_floor \in Floor
        /\ Scheduler \in Thread /\ \A c \in Caller : c \in Thread
    BY DEF CoreInv, Thread
  <1>2. /\ L[CabList] = onboard /\ M[CabList] = onboard'
        /\ \A f \in Floor : L[FloorList(f)] = waiting_list[f] /\ M[FloorList(f)] = waiting_list'[f]
        /\ \A t \in Thread : L[DeleteList(t)] = delete_list[t] /\ M[DeleteList(t)] = delete_list'[t]
    BY ListsAt
  <1> HIDE DEF L, M
  <1>3. CASE UnloadPassenger
    <2>1. CASE Arrived(onboard[temp])
      <3>1. temp \in 1 .. Len(onboard)
        BY <1>3 DEF CoreInv, UnloadPassenger
      <3>2. /\ onboard' = RemoveAt(onboard, temp) /\ UNCHANGED <<waiting_list, heap>>
            /\ delete_list' = [delete_list EXCEPT
                                 ![Scheduler] = Append(delete_list[Scheduler], onboard[temp])]
        BY <1>3, <2>1 DEF UnloadPassenger
      <3>3. \A n \in ListName \ {CabList, DeleteList(Scheduler)} : M[n] = L[n]
        BY <1>1, <1>2, <3>2, ListNames
      <3>4. /\ M[CabList] = RemoveAt(L[CabList], temp)
            /\ M[DeleteList(Scheduler)] = Append(L[DeleteList(Scheduler)], L[CabList][temp])
        BY <1>1, <1>2, <3>2
      <3>5. Moves(ListName, L, M, CabList, DeleteList(Scheduler))
        BY <1>2, <3>1, <3>3, <3>4 DEF Moves
      <3>6. QED
        BY <1>0, <1>1, <3>2, <3>5, ListNames DEF ListOp
    <2>2. CASE ~Arrived(onboard[temp])
      <3>1. UNCHANGED <<onboard, waiting_list, delete_list, heap>>
        BY <1>3, <2>2 DEF UnloadPassenger
      <3>2. QED
        BY <1>0, <3>1 DEF L, M, ListOp
    <2>3. QED
      BY <2>1, <2>2
  <1>4. CASE LoadPassenger
    <2> DEFINE a == FloorList(current_floor)
    <2>1. CASE Boards(waiting_list[current_floor][temp])
      <3>1. temp \in 1 .. Len(waiting_list[current_floor])
        BY <1>4 DEF CoreInv, LoadPassenger
      <3>2. /\ waiting_list' = [waiting_list EXCEPT
                                  ![current_floor] = RemoveAt(waiting_list[current_floor], temp)]
            /\ onboard' = Append(onboard, waiting_list[current_floor][temp])
            /\ UNCHANGED <<delete_list, heap>>
        BY <1>4, <2>1 DEF LoadPassenger
      <3>3. \A n \in ListName \ {a, CabList} : M[n] = L[n]
        <4>1. \A f \in Floor : f # current_floor => waiting_list'[f] = waiting_list[f]
          BY <1>1, <3>2
        <4>2. \A f \in Floor : FloorList(f) # a => M[FloorList(f)] = L[FloorList(f)]
          BY <1>2, <4>1
        <4>3. \A t \in Thread : M[DeleteList(t)] = L[DeleteList(t)]
          BY <1>2, <3>2
        <4>4. QED
          BY <4>2, <4>3, ListNames
      <3>4. M[a] = RemoveAt(L[a], temp) /\ M[CabList] = Append(L[CabList], L[a][temp])
        BY <1>1, <1>2, <3>2
      <3>5. Moves(ListName, L, M, a, CabList)
        BY <1>1, <1>2, <3>1, <3>3, <3>4 DEF Moves
      <3>6. QED
        BY <1>0, <1>1, <3>2, <3>5, ListNames DEF ListOp
    <2>2. CASE ~Boards(waiting_list[current_floor][temp])
      <3>1. UNCHANGED <<onboard, waiting_list, delete_list, heap>>
        BY <1>4, <2>2 DEF LoadPassenger
      <3>2. QED
        BY <1>0, <3>1 DEF L, M, ListOp
    <2>3. QED
      BY <2>1, <2>2
  <1>5. ASSUME NEW t \in Thread, FreeDeleteList(t), UNCHANGED <<onboard, waiting_list>>
        PROVE  ListOp(ListName, Passenger, Lists, Lists', heap, heap')
    <2>1. /\ heap' = heap \ ToSet(delete_list[t])
          /\ delete_list' = [delete_list EXCEPT ![t] = <<>>]
      BY <1>5 DEF FreeDeleteList
    <2>2. \A n \in ListName \ {DeleteList(t)} : M[n] = L[n]
      <3>1. \A u \in Thread : u # t => delete_list'[u] = delete_list[u]
        BY <1>1, <2>1
      <3>2. \A u \in Thread : DeleteList(u) # DeleteList(t) => M[DeleteList(u)] = L[DeleteList(u)]
        BY <1>2, <3>1
      <3>3. M[CabList] = L[CabList] /\ \A f \in Floor : M[FloorList(f)] = L[FloorList(f)]
        BY <1>2, <1>5
      <3>4. QED
        BY <3>2, <3>3, ListNames
    <2>3. M[DeleteList(t)] = <<>>
      BY <1>1, <1>2, <2>1
    <2>4. Frees(ListName, L, M, heap, heap', DeleteList(t))
      BY <1>2, <2>1, <2>2, <2>3 DEF Frees
    <2>5. QED
      BY <1>0, <2>4, ListNames DEF ListOp
  <1>6. CASE UnloadFinish
    BY <1>1, <1>5, <1>6 DEF UnloadFinish
  <1>7. ASSUME NEW c \in Caller, StopFree(c)
        PROVE  ListOp(ListName, Passenger, Lists, Lists', heap, heap')
    BY <1>1, <1>5, <1>7 DEF StopFree
  <1>8. ASSUME NEW c \in Caller, StopOffload(c)
        PROVE  ListOp(ListName, Passenger, Lists, Lists', heap, heap')
    <2>1. /\ onboard' = <<>> /\ UNCHANGED <<waiting_list, heap>>
          /\ delete_list' = [delete_list EXCEPT ![c] = delete_list[c] \o onboard]
      BY <1>8 DEF StopOffload
    <2>2. \A n \in ListName \ {CabList, DeleteList(c)} : M[n] = L[n]
      BY <1>1, <1>2, <2>1, ListNames
    <2>3. /\ M[CabList] = <<>>
          /\ M[DeleteList(c)] = L[DeleteList(c)] \o L[CabList]
      BY <1>1, <1>2, <2>1
    <2>4. MovesAll(ListName, L, M, CabList, DeleteList(c))
      BY <2>2, <2>3 DEF MovesAll
    <2>5. QED
      BY <1>0, <1>1, <2>1, <2>4, ListNames DEF ListOp
  <1>9. ASSUME NEW c \in Caller, IssueAdd(c)
        PROVE  ListOp(ListName, Passenger, Lists, Lists', heap, heap')
    <2>1. UNCHANGED <<onboard, delete_list>>
      BY <1>9 DEF IssueAdd
    <2>2. PICK f \in Floor, p \in Passenger \ heap :
             /\ waiting_list' = [waiting_list EXCEPT ![f] = Append(waiting_list[f], p)]
             /\ heap' = heap \union {p}
      BY <1>9, IssueAddNew
    <2>3. \A n \in ListName \ {FloorList(f)} : M[n] = L[n]
      <3>1. \A g \in Floor : g # f => waiting_list'[g] = waiting_list[g]
        BY <1>1, <2>2
      <3>2. \A g \in Floor : FloorList(g) # FloorList(f) => M[FloorList(g)] = L[FloorList(g)]
        BY <1>2, <3>1
      <3>3. M[CabList] = L[CabList] /\ \A t \in Thread : M[DeleteList(t)] = L[DeleteList(t)]
        BY <1>2, <2>1
      <3>4. QED
        BY <3>2, <3>3, ListNames
    <2>4. M[FloorList(f)] = Append(L[FloorList(f)], p)
      BY <1>1, <1>2, <2>2
    <2>5. Adds(ListName, Passenger, L, M, heap, heap', FloorList(f))
      BY <2>2, <2>3, <2>4 DEF Adds
    <2>6. QED
      BY <1>0, <2>5, ListNames DEF ListOp
  <1>10. CASE UNCHANGED <<onboard, loads, waiting_list, delete_list, heapVars>>
    BY <1>0, <1>10 DEF L, M, ListOp
  <1>11. QED
    BY <1>3, <1>4, <1>6, <1>7, <1>8, <1>9, <1>10, ListFrame

(* kmalloc hands out addresses in turn.                                    *)
LEMMA HeapStep == CoreInv /\ [Next]_vars => HeapInv'
  <1> SUFFICES ASSUME CoreInv, [Next]_vars PROVE HeapInv'
    OBVIOUS
  <1>1. HeapInv /\ allocs \in Nat /\ \A p \in heap : p.id \in Nat
    BY DEF CoreInv, Passenger
  <1>2. ASSUME NEW c \in Caller, IssueAdd(c)
        PROVE  HeapInv'
    <2>1. PICK p : p.id = allocs + 1 /\ heap' = heap \union {p} /\ allocs' = allocs + 1
      BY <1>2, IssueAddNew
    <2>2. QED
      BY <1>1, <2>1 DEF HeapInv
  <1>3. CASE heap' \subseteq heap /\ UNCHANGED allocs
    BY <1>1, <1>3 DEF HeapInv
  <1>4. QED
    BY <1>2, <1>3, ListFrame DEF UnloadPassenger, UnloadFinish, LoadPassenger, StopOffload,
       StopFree, FreeDeleteList

(* CoreInv is inductive by itself: who is aboard is counted by loads, the  *)
(* lists hold passengers, the cursor stays on the list.                    *)
LEMMA CoreStep == CoreInv /\ [Next]_vars => CoreInv'
  <1> SUFFICES ASSUME CoreInv, [Next]_vars PROVE CoreInv'
    OBVIOUS
  <1> DEFINE Positioned ==
               /\ pc' \in [Thread -> SchedulerLabel \union CallerLabel]
               /\ pc'[Scheduler] \in SchedulerLabel
               /\ \A c \in Caller : pc'[c] \in CallerLabel
               /\ args' \in [Caller -> Request \union {NoArgs}]
               /\ current_floor' \in Floor /\ next_floor' \in Floor
               /\ temp' \in Nat
               /\ pc'[Scheduler] \in {"unload", "load"} => temp' >= 1
             Aboard ==
               /\ loads' \in 0 .. CAPACITY /\ onboard' \in Seq(Passenger)
               /\ Len(onboard') <= loads'
             Listed ==
               /\ waiting_list' \in [Floor -> Seq(Passenger)]
               /\ delete_list' \in [Thread -> Seq(Passenger)]
               /\ heap' \subseteq Passenger /\ allocs' \in Nat
  <1>0. /\ pc \in [Thread -> SchedulerLabel \union CallerLabel]
        /\ pc[Scheduler] \in SchedulerLabel
        /\ \A c \in Caller : pc[c] \in CallerLabel
        /\ args \in [Caller -> Request \union {NoArgs}]
        /\ current_floor \in Floor /\ next_floor \in Floor
        /\ temp \in Nat
        /\ pc[Scheduler] \in {"unload", "load"} => temp >= 1
        /\ loads \in 0 .. CAPACITY /\ onboard \in Seq(Passenger) /\ Len(onboard) <= loads
        /\ waiting_list \in [Floor -> Seq(Passenger)]
        /\ delete_list \in [Thread -> Seq(Passenger)]
        /\ heap \subseteq Passenger /\ allocs \in Nat
        /\ Scheduler \in Thread /\ \A c \in Caller : c \in Thread /\ c # Scheduler
    BY DEF CoreInv, Thread
  <1>1. Positioned
    <2> USE <1>0 DEF Thread, SchedulerLabel, CallerLabel
    <2>1. CASE moveElevator
      <3>1. current_floor' = next_floor /\ CabInv
        BY <2>1 DEF moveElevator, CabInv, CoreInv
      <3>2. next_floor' \in Floor
        BY <2>1, <3>1 DEF moveElevator, AfterUp, AfterDown, Floor, CabInv
      <3>3. QED
        BY <2>1, <3>1, <3>2 DEF moveElevator
    <2>2. ASSUME SchedulerStep, ~moveElevator
          PROVE  Positioned
      <3>1. UNCHANGED <<args, current_floor, next_floor>> /\ \A c \in Caller : pc'[c] = pc[c]
        BY <2>2, SchedulerFrame DEF SchedulerStep, Lock, Unlock, FreeDeleteList, CheckWaiting,
           CheckOnboard, CheckStarted, UnloadLock, UnloadPassenger, UnloadUnlock,
           UnloadFinish, LoadLock, LoadPassenger, LoadUnlock, LoadingSleep, DecideMove,
           CheckDeactiving, GoOffline
      <3>2. /\ pc' \in [Thread -> SchedulerLabel \union CallerLabel]
            /\ pc'[Scheduler] \in SchedulerLabel
            /\ temp' \in Nat
            /\ pc'[Scheduler] \in {"unload", "load"} => temp' >= 1
        BY <2>2 DEF SchedulerStep, Lock, Unlock, CheckWaiting, CheckOnboard, CheckStarted,
           UnloadLock, UnloadPassenger, UnloadUnlock, UnloadFinish, LoadLock,
           LoadPassenger, LoadUnlock, LoadingSleep, DecideMove, CheckDeactiving, GoOffline
      <3>3. QED
        BY <3>1, <3>2
    <2>3. ASSUME NEW c \in Caller, CallerEnters(c) \/ CallerStep(c)
          PROVE  Positioned
      <3>1. /\ UNCHANGED <<current_floor, next_floor, temp>>
            /\ pc'[Scheduler] = pc[Scheduler]
            /\ \A t \in Thread \ {c} : pc'[t] = pc[t]
        BY <2>3, CallerFrame, OneMoves
      <3>2. CASE CallerEnters(c)
        <4>1. pc' = [pc EXCEPT ![c] = pc'[c]] /\ pc'[c] \in CallerLabel
          BY <3>2 DEF CallerEnters, StartElevator, IssueRequest, StopElevator
        <4>2. args' \in [Caller -> Request \union {NoArgs}]
          BY <3>2 DEF CallerEnters, StartElevator, IssueRequest, StopElevator
        <4>3. QED
          BY <3>1, <4>1, <4>2
      <3>3. CASE CallerStep(c)
        <4>1. pc' = [pc EXCEPT ![c] = pc'[c]] /\ pc'[c] \in CallerLabel
          BY <3>3 DEF CallerStep, Lock, Unlock, Interrupted, StartSet,
             StartClear, IssueLock, IssueCheck, IssueAdd, IssueOops, IssueInterrupted, IssueUnlock,
             StopCheck, StopDeact, StopStarted, StopLock, StopOffload, StopInterrupted,
             StopUnlock, StopFree
        <4>2. args' \in [Caller -> Request \union {NoArgs}]
          BY <3>3 DEF CallerStep, Lock, Unlock, Interrupted, StartSet,
             StartClear, IssueLock, IssueCheck, IssueAdd, IssueOops, IssueInterrupted, IssueUnlock,
             StopCheck, StopDeact, StopStarted, StopLock, StopOffload, StopInterrupted,
             StopUnlock, StopFree
        <4>3. QED
          BY <3>1, <4>1, <4>2
      <3>4. QED
        BY <2>3, <3>2, <3>3
    <2>4. CASE UNCHANGED vars
      BY <2>4 DEF vars
    <2>5. QED
      BY <2>1, <2>2, <2>3, <2>4 DEF Next, Undefined, Orphaned
  <1>2. Aboard /\ Listed
    <2> USE <1>0
    <2>1. CASE UnloadPassenger
      <3>1. temp \in 1 .. Len(onboard)
        BY <2>1 DEF UnloadPassenger
      <3>2. /\ onboard[temp] \in Passenger
            /\ RemoveAt(onboard, temp) \in Seq(Passenger)
            /\ Len(RemoveAt(onboard, temp)) = Len(onboard) - 1
        BY <3>1, ElementOfSeq, RemoveAtProperties
      <3>3. Append(delete_list[Scheduler], onboard[temp]) \in Seq(Passenger)
        BY <3>2, AppendProperties
      <3>4. CASE Arrived(onboard[temp])
        <4>1. Listed
          BY <2>1, <3>3, <3>4 DEF UnloadPassenger
        <4>2. onboard' = RemoveAt(onboard, temp) /\ loads' = loads - 1
          BY <2>1, <3>4 DEF UnloadPassenger
        <4>3. QED
          BY <3>1, <3>2, <4>1, <4>2
      <3>5. CASE ~Arrived(onboard[temp])
        BY <2>1, <3>5 DEF UnloadPassenger
      <3>6. QED
        BY <3>4, <3>5
    <2>2. CASE LoadPassenger
      <3> DEFINE queue == waiting_list[current_floor]
                 p == queue[temp]
      <3>1. queue \in Seq(Passenger) /\ temp \in 1 .. Len(queue)
        BY <2>2 DEF LoadPassenger
      <3>2. p \in Passenger /\ RemoveAt(queue, temp) \in Seq(Passenger)
        BY <3>1, ElementOfSeq, RemoveAtProperties
      <3>3. /\ Append(onboard, p) \in Seq(Passenger)
            /\ Len(Append(onboard, p)) = Len(onboard) + 1
        BY <3>2, AppendProperties
      <3>4. CASE Boards(p)
        <4>1. Listed
          BY <2>2, <3>2, <3>4 DEF LoadPassenger
        <4>2. onboard' = Append(onboard, p) /\ loads' = loads + 1 /\ loads + 1 <= CAPACITY
          BY <2>2, <3>4 DEF LoadPassenger, Boards, HasRoom
        <4>3. QED
          BY <3>3, <4>1, <4>2
      <3>5. CASE ~Boards(p)
        BY <2>2, <3>5 DEF LoadPassenger
      <3>6. QED
        BY <3>4, <3>5
    <2>3. CASE UnloadFinish
      BY <2>3 DEF UnloadFinish, FreeDeleteList
    <2>4. ASSUME NEW c \in Caller, IssueAdd(c)
          PROVE  Aboard /\ Listed
      <3>1. Aboard /\ delete_list' = delete_list
        BY <2>4 DEF IssueAdd
      <3>2. PICK f \in Floor, p \in Passenger \ heap :
               /\ waiting_list' = [waiting_list EXCEPT ![f] = Append(waiting_list[f], p)]
               /\ heap' = heap \union {p}
               /\ allocs' = allocs + 1
        BY <2>4, IssueAddNew
      <3>3. Append(waiting_list[f], p) \in Seq(Passenger)
        BY AppendProperties
      <3>4. QED
        BY <3>1, <3>2, <3>3
    <2>5. ASSUME NEW c \in Caller, StopOffload(c) \/ StopFree(c)
          PROVE  Aboard /\ Listed
      <3>1. CASE StopFree(c)
        BY <3>1 DEF StopFree, FreeDeleteList
      <3>2. CASE StopOffload(c)
        <4>1. delete_list[c] \o onboard \in Seq(Passenger)
          BY ConcatProperties
        <4>2. Listed
          BY <3>2, <4>1 DEF StopOffload
        <4>3. onboard' = <<>> /\ loads' = loads
          BY <3>2 DEF StopOffload
        <4>4. QED
          BY <4>2, <4>3
      <3>3. QED
        BY <2>5, <3>1, <3>2
    <2>6. CASE UNCHANGED <<onboard, loads, waiting_list, delete_list, heapVars>>
      BY <2>6
    <2>7. QED
      BY <2>1, <2>2, <2>3, <2>4, <2>5, <2>6, ListFrame
  <1>3. QED
    BY <1>1, <1>2, ArgsStep, CabStep, HeapStep DEF CoreInv

-----------------------------------------------------------------------------
(* The state that setup_elevator leaves satisfies the inductive invariant. *)
LEMMA InitInv == Init => IInv
  <1> SUFFICES ASSUME Init PROVE IInv
    OBVIOUS
  <1>1. TypeOK
    BY DEF Init, TypeOK, Thread, SchedulerLabel, CallerLabel, Floor
  <1>2. MutexInv /\ ArgsInv /\ CabInv /\ CursorInv /\ RestInv
    BY DEF Init, MutexInv, ArgsInv, CabInv, CursorInv, RestInv, InCS, Holds, Thread
  <1>3. /\ CapacityRespected /\ Accounting /\ StatusInv /\ QueueInv /\ AcceptsWhenStarted
        /\ HeapInv
    BY DEF Init, CapacityRespected, Accounting, StatusInv, QueueInv, AcceptsWhenStarted,
       HeapInv
  <1>4. WaitingPlaces = {}
    BY DEF Init, WaitingPlaces, Places
  <1>5. IsFiniteSet(WaitingPlaces) /\ WaitingTotal
    BY <1>4, FS_EmptySet DEF Init, WaitingTotal
  <1>6. QED
    BY <1>1, <1>2, <1>3, <1>5 DEF IInv

(* The inductive invariant holds in every state the scheduler and any      *)
(* number of concurrent system calls reach, for every number of floors,    *)
(* capacity and set of processes, with and without interrupted lock        *)
(* attempts.                                                               *)
THEOREM Invariance == Spec => []IInv
  <1>1. IInv /\ [Next]_vars => IInv'
    BY TypeStep, MutexStep, ArgsStep, CabStep, CountStep, WaitingStep, QueueStep,
       StatusStep, CursorStep, RestStep, FlagStep, CoreFromInv, HeapStep DEF IInv
  <1>2. QED
    BY <1>1, InitInv, PTL DEF Spec

(* The elevator stays between the lobby and the top floor, loads between 0 *)
(* and CAPACITY, and the counters never go below zero.                     *)
THEOREM TypeCorrect == Spec => []TypeOK
  <1>1. IInv => TypeOK
    BY DEF IInv
  <1>2. QED
    BY <1>1, Invariance, PTL

(* When no process is interrupted while it waits for thread1.mutex,        *)
(* scheduler, issue_request and stop_elevator never work on the lists      *)
(* together.                                                               *)
THEOREM MutualExclusion == Spec => []NoRace
  <1>1. IInv => NoRace
    BY DEF IInv, MutexInv, NoRace
  <1>2. QED
    BY <1>1, Invariance, PTL

(* The elevator never carries more than CAPACITY passengers, also after    *)
(* stop_elevator removed passengers and left loads as it was.              *)
THEOREM CapacityHolds == Spec => []CapacityRespected
  <1>1. IInv => CapacityRespected
    BY DEF IInv
  <1>2. QED
    BY <1>1, Invariance, PTL

(* The three totals in /proc/elevator always add up to the requests        *)
(* accepted, and each floor's counter is the length of its list.           *)
THEOREM AccountingHolds == Spec => []Accounting
  <1>1. IInv => Accounting
    BY DEF IInv
  <1>2. QED
    BY <1>1, Invariance, PTL

(* num_waiting, which decides whether the scheduler runs the elevator, is  *)
(* the number of passengers on all the floors' lists.                      *)
THEOREM WaitingTotalHolds == Spec => []WaitingTotal
  <1>1. IInv => WaitingTotal
    BY DEF IInv
  <1>2. QED
    BY <1>1, Invariance, PTL

(* However starts and stops interleave, they do not leave the elevator     *)
(* started and deactivating.                                               *)
THEOREM AcceptsWhenStartedHolds == Spec => []AcceptsWhenStarted
  <1>1. IInv => AcceptsWhenStarted
    BY DEF IInv
  <1>2. QED
    BY <1>1, Invariance, PTL

(* From its kmalloc to its kfree every passenger structure is on exactly   *)
(* one of the lists, at one place: unloadPassengers, loadPassengers,       *)
(* issue_request and stop_elevator lose none and free none twice, however  *)
(* they interleave.                                                        *)
THEOREM ListedOnceHolds == Spec => []ListedOnce
  <1>1. Init => ListedOnce
    <2> SUFFICES ASSUME Init PROVE ListedOnce
      OBVIOUS
    <2>1. \A n \in ListName : Lists[n] = <<>>
      BY ListNames, ListsAt DEF Init, Lists
    <2>2. DOMAIN Lists = ListName
      BY DEF Lists, ListsOf
    <2>3. Places(Lists) = {}
      BY <2>1, <2>2 DEF Places
    <2>4. QED
      BY <2>3 DEF Init, ListedOnce, Once
  <1>2. ASSUME IInv, IInv', ListedOnce, [Next]_vars
        PROVE  ListedOnce'
    <2>1. Lists \in [ListName -> Seq(Passenger)] /\ Lists' \in [ListName -> Seq(Passenger)]
      BY <1>2, ListsType DEF IInv, TypeOK, Lists
    <2>2. ListOp(ListName, Passenger, Lists, Lists', heap, heap')
      BY <1>2, CoreFromInv, ListsStep
    <2>3. Once(Lists, heap)
      BY <1>2 DEF ListedOnce
    <2>4. Once(Lists', heap')
      BY <2>1, <2>2, <2>3, OnceStep
    <2>5. QED
      BY <2>4 DEF ListedOnce
  <1>3. QED
    BY <1>1, <1>2, Invariance, PTL DEF Spec

(* Whoever is aboard after a step and was not before is the passenger at   *)
(* the cursor of loadPassengers, and passed its tests.                     *)
LEMMA BoardingStep ==
    ASSUME IInv, [Next]_vars, NEW p \in Boarding
    PROVE  /\ LoadPassenger
           /\ p = waiting_list[current_floor][temp]
           /\ Boards(p)
  <1>0. onboard \in Seq(Passenger)
    BY DEF IInv, TypeOK
  <1>1. CASE UnloadPassenger
    <2>1. temp \in 1 .. Len(onboard)
      BY <1>1 DEF IInv, TypeOK, UnloadPassenger, CursorInv
    <2>2. \A j \in DOMAIN RemoveAt(onboard, temp) :
            \E i \in DOMAIN onboard : RemoveAt(onboard, temp)[j] = onboard[i]
      BY <1>0, <2>1, RemoveAtOrder
    <2>3. onboard' = RemoveAt(onboard, temp) \/ onboard' = onboard
      BY <1>1 DEF UnloadPassenger
    <2>4. QED
      BY <2>2, <2>3 DEF Boarding, ToSet
  <1>2. CASE UnloadFinish
    BY <1>2 DEF UnloadFinish, Boarding
  <1>3. CASE LoadPassenger
    <2> DEFINE q == waiting_list[current_floor][temp]
    <2>1. CASE Boards(q)
      <3>1. q \in Passenger
        BY <1>3, ElementOfSeq DEF IInv, TypeOK, LoadPassenger, CursorInv
      <3>2. onboard' = Append(onboard, q)
        BY <1>3, <2>1 DEF LoadPassenger
      <3> HIDE DEF q
      <3>3. \A i \in DOMAIN Append(onboard, q) :
              \/ Append(onboard, q)[i] = q
              \/ i \in DOMAIN onboard /\ Append(onboard, q)[i] = onboard[i]
        BY <1>0, <3>1, AppendProperties
      <3>4. p = q
        BY <3>2, <3>3 DEF Boarding, ToSet
      <3>5. QED
        BY <1>3, <2>1, <3>4 DEF q
    <2>2. CASE ~Boards(q)
      BY <1>3, <2>2 DEF LoadPassenger, Boarding
    <2>3. QED
      BY <2>1, <2>2
  <1>4. ASSUME NEW c \in Caller, StopOffload(c)
        PROVE  FALSE
    BY <1>4 DEF StopOffload, Boarding, ToSet
  <1>5. CASE UNCHANGED onboard
    BY <1>5 DEF Boarding
  <1>6. QED
    BY <1>1, <1>2, <1>3, <1>4, <1>5, RiderFrame

(* No human is let aboard with a zombie, although loadPassengers tests     *)
(* elevator.status and never the list.                                     *)
THEOREM HumansAvoidZombiesHolds == Spec => HumansAvoidZombies
  <1>1. IInv /\ [Next]_vars =>
          \A p \in Boarding :
            p.type = HUMAN => \A i \in DOMAIN onboard : onboard[i].type # ZOMBIE
    <2> SUFFICES ASSUME IInv, [Next]_vars, NEW p \in Boarding, p.type = HUMAN
                 PROVE  \A i \in DOMAIN onboard : onboard[i].type # ZOMBIE
      OBVIOUS
    <2>1. Boards(p)
      BY BoardingStep
    <2>2. status = 0
      BY <2>1 DEF Boards, HUMAN, ZOMBIE
    <2>3. QED
      BY <2>2 DEF IInv, StatusInv
  <1>2. QED
    BY <1>1, Invariance, PTL DEF Spec, HumansAvoidZombies

(* On every floor passengers of a kind board in the order of their         *)
(* requests.                                                               *)
THEOREM BoardsInOrderHolds == Spec => BoardsInOrder
  <1>1. IInv /\ [Next]_vars =>
          \A f \in Floor : \A i, j \in DOMAIN waiting_list[f] :
             /\ waiting_list[f][i].id < waiting_list[f][j].id
             /\ waiting_list[f][i].type = waiting_list[f][j].type
             => waiting_list[f][j] \notin Boarding
    <2> SUFFICES ASSUME IInv, [Next]_vars, NEW f \in Floor,
                        NEW i \in DOMAIN waiting_list[f], NEW j \in DOMAIN waiting_list[f],
                        waiting_list[f][i].id < waiting_list[f][j].id,
                        waiting_list[f][i].type = waiting_list[f][j].type,
                        waiting_list[f][j] \in Boarding
                 PROVE  FALSE
      OBVIOUS
    <2> DEFINE p == waiting_list[f][j]
    <2>1. LoadPassenger /\ p = waiting_list[current_floor][temp] /\ Boards(p)
      BY BoardingStep
    <2>2. f = current_floor
      BY <2>1 DEF Boards, IInv, QueueInv
    <2>3. /\ waiting_list[f] \in Seq(Passenger) /\ temp \in DOMAIN waiting_list[f]
          /\ i \in Nat /\ j \in Nat /\ temp \in Nat /\ p \in Passenger
      <3>1. waiting_list[f] \in Seq(Passenger)
        BY DEF IInv, TypeOK
      <3>2. temp \in 1 .. Len(waiting_list[f])
        BY <2>1, <2>2, <3>1 DEF IInv, TypeOK, LoadPassenger, CursorInv
      <3>3. QED
        BY <3>1, <3>2, ElementOfSeq
    <2>4. j = temp
      <3>1. p.id = waiting_list[f][temp].id /\ p.id \in Nat
        BY <2>1, <2>2, <2>3 DEF Passenger
      <3>2. ~(j < temp) /\ ~(temp < j)
        BY <2>3, <3>1 DEF IInv, QueueInv
      <3>3. QED
        BY <2>3, <3>2
    <2>5. i < temp
      <3>1. waiting_list[f][i] \in Passenger
        BY <2>3, ElementOfSeq
      <3>2. waiting_list[f][i].id \in Nat /\ p.id \in Nat
        BY <2>3, <3>1 DEF Passenger
      <3>3. ~(temp < i) /\ i # temp
        BY <2>4, <3>2 DEF IInv, QueueInv
      <3>4. QED
        BY <2>3, <3>3
    <2>6. loads = CAPACITY \/ (waiting_list[f][i].type = HUMAN /\ status = 1)
      BY <2>1, <2>2, <2>5 DEF IInv, CursorInv, LoadPassenger
    <2>7. loads # CAPACITY
      BY <2>1 DEF Boards, HasRoom
    <2>8. p.type = HUMAN /\ status = 1
      BY <2>6, <2>7
    <2>9. QED
      BY <2>1, <2>8 DEF Boards, HUMAN, ZOMBIE
  <1>2. QED
    BY <1>1, Invariance, PTL DEF Spec, BoardsInOrder

(* The elevator moves one floor at a time to the floor next_floor          *)
(* announced and turns round only at the lobby and the top floor.          *)
THEOREM SweepsFloorsHolds == Spec => SweepsFloors
  <1>1. IInv /\ [Next]_vars =>
          (current_floor' # current_floor =>
             /\ current_floor' = next_floor
             /\ current_floor' - current_floor \in {1, -1}
             /\ \/ next_floor' - current_floor' = current_floor' - current_floor
                \/ current_floor' \in {1, FLOORS})
    <2> SUFFICES ASSUME IInv, [Next]_vars, current_floor' # current_floor
                 PROVE  /\ current_floor' = next_floor
                        /\ current_floor' - current_floor \in {1, -1}
                        /\ \/ next_floor' - current_floor' = current_floor' - current_floor
                           \/ current_floor' \in {1, FLOORS}
      OBVIOUS
    <2>1. SchedulerStep
      BY CallerFrame DEF IInv, Next, Undefined, Orphaned, vars
    <2>2. moveElevator
      BY <2>1 DEF SchedulerStep, Lock, Unlock, FreeDeleteList, CheckWaiting,
         CheckOnboard, CheckStarted, UnloadLock, UnloadPassenger, UnloadUnlock,
         UnloadFinish, LoadLock, LoadPassenger, LoadUnlock, LoadingSleep, DecideMove,
         CheckDeactiving, GoOffline
    <2>3. /\ current_floor \in 1 .. FLOORS /\ next_floor \in 1 .. FLOORS
          /\ CabInv
      BY DEF IInv, TypeOK, Floor
    <2>4. CASE state = "UP"
      <3>1. current_floor' = current_floor + 1 /\ next_floor' = AfterUp(current_floor + 1)
        BY <2>2, <2>4 DEF moveElevator
      <3>2. QED
        BY <2>2, <2>3, <2>4, <3>1 DEF CabInv, moveElevator, AfterUp
    <2>5. CASE state = "DOWN"
      <3>1. current_floor' = current_floor - 1 /\ next_floor' = AfterDown(current_floor - 1)
        BY <2>2, <2>5 DEF moveElevator
      <3>2. QED
        BY <2>2, <2>3, <2>5, <3>1 DEF CabInv, moveElevator, AfterDown
    <2>6. QED
      BY <2>2, <2>4, <2>5 DEF moveElevator
  <1>2. QED
    BY <1>1, Invariance, PTL DEF Spec, SweepsFloors

(* The scheduler shows IDLE or OFFLINE only when nobody is aboard,         *)
(* although it decides on values read without the mutex.                   *)
THEOREM RestsWhenEmptyHolds == Spec => RestsWhenEmpty
  <1>1. IInv /\ [Next]_vars =>
          (state' \in {"IDLE", "OFFLINE"} /\ state' # state => onboard = <<>>)
    <2> SUFFICES ASSUME IInv, [Next]_vars, state' \in {"IDLE", "OFFLINE"}, state' # state
                 PROVE  onboard = <<>>
      OBVIOUS
    <2>1. SchedulerStep
      BY CallerFrame DEF IInv, Next, Undefined, Orphaned, vars
    <2>2. CheckStarted \/ GoOffline
      BY <2>1 DEF SchedulerStep, Lock, Unlock, FreeDeleteList, CheckWaiting,
         CheckOnboard, UnloadLock, UnloadPassenger, UnloadUnlock, UnloadFinish, LoadLock,
         LoadPassenger, LoadUnlock, LoadingSleep, DecideMove, changeElevatorState,
         moveElevator, CheckDeactiving
    <2>3. CASE CheckStarted
      BY <2>3 DEF CheckStarted, IInv, RestInv
    <2>4. CASE GoOffline
      <3>1. loads = 0
        BY <2>4 DEF GoOffline, IInv, RestInv
      <3>2. QED
        BY <3>1, EmptySeq DEF IInv, TypeOK, CapacityRespected
    <2>5. QED
      BY <2>2, <2>3, <2>4
  <1>2. QED
    BY <1>1, Invariance, PTL DEF Spec, RestsWhenEmpty

-----------------------------------------------------------------------------
(***************************************************************************)
(* What holds as long as nobody calls stop_elevator                        *)
(***************************************************************************)

(* Whoever is in stop_elevator has called it.                              *)
StopCalled == \A c \in Caller :
    pc[c] \in {"stop_check", "stop_deact", "stop_started", "stop_lock", "stop"} =>
        "stop" \in Calls

(* No other call leads into stop_elevator.                                 *)
LEMMA StopCalledStep == IInv /\ StopCalled /\ [Next]_vars => StopCalled'
  <1> SUFFICES ASSUME IInv, StopCalled, [Next]_vars PROVE StopCalled'
    OBVIOUS
  <1>0. pc \in [Thread -> SchedulerLabel \union CallerLabel] /\ Scheduler \notin Caller
    BY ThreadAssumption DEF IInv, TypeOK
  <1> USE DEF Thread, StopCalled, Goto
  <1>1. CASE SchedulerStep
    <2>1. \A c \in Caller : pc'[c] = pc[c]
      BY <1>0, <1>1 DEF SchedulerStep, Lock, Unlock, CheckWaiting, CheckOnboard,
         CheckStarted, UnloadLock, UnloadPassenger, UnloadUnlock, UnloadFinish,
         LoadLock, LoadPassenger, LoadUnlock, LoadingSleep, DecideMove, moveElevator,
         CheckDeactiving, GoOffline
    <2>2. QED
      BY <2>1
  <1>2. ASSUME NEW c \in Caller, CallerEnters(c)
        PROVE  StopCalled'
    BY <1>0, <1>2 DEF CallerEnters, StartElevator, IssueRequest, StopElevator
  <1>3. ASSUME NEW c \in Caller, CallerStep(c)
        PROVE  StopCalled'
    BY <1>0, <1>3 DEF CallerStep, Lock, Unlock, Interrupted, StartSet, StartClear,
       IssueLock, IssueCheck, IssueAdd, IssueOops, IssueInterrupted, IssueUnlock, StopCheck, StopDeact,
       StopStarted, StopLock, StopOffload, StopInterrupted, StopUnlock, StopFree
  <1>4. CASE UNCHANGED vars
    BY <1>4 DEF vars
  <1>5. QED
    BY <1>1, <1>2, <1>3, <1>4 DEF Next, Undefined, Orphaned

(* Nobody is in stop_elevator when nobody calls it.                        *)
LEMMA NoOffload ==
    ASSUME "stop" \notin Calls, StopCalled, NEW c \in Caller
    PROVE  ~StopOffload(c)
  BY DEF StopCalled, StopOffload

(* Only unloadPassengers, loadPassengers and stop_elevator change loads,   *)
(* and the first two change onboard with it.                               *)
LEMMA ExactStep ==
    ASSUME "stop" \notin Calls, IInv, StopCalled, LoadsExact, [Next]_vars
    PROVE  LoadsExact'
  <1>0. onboard \in Seq(Passenger) /\ loads \in Nat
    BY DEF IInv, TypeOK
  <1>1. CASE UnloadPassenger
    <2>1. temp \in 1 .. Len(onboard)
      BY <1>1 DEF IInv, TypeOK, UnloadPassenger, CursorInv
    <2>2. Len(RemoveAt(onboard, temp)) = Len(onboard) - 1
      BY <1>0, <2>1, RemoveAtProperties
    <2>3. CASE Arrived(onboard[temp])
      BY <1>1, <2>2, <2>3 DEF UnloadPassenger, LoadsExact
    <2>4. CASE ~Arrived(onboard[temp])
      BY <1>1, <2>4 DEF UnloadPassenger, LoadsExact
    <2>5. QED
      BY <2>3, <2>4
  <1>2. CASE UnloadFinish
    BY <1>2 DEF UnloadFinish, LoadsExact
  <1>3. CASE LoadPassenger
    <2> DEFINE p == waiting_list[current_floor][temp]
    <2>1. Len(Append(onboard, p)) = Len(onboard) + 1
      <3>1. p \in Passenger
        BY <1>3, ElementOfSeq DEF IInv, TypeOK, LoadPassenger, CursorInv
      <3>2. QED
        BY <1>0, <3>1, AppendProperties
    <2>2. CASE Boards(p)
      BY <1>3, <2>1, <2>2 DEF LoadPassenger, LoadsExact
    <2>3. CASE ~Boards(p)
      BY <1>3, <2>3 DEF LoadPassenger, LoadsExact
    <2>4. QED
      BY <2>2, <2>3
  <1>4. CASE UNCHANGED <<loads, status, onboard, serviced>>
    BY <1>4 DEF LoadsExact
  <1>5. QED
    BY <1>1, <1>2, <1>3, <1>4, NoOffload, RiderFrame

(* As long as nobody calls stop_elevator, elevator.loads, which            *)
(* loadPassengers tests and which decides when the elevator may rest, is   *)
(* the number of passengers on elevator.onboard.                           *)
THEOREM LoadsExactHolds ==
    ASSUME "stop" \notin Calls
    PROVE  Spec => []LoadsExact
  <1>1. Init => StopCalled /\ LoadsExact
    BY DEF Init, StopCalled, LoadsExact, Thread
  <1>2. IInv /\ StopCalled /\ LoadsExact /\ [Next]_vars => LoadsExact'
    BY ExactStep
  <1>3. QED
    BY <1>1, <1>2, StopCalledStep, Invariance, PTL DEF Spec

=============================================================================
