---------------------- MODULE ElevatorRefinementProofs ----------------------
(***************************************************************************)
(* Elevator implements ElevatorService, for every instance.  Six actions   *)
(* change what passengers see; each is shown to be a step of the service,  *)
(* from the inductive invariant that ElevatorProofs establishes.           *)
(***************************************************************************)
EXTENDS ElevatorRefinement, ElevatorProofs

-----------------------------------------------------------------------------
(***************************************************************************)
(* The service's view of the lists                                         *)
(***************************************************************************)

(* Seen as people, a list is as long as it is.                             *)
LEMMA PeopleList ==
    ASSUME NEW s \in Seq(Passenger), NEW b
    PROVE  /\ People(s, b) \in Seq([type : {HUMAN, ZOMBIE}, destination_floor : Floor])
           /\ Len(People(s, b)) = Len(s)
           /\ DOMAIN People(s, b) = 1 .. Len(s)
           /\ \A i \in 1 .. Len(s) : People(s, b)[i] = Person(s[i], b)
  <1> DEFINE P == [type : {HUMAN, ZOMBIE}, destination_floor : Floor]
  <1>1. Len(s) \in Nat /\ DOMAIN s = 1 .. Len(s)
    OBVIOUS
  <1>2. \A i \in 1 .. Len(s) : Person(s[i], b) \in P
    <2>1. \A i \in 1 .. Len(s) : s[i] \in Passenger
      BY ElementOfSeq
    <2>2. QED
      BY <2>1 DEF Person, Passenger
  <1>3. People(s, b) \in [1 .. Len(s) -> P]
    BY <1>1, <1>2 DEF People
  <1>4. QED
    BY <1>1, <1>3, SeqDef DEF People

(* list_add_tail and list_move_tail add one person at the end ...          *)
LEMMA PeopleAppend ==
    ASSUME NEW s \in Seq(Passenger), NEW p \in Passenger, NEW b
    PROVE  People(Append(s, p), b) = Append(People(s, b), Person(p, b))
  <1> DEFINE P == [type : {HUMAN, ZOMBIE}, destination_floor : Floor]
             q == Person(p, b)
             t == Append(s, p)
             u == People(s, b)
             v == Append(u, q)
  <1>1. /\ t \in Seq(Passenger) /\ Len(t) = Len(s) + 1 /\ Len(s) \in Nat
        /\ \A i \in 1 .. Len(s) : t[i] = s[i]
        /\ t[Len(s) + 1] = p
    BY AppendProperties
  <1>2. /\ u \in Seq(P) /\ Len(u) = Len(s)
        /\ \A i \in 1 .. Len(s) : u[i] = Person(s[i], b)
    BY PeopleList
  <1>3. q \in P
    BY DEF Person, Passenger
  <1> HIDE DEF P, q, t, u
  <1>4. /\ v \in Seq(P) /\ Len(v) = Len(s) + 1
        /\ \A i \in 1 .. Len(s) : v[i] = u[i]
        /\ v[Len(s) + 1] = q
    BY <1>2, <1>3, AppendProperties
  <1> HIDE DEF v
  <1>5. /\ People(t, b) \in Seq(P) /\ Len(People(t, b)) = Len(s) + 1
        /\ \A i \in 1 .. Len(s) + 1 : People(t, b)[i] = Person(t[i], b)
    BY <1>1, PeopleList DEF P
  <1>6. \A i \in 1 .. Len(s) + 1 : People(t, b)[i] = v[i]
    <2>1. \A i \in 1 .. Len(s) : People(t, b)[i] = v[i]
      BY <1>1, <1>2, <1>4, <1>5
    <2>2. People(t, b)[Len(s) + 1] = v[Len(s) + 1]
      BY <1>1, <1>4, <1>5 DEF q
    <2>3. QED
      BY <1>1, <2>1, <2>2
  <1>7. People(t, b) = v
    BY <1>1, <1>4, <1>5, <1>6, SeqEqual
  <1>8. QED
    BY <1>7 DEF t, u, v, q

(* ... and taking an entry out takes that person out.                      *)
LEMMA PeopleRemove ==
    ASSUME NEW s \in Seq(Passenger), NEW k \in 1 .. Len(s), NEW b
    PROVE  People(RemoveAt(s, k), b) = RemoveAt(People(s, b), k)
  <1> DEFINE P == [type : {HUMAN, ZOMBIE}, destination_floor : Floor]
             t == RemoveAt(s, k)
             u == People(s, b)
             v == RemoveAt(u, k)
  <1>1. /\ t \in Seq(Passenger) /\ Len(t) = Len(s) - 1
        /\ \A j \in 1 .. Len(s) - 1 : t[j] = IF j < k THEN s[j] ELSE s[j + 1]
    BY RemoveAtProperties
  <1>2. /\ u \in Seq(P) /\ Len(u) = Len(s)
        /\ \A i \in 1 .. Len(s) : u[i] = Person(s[i], b)
    BY PeopleList
  <1> HIDE DEF P, t, u
  <1>3. /\ v \in Seq(P) /\ Len(v) = Len(s) - 1
        /\ \A j \in 1 .. Len(s) - 1 : v[j] = IF j < k THEN u[j] ELSE u[j + 1]
    BY <1>2, RemoveAtProperties
  <1> HIDE DEF v
  <1>4. /\ People(t, b) \in Seq(P) /\ Len(People(t, b)) = Len(s) - 1
        /\ \A j \in 1 .. Len(s) - 1 : People(t, b)[j] = Person(t[j], b)
    BY <1>1, PeopleList DEF P
  <1>5. \A j \in 1 .. Len(s) - 1 : People(t, b)[j] = v[j]
    <2> SUFFICES ASSUME NEW j \in 1 .. Len(s) - 1
                 PROVE  People(t, b)[j] = v[j]
      OBVIOUS
    <2>1. j \in 1 .. Len(s) /\ j + 1 \in 1 .. Len(s)
      OBVIOUS
    <2>2. QED
      BY <2>1, <1>1, <1>2, <1>3, <1>4
  <1>6. People(t, b) = v
    BY <1>3, <1>4, <1>5, SeqEqual
  <1>7. QED
    BY <1>6 DEF t, u, v

(* Once elevator.status is 1 everybody aboard is a zombie, whatever type   *)
(* the passenger structures have.                                          *)
LEMMA PeopleTurned ==
    ASSUME NEW s \in Seq(Passenger), NEW b
    PROVE  Service!Turned(People(s, b)) = People(s, 1)
  <1>1. DOMAIN People(s, b) = DOMAIN s
    BY DEF People
  <1>2. \A i \in DOMAIN s : [People(s, b)[i] EXCEPT !.type = ZOMBIE] = Person(s[i], 1)
    BY DEF People, Person
  <1>3. QED
    BY <1>1, <1>2 DEF Service!Turned, People

-----------------------------------------------------------------------------
(***************************************************************************)
(* The six actions                                                         *)
(***************************************************************************)
View == <<current_floor, Queue, Aboard, serviced>>

(* issue_request's list_add_tail is the arrival of a passenger.            *)
LEMMA IssueAddImplements ==
    ASSUME IInv, NEW c \in Caller, IssueAdd(c)
    PROVE  [Service!ServiceNext]_View
  <1>0. /\ waiting_list \in [Floor -> Seq(Passenger)]
        /\ UNCHANGED <<current_floor, onboard, status, serviced>>
    BY DEF IInv, TypeOK, IssueAdd, cabVars, riderVars
  <1>1. PICK f \in Floor, p \in Passenger :
          waiting_list' = [waiting_list EXCEPT ![f] = Append(waiting_list[f], p)]
    BY IssueAddEffect
  <1> DEFINE q == Person(p, 0)
  <1>2. q \in [type : {HUMAN, ZOMBIE}, destination_floor : 1 .. FLOORS]
    BY DEF Person, Passenger, Floor
  <1>3. People(waiting_list'[f], 0) = Append(People(waiting_list[f], 0), q)
    BY <1>0, <1>1, PeopleAppend
  <1>4. \A g \in Floor : g # f => waiting_list'[g] = waiting_list[g]
    BY <1>0, <1>1
  <1> HIDE DEF q
  <1>5. Queue' = [Queue EXCEPT ![f] = Append(Queue[f], q)]
    BY <1>3, <1>4 DEF Queue
  <1>6. Service!Arrive(f, q)
    BY <1>0, <1>5 DEF Service!Arrive, Aboard
  <1>7. Queue' # Queue
    <2> DEFINE P == [type : {HUMAN, ZOMBIE}, destination_floor : Floor]
    <2>1. Queue[f] = People(waiting_list[f], 0) /\ Queue[f] \in Seq(P)
      BY <1>0, PeopleList DEF Queue
    <2>2. q \in P
      BY <1>2 DEF Floor
    <2> HIDE DEF P
    <2>3. /\ Len(Append(Queue[f], q)) = Len(Queue[f]) + 1
          /\ Len(Queue[f]) \in Nat
      BY <2>1, <2>2, AppendProperties
    <2>4. Queue'[f] = Append(Queue[f], q)
      BY <1>3, <2>1 DEF Queue
    <2>5. QED
      BY <2>3, <2>4
  <1>8. QED
    BY <1>2, <1>6, <1>7 DEF Service!ServiceNext, Service!Person, Floor

(* An iteration of unloadPassengers lets one passenger off at the          *)
(* destination, or nobody.                                                 *)
LEMMA UnloadImplements ==
    ASSUME IInv, UnloadPassenger
    PROVE  [Service!ServiceNext]_View
  <1>0. /\ onboard \in Seq(Passenger) /\ temp \in 1 .. Len(onboard)
        /\ UNCHANGED <<current_floor, waiting_list, status>>
    BY DEF IInv, TypeOK, UnloadPassenger, CursorInv, cabVars, queueVars
  <1>1. CASE Arrived(onboard[temp])
    <2>1. onboard' = RemoveAt(onboard, temp) /\ serviced' = serviced + 1
      BY <1>1 DEF UnloadPassenger
    <2>2. Aboard' = RemoveAt(Aboard, temp)
      BY <1>0, <2>1, PeopleRemove DEF Aboard
    <2>3. temp \in DOMAIN Aboard /\ Aboard[temp] = Person(onboard[temp], status)
      BY <1>0, PeopleList DEF Aboard
    <2>4. Aboard[temp].destination_floor = current_floor
      BY <1>1, <2>3 DEF Arrived, Person
    <2>5. Service!GetOff(temp)
      BY <1>0, <2>1, <2>2, <2>4 DEF Service!GetOff, Service!RemoveAt, RemoveAt, Queue
    <2>6. QED
      BY <2>3, <2>5 DEF Service!ServiceNext
  <1>2. CASE ~Arrived(onboard[temp])
    BY <1>0, <1>2 DEF UnloadPassenger, View, Queue, Aboard
  <1>3. QED
    BY <1>1, <1>2

(* An iteration of loadPassengers lets one passenger aboard, whose turn it *)
(* is and whom nobody aboard keeps out, or nobody.                         *)
LEMMA LoadImplements ==
    ASSUME IInv, LoadPassenger
    PROVE  [Service!ServiceNext]_View
  <1> DEFINE f == current_floor
             list == waiting_list[f]
             p == list[temp]
             q == Person(p, 0)
  <1>0. /\ f \in Floor /\ waiting_list \in [Floor -> Seq(Passenger)]
        /\ list \in Seq(Passenger) /\ onboard \in Seq(Passenger)
        /\ temp \in 1 .. Len(list) /\ status \in {0, 1}
        /\ UNCHANGED <<current_floor, serviced>>
    BY DEF IInv, TypeOK, LoadPassenger, CursorInv, cabVars
  <1>1. CASE Boards(p)
    <2>1. /\ waiting_list' = [waiting_list EXCEPT ![f] = RemoveAt(list, temp)]
          /\ onboard' = Append(onboard, p)
          /\ status' = IF p.type = ZOMBIE THEN 1 ELSE status
      BY <1>1 DEF LoadPassenger
    <2>2. p \in Passenger
      BY <1>0, ElementOfSeq
    <2>3. /\ Queue[f] = People(list, 0) /\ DOMAIN Queue[f] = 1 .. Len(list)
          /\ \A j \in 1 .. Len(list) : Queue[f][j] = Person(list[j], 0)
      BY <1>0, PeopleList DEF Queue
    <2>4. Queue[f][temp] = q /\ q.type = p.type
      BY <1>0, <2>3 DEF Person
    <2>5. Queue' = [Queue EXCEPT ![f] = RemoveAt(Queue[f], temp)]
      <3>1. People(waiting_list'[f], 0) = RemoveAt(Queue[f], temp)
        BY <1>0, <2>1, <2>3, PeopleRemove
      <3>2. \A g \in Floor : g # f => waiting_list'[g] = waiting_list[g]
        BY <1>0, <2>1
      <3>3. QED
        BY <3>1, <3>2 DEF Queue
    <2>6. Len(Aboard) < CAPACITY
      <3>1. Len(Aboard) = Len(onboard) /\ Len(onboard) \in Nat
        BY <1>0, PeopleList DEF Aboard
      <3>2. Len(onboard) <= loads /\ loads + 1 <= CAPACITY /\ loads \in Int
        BY <1>1 DEF Boards, HasRoom, IInv, TypeOK, CapacityRespected
      <3>3. QED
        BY <3>1, <3>2, CapacityAssumption
    <2>7. \A j \in 1 .. temp - 1 : Queue[f][j].type # q.type
      <3> SUFFICES ASSUME NEW j \in 1 .. temp - 1
                   PROVE  Queue[f][j].type # q.type
        OBVIOUS
      <3>1. j \in 1 .. Len(list) /\ j < temp /\ DOMAIN list = 1 .. Len(list)
        BY <1>0
      <3>2. loads = CAPACITY \/ (list[j].type = HUMAN /\ status = 1)
        BY <3>1 DEF IInv, CursorInv, LoadPassenger
      <3>3. loads # CAPACITY
        BY <1>1, CapacityAssumption DEF Boards, HasRoom, IInv, TypeOK
      <3>4. p.type = ZOMBIE /\ list[j].type = HUMAN
        BY <1>1, <3>2, <3>3 DEF Boards
      <3>5. Queue[f][j].type = list[j].type
        <4>1. Queue[f][j] = Person(list[j], 0)
          BY <2>3, <3>1
        <4>2. Person(list[j], 0).type = list[j].type
          BY DEF Person
        <4>3. QED
          BY <4>1, <4>2
      <3>6. QED
        BY <2>4, <3>4, <3>5 DEF HUMAN, ZOMBIE
    <2>8. \/ q.type = ZOMBIE /\ Aboard' = Append(Service!Turned(Aboard), q)
          \/ /\ q.type = HUMAN
             /\ \A j \in DOMAIN Aboard : Aboard[j].type = HUMAN
             /\ Aboard' = Append(Aboard, q)
      <3>1. CASE p.type = ZOMBIE
        <4>1. Aboard' = Append(People(onboard, 1), Person(p, 1))
          BY <1>0, <2>1, <2>2, <3>1, PeopleAppend DEF Aboard
        <4>2. Person(p, 1) = q
          BY <3>1 DEF Person
        <4>3. People(onboard, 1) = Service!Turned(Aboard)
          BY <1>0, PeopleTurned DEF Aboard
        <4>4. QED
          BY <2>4, <3>1, <4>1, <4>2, <4>3
      <3>2. CASE p.type # ZOMBIE
        <4>1. p.type = HUMAN /\ status = 0 /\ status' = 0
          BY <1>1, <2>1, <3>2 DEF Boards
        <4>2. Aboard' = Append(Aboard, q)
          BY <1>0, <2>1, <2>2, <4>1, PeopleAppend DEF Aboard
        <4>3. \A j \in 1 .. Len(onboard) : onboard[j].type = HUMAN
          <5>1. \A j \in 1 .. Len(onboard) : onboard[j] \in Passenger
            BY <1>0, ElementOfSeq
          <5>2. \A j \in 1 .. Len(onboard) : onboard[j].type # ZOMBIE
            BY <1>0, <4>1 DEF IInv, StatusInv
          <5>3. QED
            BY <5>1, <5>2 DEF Passenger
        <4>4. \A j \in DOMAIN Aboard : Aboard[j].type = HUMAN
          <5>1. /\ DOMAIN Aboard = 1 .. Len(onboard)
                /\ \A j \in 1 .. Len(onboard) : Aboard[j] = Person(onboard[j], 0)
            BY <1>0, <4>1, PeopleList DEF Aboard
          <5>2. \A j \in 1 .. Len(onboard) : Person(onboard[j], 0).type = HUMAN
            BY <4>3 DEF Person
          <5>3. QED
            BY <5>1, <5>2
        <4>5. QED
          BY <2>4, <4>1, <4>2, <4>4
      <3>3. QED
        BY <3>1, <3>2
    <2> HIDE DEF q
    <2>9. Service!Board(temp)
      BY <1>0, <2>4, <2>5, <2>6, <2>7, <2>8
      DEF Service!Board, Service!RemoveAt, RemoveAt
    <2>10. QED
      BY <1>0, <2>3, <2>9 DEF Service!ServiceNext
  <1>2. CASE ~Boards(p)
    BY <1>0, <1>2 DEF LoadPassenger, View, Queue, Aboard
  <1>3. QED
    BY <1>1, <1>2

-----------------------------------------------------------------------------
(* Only moveElevator changes the floor.                                    *)
LEMMA FloorFrame ==
    ASSUME IInv, [Next]_vars
    PROVE  moveElevator \/ UNCHANGED current_floor
  <1>1. ASSUME SchedulerStep, ~moveElevator
        PROVE  UNCHANGED current_floor
    BY <1>1 DEF SchedulerStep, Lock, Unlock, FreeDeleteList, CheckWaiting,
       CheckOnboard, CheckStarted, UnloadLock, UnloadPassenger, UnloadUnlock,
       UnloadFinish, LoadLock, LoadPassenger, LoadUnlock, LoadingSleep, DecideMove,
       CheckDeactiving, GoOffline, dataVars, cabVars
  <1>2. ASSUME NEW c \in Caller, CallerEnters(c) \/ CallerStep(c)
        PROVE  UNCHANGED current_floor
    BY <1>2, CallerFrame DEF IInv
  <1>3. CASE UNCHANGED vars
    BY <1>3 DEF vars, dataVars, cabVars
  <1>4. QED
    BY <1>1, <1>2, <1>3 DEF Next, Undefined, Orphaned

(* Every step is a step of the service or leaves what it shows as it is.   *)
(* unloadPassengers resets status only when nobody is aboard, which nobody *)
(* can see; moveElevator goes to an adjacent floor of the building.        *)
LEMMA StepImplements ==
    ASSUME IInv, IInv', StopCalled, [Next]_vars
    PROVE  [Service!ServiceNext]_View
  <1> USE DEF View
  <1>1. CASE UnloadFinish
    <2>1. loads = 0 => onboard = <<>>
      BY EmptySeq DEF IInv, TypeOK, CapacityRespected
    <2>2. UNCHANGED <<current_floor, waiting_list, onboard, serviced>>
      BY <1>1 DEF UnloadFinish, cabVars, queueVars
    <2>3. Aboard' = Aboard
      <3>1. CASE loads = 0
        BY <2>1, <2>2, <3>1 DEF Aboard, People
      <3>2. CASE loads # 0
        BY <1>1, <2>2, <3>2 DEF UnloadFinish, Infection, Aboard
      <3>3. QED
        BY <3>1, <3>2
    <2>4. QED
      BY <2>2, <2>3 DEF Queue
  <1>2. CASE moveElevator
    <2>1. current_floor' \in {current_floor - 1, current_floor + 1} \intersect 1 .. FLOORS
      <3>1. current_floor' \in {current_floor - 1, current_floor + 1}
        BY <1>2 DEF moveElevator
      <3>2. current_floor' \in 1 .. FLOORS
        BY DEF IInv, TypeOK, Floor
      <3>3. QED
        BY <3>1, <3>2
    <2>2. UNCHANGED <<waiting_list, onboard, status, serviced>>
      BY <1>2 DEF moveElevator, queueVars, riderVars
    <2>3. Service!Move
      BY <2>1, <2>2 DEF Service!Move, Queue, Aboard
    <2>4. QED
      BY <2>3 DEF Service!ServiceNext
  <1>3. ASSUME NEW c \in Caller, StopOffload(c)
        PROVE  [Service!ServiceNext]_View
    <2>1. UNCHANGED <<current_floor, waiting_list, status, serviced>> /\ onboard' = <<>>
      BY <1>3 DEF StopOffload, cabVars, queueVars
    <2>2. Service!PutOff
      BY <1>3, <2>1 DEF StopOffload, Goto, StopCalled, Service!PutOff, Queue, Aboard, People
    <2>3. QED
      BY <2>2 DEF Service!ServiceNext
  <1>4. CASE UNCHANGED <<current_floor, waiting_list, onboard, status, serviced>>
    BY <1>4 DEF Queue, Aboard
  <1>5. QED
    BY <1>1, <1>2, <1>3, <1>4, QueueFrame, RiderFrame, FloorFrame, IssueAddImplements,
       UnloadImplements, LoadImplements

(* Whatever the number of floors, processes, requests and signals, the     *)
(* scheduler and the system calls implement the service; without calls of  *)
(* stop_elevator, passengers leave at their destinations only.             *)
THEOREM ServiceImplemented == Spec => ImplementsService
  <1>1. Init => Service!ServiceInit
    BY FloorsAssumption
    DEF Init, Service!ServiceInit, Queue, Aboard, People, Floor
  <1>2. Init => StopCalled
    BY ThreadAssumption DEF Init, StopCalled, Thread
  <1>3. IInv /\ IInv' /\ StopCalled /\ [Next]_vars =>
          [Service!ServiceNext]_(Service!serviceVars)
    BY StepImplements DEF View, Service!serviceVars
  <1>4. QED
    BY <1>1, <1>2, <1>3, StopCalledStep, Invariance, PTL
    DEF Spec, ImplementsService, Service!ServiceSpec

=============================================================================
