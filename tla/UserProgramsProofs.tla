-------------------------- MODULE UserProgramsProofs --------------------------
(***************************************************************************)
(* The user programs only make the system calls that Elevator describes,   *)
(* so what ElevatorProofs and ElevatorRefinementProofs show of it holds    *)
(* beneath them; and what a program that prints "returned 0" says is true. *)
(***************************************************************************)
EXTENDS UserPrograms, ElevatorRefinementProofs

(* Every step of a program is a step of Elevator or leaves it alone.       *)
LEMMA UserStep == [UserNext]_userVars => [Next]_vars
  <1> SUFFICES ASSUME [UserNext]_userVars PROVE [Next]_vars
    OBVIOUS
  <1>1. CASE KthreadStep
    BY <1>1 DEF KthreadStep, Next
  <1>2. ASSUME NEW c \in Caller, KernelStep(c) PROVE [Next]_vars
    BY <1>2 DEF KernelStep, Next
  <1>3. ASSUME NEW c \in Caller, ProgramStarts(c) PROVE [Next]_vars
    <2>1. CASE Producer(c)
      BY <1>3, <2>1, ProducerAssumption DEF ProgramStarts, Producer, CallerEnters, Next
    <2>2. CASE ConsumerStart(c) \/ ConsumerStop(c)
      BY <1>3, <2>2 DEF ProgramStarts, ConsumerStart, ConsumerStop, CallerEnters, Next
    <2>3. CASE Refused(c) \/ Usage(c)
      BY <2>3 DEF Refused, Usage
    <2>4. QED
      BY <1>3, <2>1, <2>2, <2>3 DEF ProgramStarts
  <1>4. CASE UNCHANGED userVars
    BY <1>4 DEF userVars
  <1>5. QED
    BY <1>1, <1>2, <1>3, <1>4 DEF UserNext, UserStuck

(* The programs run on Elevator.                                           *)
THEOREM ProgramsRunElevator == UserSpec => Spec
  <1>1. UserInit => Init
    BY DEF UserInit
  <1>2. QED
    BY <1>1, UserStep, PTL DEF UserSpec, Spec

(* Whatever programs users run side by side, passengers get the service.   *)
THEOREM ProgramsServed == UserSpec => ImplementsService
  BY ProgramsRunElevator, ServiceImplemented, PTL

-----------------------------------------------------------------------------
(***************************************************************************)
(* What programs print                                                     *)
(***************************************************************************)

(* As long as no other process's start or stop met its call, started is    *)
(* what the call found or made it, and a request on its way out has added  *)
(* its passenger or was cut short.                                         *)
AnswerInv == \A c \in Caller : ~met[c] =>
    /\ pc[c] # "idle" => ~Changing(c)
    /\ pc[c] \in {"start_clear", "issue_lock", "issue"} => started = 1
    /\ pc[c] \in {"stop_lock", "stop", "stop_unlock", "stop_free"} => started = 0
    /\ pc[c] = "issue_unlock" => c \in added \union cut

(* A step that is watched is a step of the scheduler, of a process, or one *)
(* that leaves the elevator alone.                                         *)
LEMMA WatchedStep ==
    ASSUME [UserNext]_userVars
    PROVE  \/ Observe /\ SchedulerStep
           \/ Observe /\ \E d \in Caller : CallerEnters(d) \/ CallerStep(d)
           \/ Observe /\ raced = 0 /\ UNCHANGED vars
           \/ UNCHANGED userVars
  <1>1. CASE KthreadStep
    BY <1>1 DEF KthreadStep
  <1>2. ASSUME NEW c \in Caller, KernelStep(c)
        PROVE  Observe /\ CallerStep(c)
    BY <1>2 DEF KernelStep
  <1>3. ASSUME NEW c \in Caller, ProgramStarts(c)
        PROVE  Observe /\ raced = 0 /\ (CallerEnters(c) \/ UNCHANGED vars)
    BY <1>3, ProducerAssumption DEF ProgramStarts, Producer, ConsumerStart, ConsumerStop,
       Refused, Usage, CallerEnters
  <1>4. QED
    BY <1>1, <1>2, <1>3 DEF UserNext, UserStuck

(* Only the second step of a start and the third of a stop change started. *)
LEMMA StartedFrame ==
    ASSUME NEW d \in Caller, CallerEnters(d) \/ CallerStep(d)
    PROVE  UNCHANGED started \/ StartSet(d) \/ StopStarted(d)
  BY DEF CallerEnters, CallerStep, StartElevator, IssueRequest, StopElevator, StartClear,
     IssueLock, IssueCheck, IssueAdd, IssueOops, IssueInterrupted, IssueUnlock, StopCheck,
     StopDeact, StopLock, StopOffload, StopInterrupted, StopUnlock, StopFree, dataVars, flagVars

(* A call whose process's own step it is sets started or has tested it.    *)
LEMMA AnswerOwnStep ==
    ASSUME IInv, AnswerInv, NEW c \in Caller, CallerEnters(c) \/ CallerStep(c),
           pc[c] = "idle" \/ ~met[c]
    PROVE  /\ pc'[c] \in {"start_clear", "issue_lock", "issue"} => started' = 1
           /\ pc'[c] \in {"stop_lock", "stop", "stop_unlock", "stop_free"} => started' = 0
  <1>0. pc \in [Thread -> SchedulerLabel \union CallerLabel] /\ c \in Thread
    BY DEF IInv, TypeOK, Thread
  <1> USE DEF Goto
  <1>1. CASE CallerEnters(c)
    BY <1>0, <1>1 DEF CallerEnters, StartElevator, IssueRequest, StopElevator,
       dataVars, flagVars
  <1>2. CASE StartSet(c) \/ StartClear(c) \/ StopCheck(c) \/ StopDeact(c) \/ StopStarted(c)
    BY <1>0, <1>2 DEF StartSet, StartClear, StopCheck, StopDeact, StopStarted
  <1>3. CASE IssueLock(c)
    BY <1>0, <1>3 DEF IssueLock, Lock, dataVars, flagVars, AnswerInv
  <1>4. CASE StopLock(c) \/ StopOffload(c) \/ StopInterrupted(c) \/ StopUnlock(c)
    BY <1>0, <1>4 DEF StopLock, StopOffload, StopInterrupted, StopUnlock, Lock, Unlock,
       Interrupted, dataVars, flagVars, AnswerInv
  <1>5. CASE \/ IssueCheck(c) \/ IssueAdd(c) \/ IssueOops(c) \/ IssueInterrupted(c)
             \/ IssueUnlock(c) \/ StopFree(c)
    BY <1>0, <1>5 DEF IssueCheck, IssueAdd, IssueOops, IssueInterrupted, IssueUnlock, StopFree,
       Unlock, Interrupted
  <1>6. QED
    BY <1>1, <1>2, <1>3, <1>4, <1>5 DEF CallerStep

(* What a request that leaves the mutex did: it was cut short, or it found *)
(* the elevator accepting and added its passenger.                         *)
LEMMA IssueEnds ==
    ASSUME IInv, AnswerInv, NEW c \in Caller, CallerEnters(c) \/ CallerStep(c), ~met[c],
           pc[c] # "issue_unlock", pc'[c] = "issue_unlock"
    PROVE  CutShort(c) \/ PassengerAdded(c)
  <1>0. TypeOK /\ c \in Thread
    BY DEF IInv, Thread
  <1>1. IssueInterrupted(c) \/ IssueCheck(c) \/ IssueAdd(c)
    BY <1>0 DEF CallerEnters, CallerStep, StartElevator, IssueRequest, StopElevator,
       StartSet, StartClear, IssueLock, IssueOops, IssueUnlock, StopCheck, StopDeact,
       StopStarted, StopLock, StopOffload, StopInterrupted, StopUnlock, StopFree,
       Lock, Unlock, Interrupted, Goto, TypeOK
  <1>2. CASE IssueInterrupted(c)
    BY <1>2 DEF IssueInterrupted, Interrupted, Goto, CutShort
  <1>3. ~IssueCheck(c)
    <2> SUFFICES ASSUME IssueCheck(c) PROVE FALSE
      OBVIOUS
    <2>1. pc[c] = "issue" /\ deactiving = 1
      BY <1>0 DEF IssueCheck, Goto, TypeOK
    <2>2. started = 1 /\ ~Changing(c)
      BY <2>1 DEF AnswerInv
    <2>3. QED
      \* Otherwise somebody else is between the two assignments.
      BY <2>1, <2>2 DEF IInv, AcceptsWhenStarted, Changing
  <1>4. CASE IssueAdd(c)
    <2>1. PICK f \in Floor, p \in Passenger :
            /\ p.id = allocs + 1
            /\ waiting_list' = [waiting_list EXCEPT ![f] = Append(waiting_list[f], p)]
            /\ allocs' = allocs + 1
      BY <1>4, IssueAddEffect
    <2>2. /\ waiting_list[f] \in Seq(Passenger)
          /\ waiting_list'[f] = Append(waiting_list[f], p)
      BY <1>0, <2>1 DEF TypeOK
    <2>3. /\ Len(waiting_list[f]) + 1 \in DOMAIN waiting_list'[f]
          /\ waiting_list'[f][Len(waiting_list[f]) + 1] = p
      BY <2>2, AppendProperties
    <2>4. QED
      BY <1>4, <2>1, <2>3 DEF IssueAdd, Goto, PassengerAdded, Waiting
  <1>5. QED
    BY <1>1, <1>2, <1>3, <1>4

(* Whoever else changes started is met by every call under way.            *)
LEMMA AnswerStep == IInv /\ AnswerInv /\ [UserNext]_userVars => AnswerInv'
  <1> SUFFICES ASSUME IInv, AnswerInv, [UserNext]_userVars,
                      NEW c \in Caller, ~met'[c], pc'[c] # "idle"
               PROVE  /\ ~Changing(c)'
                      /\ pc'[c] \in {"start_clear", "issue_lock", "issue"} => started' = 1
                      /\ pc'[c] \in {"stop_lock", "stop", "stop_unlock", "stop_free"} =>
                           started' = 0
                      /\ pc'[c] = "issue_unlock" => c \in (added \union cut)'
    BY DEF AnswerInv
  <1>0. TypeOK /\ c \in Thread
    BY DEF IInv, Thread
  <1>1. CASE UNCHANGED userVars
    BY <1>1 DEF AnswerInv, Changing, userVars, vars, dataVars, flagVars
  <1>2. CASE Observe
    <2>1. ~met[c] /\ ~Changing(c) /\ ~Changing(c)'
      BY <1>2 DEF Observe
    <2>2. CASE pc'[c] = pc[c] /\ UNCHANGED started
      <3>1. pc'[c] = "issue_unlock" => c \in (added \union cut)'
        BY <1>2, <2>1, <2>2 DEF AnswerInv, Observe
      <3>2. QED
        BY <2>1, <2>2, <3>1 DEF AnswerInv
    <2>3. CASE SchedulerStep
      BY <1>0, <2>2, <2>3, SchedulerFrame
    <2>4. ASSUME NEW d \in Caller, d # c, CallerEnters(d) \/ CallerStep(d)
          PROVE  pc'[c] = pc[c] /\ UNCHANGED started
      <3>1. pc'[c] = pc[c]
        BY <1>0, <2>4, OneMoves
      <3>2. ~StartSet(d) /\ ~StopStarted(d)
        BY <2>1, <2>4 DEF Changing, StartSet, StopStarted, Goto
      <3>3. QED
        BY <2>4, <3>1, <3>2, StartedFrame
    <2>5. CASE CallerEnters(c) \/ CallerStep(c)
      <3>1. pc'[c] = "issue_unlock" => c \in (added \union cut)'
        <4>1. CASE pc[c] = "issue_unlock"
          BY <1>2, <2>1, <4>1 DEF AnswerInv, Observe
        <4>2. CASE pc[c] # "issue_unlock"
          BY <1>2, <2>1, <2>5, <4>2, IssueEnds DEF Observe
        <4>3. QED
          BY <4>1, <4>2
      <3>2. QED
        BY <2>1, <2>5, <3>1, AnswerOwnStep
    <2>6. CASE UNCHANGED vars
      BY <2>2, <2>6 DEF vars, dataVars, flagVars
    <2>7. QED
      BY <1>1, <2>1, <2>2, <2>3, <2>4, <2>5, <2>6, WatchedStep
  <1>3. QED
    BY <1>1, <1>2, WatchedStep

(* No program is running.                                                  *)
LEMMA AnswerInit == UserInit => AnswerInv
  BY ThreadAssumption DEF UserInit, Init, AnswerInv, Thread

(* A step of c itself that ends its call, or the body of issue_request.    *)
LEMMA OwnStep ==
    ASSUME TypeOK, [UserNext]_userVars, NEW c \in Caller, pc'[c] # pc[c]
    PROVE  CallerEnters(c) \/ CallerStep(c)
  <1>0. c \in Thread
    BY DEF Thread
  <1>1. ~UNCHANGED vars
    BY DEF vars
  <1>2. ~SchedulerStep
    BY SchedulerFrame
  <1>3. QED
    BY <1>0, <1>1, <1>2, OneMoves, WatchedStep DEF userVars

(* A program that prints "returned 0", while nobody else starts or stops   *)
(* the elevator, has done what it was for, whatever signals come: consumer *)
(* --start left an elevator that accepts requests, consumer --stop a       *)
(* stopped one, and the passenger of producer was put on its floor's list, *)
(* or a signal cut its wait for the mutex short, the one case in which the *)
(* 0 that issue_request returns says nothing.                              *)
THEOREM AnswersTrueHolds == UserSpec => AnswersTrue
  <1>1. IInv /\ AnswerInv /\ [UserNext]_userVars =>
          \A c \in Caller : PrintsZero(c) /\ ~met[c] =>
             /\ pc[c] = "start_clear" => started' = 1 /\ deactiving' = 0
             /\ pc[c] = "stop_free" => started' = 0
             /\ pc[c] = "issue_unlock" => c \in added \union cut
    <2> SUFFICES ASSUME IInv, AnswerInv, [UserNext]_userVars,
                        NEW c \in Caller, PrintsZero(c), ~met[c]
                 PROVE  /\ pc[c] = "start_clear" => started' = 1 /\ deactiving' = 0
                        /\ pc[c] = "stop_free" => started' = 0
                        /\ pc[c] = "issue_unlock" => c \in added \union cut
      OBVIOUS
    <2>0. TypeOK /\ (CallerEnters(c) \/ CallerStep(c))
      BY OwnStep DEF IInv, PrintsZero, Returns
    <2>1. ASSUME pc[c] = "start_clear"
          PROVE  started' = 1 /\ deactiving' = 0
      <3>1. StartClear(c)
        BY <2>0, <2>1 DEF CallerEnters, StartElevator, IssueRequest, StopElevator,
           CallerStep, StartSet, IssueLock, IssueCheck, IssueAdd, IssueOops,
           IssueInterrupted, IssueUnlock, StopCheck, StopDeact, StopStarted, StopLock,
           StopOffload, StopInterrupted, StopUnlock, StopFree, Lock, Unlock, Interrupted,
           Goto
      <3>2. QED
        BY <2>1, <3>1 DEF StartClear, AnswerInv
    <2>2. ASSUME pc[c] = "stop_free"
          PROVE  started' = 0
      <3>1. UNCHANGED started
        BY <2>0, <2>2, StartedFrame DEF StartSet, StopStarted, Goto
      <3>2. QED
        BY <2>2, <3>1 DEF AnswerInv
    <2>3. pc[c] = "issue_unlock" => c \in added \union cut
      BY DEF AnswerInv
    <2>4. QED
      BY <2>1, <2>2, <2>3
  <1>2. UserSpec => []IInv
    BY ProgramsRunElevator, Invariance, PTL
  <1>3. QED
    BY <1>1, <1>2, AnswerInit, AnswerStep, PTL DEF UserSpec, AnswersTrue

-----------------------------------------------------------------------------
(***************************************************************************)
(* What signals do to the mutex                                            *)
(***************************************************************************)

(* Unless a wait was cut short since the mutex was last at rest, whoever   *)
(* is between lock and unlock owns the mutex.                              *)
Owned == raced = 0 /\ \A t \in Thread : Holds(t) => mutex = t
DisturbedInv == ~disturbed => Owned

(* A step that nobody's wait is cut short in keeps the owners.             *)
LEMMA OwnedBySchedulerStep ==
    ASSUME TypeOK, Owned, SchedulerStep
    PROVE  Owned'
  <1>0. /\ pc \in [Thread -> SchedulerLabel \union CallerLabel] /\ Scheduler \in Thread
        /\ mutex \in Thread \union {NoOwner} /\ NoOwner \notin Thread
    BY ThreadAssumption DEF TypeOK, Thread
  <1> USE <1>0 DEF Owned, Holds, InCS, Goto
  <1>1. CASE CheckWaiting \/ CheckOnboard \/ CheckStarted
    BY <1>1 DEF CheckWaiting, CheckOnboard, CheckStarted, lockVars
  <1>2. CASE UnloadLock \/ LoadLock
    BY <1>2 DEF UnloadLock, LoadLock, Lock
  <1>3. CASE UnloadPassenger \/ LoadPassenger
    BY <1>3 DEF UnloadPassenger, LoadPassenger, lockVars
  <1>4. CASE UnloadUnlock \/ LoadUnlock
    BY <1>4 DEF UnloadUnlock, LoadUnlock, Unlock
  <1>5. CASE UnloadFinish \/ LoadingSleep \/ DecideMove
    BY <1>5 DEF UnloadFinish, LoadingSleep, DecideMove, lockVars
  <1>6. CASE moveElevator \/ CheckDeactiving \/ GoOffline
    BY <1>6 DEF moveElevator, CheckDeactiving, GoOffline, lockVars
  <1>7. QED
    BY <1>1, <1>2, <1>3, <1>4, <1>5, <1>6 DEF SchedulerStep

LEMMA OwnedByCallerStep ==
    ASSUME TypeOK, Owned, NEW c \in Caller, CallerEnters(c) \/ CallerStep(c), ~CutShort(c)
    PROVE  Owned'
  <1>0. /\ pc \in [Thread -> SchedulerLabel \union CallerLabel] /\ c \in Thread
        /\ mutex \in Thread \union {NoOwner} /\ NoOwner \notin Thread
    BY ThreadAssumption DEF TypeOK, Thread
  <1> USE <1>0 DEF Owned, Holds, InCS, Goto
  <1>1. CASE CallerEnters(c)
    BY <1>1 DEF CallerEnters, StartElevator, IssueRequest, StopElevator, lockVars
  <1>2. CASE StartSet(c) \/ StartClear(c) \/ StopCheck(c) \/ StopDeact(c) \/ StopStarted(c)
    BY <1>2 DEF StartSet, StartClear, StopCheck, StopDeact, StopStarted, lockVars
  <1>3. CASE IssueLock(c) \/ StopLock(c)
    BY <1>3 DEF IssueLock, StopLock, Lock
  <1>4. CASE IssueCheck(c) \/ IssueAdd(c) \/ IssueOops(c) \/ StopOffload(c) \/ StopFree(c)
    BY <1>4 DEF IssueCheck, IssueAdd, IssueOops, StopOffload, StopFree, lockVars
  <1>5. CASE IssueUnlock(c) \/ StopUnlock(c)
    BY <1>5 DEF IssueUnlock, StopUnlock, Unlock
  <1>6. ~IssueInterrupted(c) /\ ~StopInterrupted(c)
    BY DEF IssueInterrupted, StopInterrupted, Interrupted, CutShort
  <1>7. QED
    BY <1>1, <1>2, <1>3, <1>4, <1>5, <1>6 DEF CallerStep

(* A step after which the mutex is at rest took it from nobody.            *)
LEMMA RestsUnraced ==
    ASSUME TypeOK, AtRest',
           SchedulerStep \/ \E c \in Caller : CallerEnters(c) \/ CallerStep(c)
    PROVE  raced' = 0
  <1> USE DEF AtRest, Holds, Thread, Goto, TypeOK
  <1>1. CASE SchedulerStep
    BY <1>1 DEF SchedulerStep, Lock, Unlock, CheckWaiting, CheckOnboard, CheckStarted,
       UnloadLock, UnloadPassenger, UnloadUnlock, UnloadFinish, LoadLock, LoadPassenger,
       LoadUnlock, LoadingSleep, DecideMove, moveElevator, CheckDeactiving, GoOffline,
       lockVars
  <1>2. ASSUME NEW c \in Caller, CallerEnters(c) PROVE raced' = 0
    BY <1>2 DEF CallerEnters, StartElevator, IssueRequest, StopElevator, lockVars
  <1>3. ASSUME NEW c \in Caller, CallerStep(c) PROVE raced' = 0
    BY <1>3 DEF CallerStep, Lock, Unlock, Interrupted, StartSet, StartClear, IssueLock,
       IssueCheck, IssueAdd, IssueOops, IssueInterrupted, IssueUnlock, StopCheck,
       StopDeact, StopStarted, StopLock, StopOffload, StopInterrupted, StopUnlock,
       StopFree, lockVars
  <1>4. QED
    BY <1>1, <1>2, <1>3

(* The wrong unlock is forgotten when everybody is out of the mutex.       *)
LEMMA DisturbedStep == IInv /\ DisturbedInv /\ [UserNext]_userVars => DisturbedInv'
  <1> SUFFICES ASSUME IInv, DisturbedInv, [UserNext]_userVars, ~disturbed'
               PROVE  Owned'
    BY DEF DisturbedInv
  <1>0. TypeOK
    BY DEF IInv
  <1>1. CASE UNCHANGED userVars
    BY <1>1 DEF DisturbedInv, Owned, Holds, userVars, vars, lockVars
  <1>2. CASE Observe /\ raced = 0 /\ UNCHANGED vars
    <2>1. AtRest' \/ ~disturbed
      BY <1>2 DEF Observe
    <2>2. CASE ~disturbed
      BY <1>2, <2>2 DEF DisturbedInv, Owned, Holds, vars, lockVars
    <2>3. CASE AtRest'
      BY <1>2, <2>3 DEF Owned, AtRest, Holds, vars, lockVars
    <2>4. QED
      BY <2>1, <2>2, <2>3
  <1>3. ASSUME Observe, SchedulerStep \/ \E c \in Caller : CallerEnters(c) \/ CallerStep(c)
        PROVE  Owned'
    <2>1. CASE AtRest'
      BY <1>0, <1>3, <2>1, RestsUnraced DEF Owned, AtRest
    <2>2. CASE ~AtRest'
      <3>1. Owned /\ \A c \in Caller : ~CutShort(c)
        BY <1>3, <2>2 DEF Observe, DisturbedInv
      <3>2. QED
        BY <1>0, <1>3, <3>1, OwnedBySchedulerStep, OwnedByCallerStep
    <2>3. QED
      BY <2>1, <2>2
  <1>4. QED
    BY <1>1, <1>2, <1>3, WatchedStep

(* Two threads get inside thread1.mutex together only when a signal cut a  *)
(* wait short since the mutex was last at rest, whoever is interruptible:  *)
(* without signals the mutex excludes, and the unconditional mutex_unlock  *)
(* of an interrupted call (lines 145 and 201) is what breaks it.           *)
THEOREM RacesNeedSignalHolds == UserSpec => []RacesNeedSignal
  <1>1. UserInit => DisturbedInv
    BY ThreadAssumption DEF UserInit, Init, DisturbedInv, Owned, Holds, Thread
  <1>2. UserSpec => []IInv
    BY ProgramsRunElevator, Invariance, PTL
  <1>3. DisturbedInv => RacesNeedSignal
    BY DEF DisturbedInv, Owned, RacesNeedSignal
  <1>4. QED
    BY <1>1, <1>2, <1>3, DisturbedStep, PTL DEF UserSpec

=============================================================================
