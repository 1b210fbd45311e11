---------------------------- MODULE UserPrograms ----------------------------
(***************************************************************************)
(* The programs of part3 that use the elevator: producer.c and consumer.c  *)
(* through the three system calls of wrappers.h, composed with Elevator.   *)
(*                                                                         *)
(* Every process of Caller runs one program after the other, and processes *)
(* run side by side.  A program makes at most one system call, prints what *)
(* it returned and exits; what it does before and after the call is its    *)
(* own business, and part of the step that enters or leaves the kernel.    *)
(***************************************************************************)
EXTENDS ElevatorRefinement

VARIABLES       \* ghosts, on which no step depends:
    met,        \* a start or stop ran beside the call of each process
    cut,        \* the processes whose wait for the mutex a signal cut short
    added,      \* the processes whose passenger was put on a floor's list
    disturbed   \* some wait was cut short since the mutex was last at rest

userVars == <<vars, met, cut, added, disturbed>>

UserInit ==
    /\ Init
    /\ met = [c \in Caller |-> FALSE]
    /\ cut = {}
    /\ added = {}
    /\ disturbed = FALSE

(* What producer.c asks for: any kind of passenger, between any two        *)
(* different floors.                                                       *)
rnd(min, max) == min .. max
ProducerRequest ==
    {r \in [start_floor : rnd(1, FLOORS), destination_floor : rnd(1, FLOORS),
            type : rnd(0, 1)] : r.destination_floor # r.start_floor}

ASSUME ProducerAssumption == ProducerRequest \subseteq Request

-----------------------------------------------------------------------------
(* main of the programs: one system call that gets past the first test of  *)
(* started ...                                                             *)
Producer(c) == \E r \in ProducerRequest : IssueRequest(c, r)
ConsumerStart(c) == StartElevator(c)
ConsumerStop(c) == StopElevator(c)

(* ... or fails it: "returned 1".                                          *)
Refused(c) ==
    /\ pc[c] = "idle"
    /\ \/ "issue" \in Calls /\ started = 0
       \/ "start" \in Calls /\ started = 1
       \/ "stop" \in Calls /\ started = 0
    /\ UNCHANGED vars

(* Wrong arguments: the program exits with -1 and makes no call.           *)
Usage(c) == pc[c] = "idle" /\ UNCHANGED vars

(* Whether the call of c is now over, and c prints "returned 0".           *)
Returns(c) == pc[c] # "idle" /\ pc'[c] = "idle"
PrintsZero(c) == Returns(c) /\ pc[c] # "stop_check"

-----------------------------------------------------------------------------
(* A start or stop by another process than c is under way.                 *)
Changing(c) == \E d \in Caller \ {c} :
    pc[d] \in {"start_set", "start_clear", "stop_check", "stop_deact", "stop_started",
               "stop_lock", "stop", "stop_unlock", "stop_free"}

(* c leaves mutex_lock_interruptible without the mutex.                    *)
CutShort(c) == /\ pc[c] \in {"issue_lock", "stop_lock"}
               /\ pc'[c] \in {"issue_unlock", "stop_unlock"}

(* The passenger of c is the latest, and waits.                            *)
PassengerAdded(c) ==
    pc[c] = "issue_add" /\ allocs' = allocs + 1 /\ Waiting(allocs)'

(* Nobody is between lock and unlock.                                      *)
AtRest == \A t \in Thread : ~Holds(t)

(* What is remembered of a call is forgotten when it returns, that a wait  *)
(* was cut short when everybody is out of the mutex again.                 *)
Observe ==
    /\ met' = [c \in Caller |-> pc'[c] # "idle" /\ (met[c] \/ Changing(c) \/ Changing(c)')]
    /\ cut' = {c \in Caller : pc'[c] \in {"issue_unlock", "stop_unlock"}
                                /\ (c \in cut \/ CutShort(c))}
    /\ added' = {c \in Caller : pc'[c] = "issue_unlock" /\ (c \in added \/ PassengerAdded(c))}
    /\ disturbed' = (~AtRest' /\ (disturbed \/ \E c \in Caller : CutShort(c)))

KthreadStep == SchedulerStep /\ Observe
KernelStep(c) == CallerStep(c) /\ Observe
ProgramStarts(c) ==
    /\ raced = 0
    /\ Producer(c) \/ ConsumerStart(c) \/ ConsumerStop(c) \/ Refused(c) \/ Usage(c)
    /\ Observe

(* Two threads inside the mutex, or one dead in it.                        *)
UserStuck == (raced = 1 \/ Died) /\ UNCHANGED userVars

UserNext ==
    \/ KthreadStep
    \/ \E c \in Caller : ProgramStarts(c) \/ KernelStep(c)
    \/ UserStuck

(* The fairness of Elevator; nobody has to start a program.                *)
UserSpec == UserInit /\ [][UserNext]_userVars /\ Fairness

-----------------------------------------------------------------------------
(* Two threads are inside thread1.mutex together only when a wait for it   *)
(* was cut short while somebody was inside: as long as each attempt to     *)
(* lock succeeds the lists are protected, and once everybody is out of the *)
(* mutex the wrong unlock of issue_request or stop_elevator is forgotten.  *)
RacesNeedSignal == raced = 1 => disturbed

(* A program that prints "returned 0" has done what it was for, unless     *)
(* somebody else's start or stop ran beside its call: consumer --start     *)
(* leaves a started elevator that accepts requests, consumer --stop one    *)
(* that is stopped, and producer's passenger was put on its floor's list   *)
(* or a signal cut the wait for the mutex short, which issue_request does  *)
(* not report.  It returns 0 also when it found deactiving set and dropped *)
(* the passenger: no flag left over from an earlier call may cause that.   *)
AnswersTrue ==
    [][\A c \in Caller : PrintsZero(c) /\ ~met[c] =>
         /\ pc[c] = "start_clear" => started' = 1 /\ deactiving' = 0
         /\ pc[c] = "stop_free" => started' = 0
         /\ pc[c] = "issue_unlock" => c \in added \union cut]_userVars

=============================================================================
