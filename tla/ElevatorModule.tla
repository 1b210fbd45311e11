--------------------------- MODULE ElevatorModule ---------------------------
(***************************************************************************)
(* Loading and unloading the elevator module, composed with Elevator:      *)
(* elevator_init with its failures, elevator_exit with                     *)
(* removeAllPassengers, and the system calls of part3/syscall/part3.c that *)
(* reach the module through the STUB pointers.                             *)
(*                                                                         *)
(* The scheduler's and the calls' own steps are those of Elevator.  One    *)
(* thread runs insmod and rmmod; loader says where it is.  Its assignments *)
(* to the three pointers are one step each.                                *)
(***************************************************************************)
EXTENDS Elevator

CONSTANTS
    Loader,         \* the process that runs insmod and rmmod
    MaxLoads,       \* bound on the number of times the module is loaded
    MayFail,        \* whether proc_create, kthread_run and rmmod's locking may fail
    Overlap         \* whether calls are made while the module comes or goes

ASSUME LoaderAssumption == Loader \notin Thread \union {NoOwner}
ASSUME LifeAssumption == MaxLoads \in Nat /\ MayFail \in BOOLEAN /\ Overlap \in BOOLEAN

VARIABLES
    loader,         \* where elevator_init or elevator_exit is
    load,           \* how often the module has been loaded
    stub,           \* STUB_start_elevator, ...: the load it points into, or 0
    kthread,        \* thread1.kthread
    proc_entry,     \* 1 while /proc/elevator exists
    target,         \* the call a process found the pointer set for
    removed,        \* the delete_list of removeAllPassengers
    cleared,        \* how many floors' lists it has emptied: its i
    orderly,        \* 1 while no call overlapped insmod or rmmod and none failed
    crashed         \* 1 once code was called, or returned to, that is gone

removeVars == <<removed, cleared>>
lifeVars == <<loader, load, stub, kthread, proc_entry, target, removeVars, crashed>>
allVars == <<vars, lifeVars, orderly>>

Call == {"start", "issue", "stop"}
NoTarget == [call |-> "none", fn |-> 0]

LoaderLabel == {"unloaded", "set_start", "set_issue", "set_stop", "proc", "mutex",
                "kthread", "live", "clear_issue", "clear_stop", "kthread_stop",
                "kthread_wait", "remove_lock", "remove", "remove_floors",
                "remove_unlock", "remove_free", "proc_remove"}

LifeTypeOK ==
    /\ loader \in LoaderLabel
    /\ load \in 0 .. MaxLoads
    /\ stub \in [Call -> 0 .. MaxLoads]
    /\ kthread \in {"none", "running", "should_stop", "exited"}
    /\ proc_entry \in {0, 1}
    /\ target \in [Caller -> [call : Call \union {"none"}, fn : 0 .. MaxLoads]]
    /\ removed \in Seq(Passenger)
    /\ cleared \in 0 .. FLOORS - 1
    /\ orderly \in {0, 1}
    /\ crashed \in {0, 1}
    /\ mutex \in Thread \union {NoOwner, Loader}
    /\ raced \in {0, 1}
    /\ state \in {"OFFLINE", "IDLE", "LOADING", "UP", "DOWN"}
    /\ current_floor \in Floor
    /\ next_floor \in Floor
    /\ loads \in 0 .. CAPACITY
    /\ started \in {0, 1}
    /\ deactiving \in {0, 1}
    /\ status \in {0, 1}
    /\ transfer \in {0, 1}

(* The kernel has booted; the module has not been loaded.                  *)
LifeInit ==
    /\ Init
    /\ loader = "unloaded"
    /\ load = 0
    /\ stub = [f \in Call |-> 0]
    /\ kthread = "none"
    /\ proc_entry = 0
    /\ target = [c \in Caller |-> NoTarget]
    /\ removed = <<>>
    /\ cleared = 0
    /\ orderly = 1
    /\ crashed = 0

(* Nobody is inside a system call.                                         *)
Quiet == \A c \in Caller : pc[c] = "idle" /\ target[c] = NoTarget

LoaderGoto(from, to) == loader = from /\ loader' = to

(* The kernel frees the module's code and data; who is inside a call will  *)
(* return to them, unless the kernel has killed it there.                  *)
ModuleFreed ==
    /\ loader' = "unloaded"
    /\ crashed' = IF \A c \in Caller : pc[c] \in {"idle", "dead"} THEN 0 ELSE 1

-----------------------------------------------------------------------------
(***************************************************************************)
(* elevator_init                                                           *)
(***************************************************************************)

(* Floors counted from 0.                                                  *)
SetupElevatorMutant ==
    /\ state' = "OFFLINE"
    /\ current_floor' = 0
    /\ next_floor' = 1
    /\ loads' = 0
    /\ deactiving' = 0
    /\ started' = 0
    /\ onboard' = <<>>
    /\ serviced' = 0
    /\ waiting_list' = [f \in Floor |-> <<>>]
    /\ waiting_on_floor' = [f \in Floor |-> 0]

setup_elevator ==
    /\ state' = "OFFLINE"
    /\ current_floor' = 1
    /\ next_floor' = 2
    /\ loads' = 0
    /\ deactiving' = 0
    /\ started' = 0
    /\ onboard' = <<>>
    /\ serviced' = 0
    /\ waiting_list' = [f \in Floor |-> <<>>]
    /\ waiting_on_floor' = [f \in Floor |-> 0]

(* Fresh static data: num_waiting, status and the mutex are zero.          *)
Insmod ==
    /\ LoaderGoto("unloaded", "set_start")
    /\ Overlap \/ Quiet
    /\ load < MaxLoads
    /\ load' = load + 1
    /\ setup_elevator
    /\ num_waiting' = 0
    /\ status' = 0
    /\ mutex' = NoOwner
    /\ UNCHANGED <<pc, raced, localVars, delete_list, args, heapVars, stub, kthread,
                   proc_entry, target, removeVars, crashed>>

SetStub(f, from, to) ==
    /\ LoaderGoto(from, to)
    /\ stub' = [stub EXCEPT ![f] = load]
    /\ UNCHANGED <<vars, load, kthread, proc_entry, target, removeVars, crashed>>

(* A failure leaves the pointers set.                                      *)
ProcCreate ==
    /\ loader = "proc"
    /\ \/ loader' = "mutex" /\ proc_entry' = 1 /\ UNCHANGED crashed
       \/ MayFail /\ ModuleFreed /\ UNCHANGED proc_entry
    /\ UNCHANGED <<vars, load, stub, kthread, target, removeVars>>

(* thread_init_parameter: mutex_init, whoever holds the mutex already ...  *)
MutexInit ==
    /\ LoaderGoto("mutex", "kthread")
    /\ mutex' = NoOwner
    /\ UNCHANGED <<pc, raced, dataVars, load, stub, kthread, proc_entry, target, removeVars,
                   crashed>>

(* ... and kthread_run.  A failure leaves the pointers set.                *)
KthreadRun ==
    /\ loader = "kthread"
    /\ \/ /\ loader' = "live"
          /\ kthread' = "running"
          /\ UNCHANGED <<proc_entry, crashed>>
       \/ /\ MayFail
          /\ proc_entry' = 0
          /\ ModuleFreed
          /\ UNCHANGED kthread
    /\ UNCHANGED <<vars, load, stub, target, removeVars>>

elevator_init ==
    \/ Insmod
    \/ SetStub("start", "set_start", "set_issue")
    \/ SetStub("issue", "set_issue", "set_stop")
    \/ SetStub("stop", "set_stop", "proc")
    \/ ProcCreate \/ MutexInit \/ KthreadRun

-----------------------------------------------------------------------------
(***************************************************************************)
(* elevator_exit.  The mutant leaves the pointers set.                     *)
(***************************************************************************)
ClearStubMutant(f, from, to) ==
    /\ LoaderGoto(from, to)
    /\ loader = "live" => Overlap \/ Quiet
    /\ UNCHANGED <<vars, load, stub, kthread, proc_entry, target, removeVars, crashed>>

ClearStub(f, from, to) ==
    /\ LoaderGoto(from, to)
    /\ loader = "live" => Overlap \/ Quiet
    /\ stub' = [stub EXCEPT ![f] = 0]
    /\ UNCHANGED <<vars, load, kthread, proc_entry, target, removeVars, crashed>>

KthreadStop ==
    /\ LoaderGoto("kthread_stop", "kthread_wait")
    /\ kthread' = "should_stop"
    /\ UNCHANGED <<vars, load, stub, proc_entry, target, removeVars, crashed>>

(* kthread_stop returns when scheduler() has.                              *)
KthreadJoin ==
    /\ LoaderGoto("kthread_wait", "remove_lock")
    /\ kthread = "exited"
    /\ UNCHANGED <<vars, load, stub, kthread, proc_entry, target, removeVars, crashed>>

(* removeAllPassengers.                                                    *)
RemoveLock ==
    /\ LoaderGoto("remove_lock", "remove")
    /\ mutex = NoOwner
    /\ mutex' = Loader
    /\ UNCHANGED <<pc, raced, dataVars, load, stub, kthread, proc_entry, target, removeVars, crashed>>

(* The passengers aboard are added to the delete_list without being taken  *)
(* off the list they are on.                                               *)
RemoveOnboardMutant ==
    /\ LoaderGoto("remove", "remove_floors")
    /\ removed' = removed \o onboard
    /\ UNCHANGED <<vars, load, stub, kthread, proc_entry, target, cleared, crashed>>

RemoveOnboard ==
    /\ LoaderGoto("remove", "remove_floors")
    /\ removed' = removed \o onboard
    /\ onboard' = <<>>
    /\ UNCHANGED <<pc, lockVars, cabVars, flagVars, loads, status, serviced, queueVars,
                   localVars, delete_list, args, heapVars,
                   load, stub, kthread, proc_entry, target, cleared, crashed>>

(* The loop leaves out the top floor.                                      *)
LastFloorMutant == cleared + 2 = FLOORS
LastFloor == cleared + 1 = FLOORS

(* One iteration over the floors.                                          *)
RemoveFloor ==
    /\ LoaderGoto("remove_floors", IF LastFloor THEN "remove_unlock" ELSE "remove_floors")
    /\ cleared' = IF LastFloor THEN 0 ELSE cleared + 1
    /\ removed' = removed \o waiting_list[cleared + 1]
    /\ waiting_list' = [waiting_list EXCEPT ![cleared + 1] = <<>>]
    /\ UNCHANGED <<pc, lockVars, cabVars, flagVars, riderVars, waiting_on_floor,
                   num_waiting, localVars, delete_list, args, heapVars,
                   load, stub, kthread, proc_entry, target, crashed>>

(* The mutex stays locked.                                                 *)
RemoveUnlockMutant ==
    /\ LoaderGoto("remove_unlock", "remove_free")
    /\ UNCHANGED <<vars, load, stub, kthread, proc_entry, target, removeVars, crashed>>

RemoveUnlock ==
    /\ LoaderGoto("remove_unlock", "remove_free")
    /\ mutex' = NoOwner
    /\ UNCHANGED <<pc, raced, dataVars, load, stub, kthread, proc_entry, target, removeVars,
                   crashed>>

(* A signal to rmmod: nothing is removed, the mutex is released all the    *)
(* same.                                                                   *)
RemoveInterrupted ==
    /\ MayFail
    /\ mutex # NoOwner
    /\ LoaderGoto("remove_lock", "remove_unlock")
    /\ UNCHANGED <<vars, load, stub, kthread, proc_entry, target, removeVars, crashed>>

RemoveFree ==
    /\ LoaderGoto("remove_free", "proc_remove")
    /\ heap' = heap \ ToSet(removed)
    /\ removed' = <<>>
    /\ UNCHANGED <<pc, lockVars, cabVars, flagVars, riderVars, queueVars, localVars,
                   delete_list, args, allocs, load, stub, kthread, proc_entry, target,
                   cleared, crashed>>

(* mutex_destroy has no effect; the module is freed after the /proc entry. *)
ProcRemove ==
    /\ loader = "proc_remove"
    /\ proc_entry' = 0
    /\ ModuleFreed
    /\ kthread' = "none"
    /\ UNCHANGED <<vars, load, stub, target, removeVars>>

elevator_exit ==
    \/ ClearStub("start", "live", "clear_issue")
    \/ ClearStub("issue", "clear_issue", "clear_stop")
    \/ ClearStub("stop", "clear_stop", "kthread_stop")
    \/ KthreadStop \/ KthreadJoin
    \/ RemoveLock \/ RemoveOnboard \/ RemoveFloor \/ RemoveInterrupted
    \/ RemoveUnlock \/ RemoveFree \/ ProcRemove

-----------------------------------------------------------------------------
(***************************************************************************)
(* The scheduler runs from kthread_run on and looks at kthread_should_stop *)
(* at the top of its loop.                                                 *)
(***************************************************************************)
SchedulerRuns ==
    /\ \/ kthread = "running"
       \/ kthread = "should_stop" /\ pc[Scheduler] # "top"
    /\ SchedulerStep
    /\ UNCHANGED lifeVars

SchedulerExits ==
    /\ kthread = "should_stop"
    /\ pc[Scheduler] = "top"
    /\ kthread' = "exited"
    /\ UNCHANGED <<vars, loader, load, stub, proc_entry, target, removeVars, crashed>>

(***************************************************************************)
(* The system calls: test the pointer, then call through it.               *)
(***************************************************************************)
NoSys(c) ==
    /\ pc[c] = "idle" /\ target[c] = NoTarget
    /\ \E f \in Call : stub[f] = 0
    /\ UNCHANGED <<vars, lifeVars>>

TestStub(c, f) ==
    /\ Overlap \/ loader \in {"unloaded", "live"}
    /\ pc[c] = "idle" /\ target[c] = NoTarget
    /\ stub[f] # 0
    /\ target' = [target EXCEPT ![c] = [call |-> f, fn |-> stub[f]]]
    /\ UNCHANGED <<vars, loader, load, stub, kthread, proc_entry, removeVars, crashed>>

Enters(c, f) ==
    \/ f = "start" /\ StartElevator(c)
    \/ f = "issue" /\ \E r \in Request : IssueRequest(c, r)
    \/ f = "stop" /\ StopElevator(c)

(* The call returns 1: already started, not started, or bad arguments.     *)
Refused(f) ==
    /\ f = "start" => started = 1
    /\ f = "stop" => started = 0
    /\ UNCHANGED vars

(* The compiler may read the pointer once or twice.                        *)
CallStub(c) ==
    /\ target[c] # NoTarget
    /\ \E fn \in {target[c].fn, stub[target[c].call]} :
         IF fn = load /\ loader # "unloaded"
         THEN /\ Enters(c, target[c].call) \/ Refused(target[c].call)
              /\ UNCHANGED crashed
         ELSE crashed' = 1 /\ UNCHANGED vars
    /\ target' = [target EXCEPT ![c] = NoTarget]
    /\ UNCHANGED <<loader, load, stub, kthread, proc_entry, removeVars>>

CallRuns(c) == CallerStep(c) /\ UNCHANGED lifeVars

-----------------------------------------------------------------------------
(* removeAllPassengers and another thread are inside the mutex together.   *)
Collided == loader \in {"remove", "remove_floors"} /\ \E t \in Thread : InCS(t)

(* After a crash or a race the behaviour is undefined, and after a process *)
(* died with the mutex the others, rmmod too, may wait for ever.           *)
Broken == crashed = 1 \/ raced = 1 \/ Collided
Stopped == (Broken \/ Died) /\ UNCHANGED allVars

(* Whether a call is now under way while the module comes or goes, or      *)
(* elevator_init has failed.                                               *)
Observe ==
    orderly' = IF \/ loader' \notin {"unloaded", "live"} /\ ~Quiet'
                  \/ loader \in {"proc", "kthread"} /\ loader' = "unloaded"
               THEN 0 ELSE orderly

Step(action) == ~Broken /\ action /\ Observe

LoaderStep == Step(elevator_init \/ elevator_exit)
KthreadStep == Step(SchedulerRuns \/ SchedulerExits)
SyscallStep(c) == Step(CallStub(c) \/ CallRuns(c))
SyscallEntry(c) == Step(NoSys(c) \/ \E f \in Calls : TestStub(c, f))

LifeNext ==
    \/ LoaderStep
    \/ KthreadStep
    \/ \E c \in Caller : SyscallStep(c) \/ SyscallEntry(c)
    \/ Stopped

(***************************************************************************)
(* insmod and rmmod finish once begun, threads run and sleeps end, nobody  *)
(* waits for the mutex for ever.  Nobody has to load, unload or call, and  *)
(* no signal has to come, to a call or to rmmod.                           *)
(***************************************************************************)
LifeFairness ==
    /\ WF_allVars(LoaderStep /\ ~RemoveInterrupted /\ loader \notin {"unloaded", "live"})
    /\ SF_allVars(LoaderStep /\ RemoveLock)
    /\ WF_allVars(KthreadStep)
    /\ SF_allVars(KthreadStep /\ (UnloadLock \/ LoadLock))
    /\ \A c \in Caller : /\ WF_allVars(SyscallStep(c) /\ ~Signal(c))
                         /\ SF_allVars(SyscallStep(c) /\ (IssueLock(c) \/ StopLock(c)))

LifeSpec == LifeInit /\ [][LifeNext]_allVars /\ LifeFairness

-----------------------------------------------------------------------------

(* A system call only runs code of a loaded module; otherwise it returns   *)
(* an error.                                                               *)
CallsReachCode == crashed = 0

(* So it is when calls and loading do not overlap and elevator_init does   *)
(* not fail: each pointer is set and cleared in time.                      *)
OrderlyCallsReachCode == orderly = 1 => crashed = 0

(* Then nobody works on the lists beside another, removeAllPassengers      *)
(* included, unless an interrupted lock attempt releases the mutex: the    *)
(* mutex_init of each load finds it free.                                  *)
OrderlyExcludes == orderly = 1 /\ Interruptible = {} => raced = 0 /\ ~Collided

(* Then elevator_exit leaves nothing behind: all passengers are freed, the *)
(* mutex is free, scheduler() has returned, and neither a pointer nor the  *)
(* /proc entry remains, wherever the elevator was when rmmod began.        *)
LeavesNothing ==
    loader = "unloaded" /\ orderly = 1 =>
        /\ heap = {}
        /\ mutex = NoOwner
        /\ kthread = "none"
        /\ proc_entry = 0
        /\ \A f \in Call : stub[f] = 0

(* The lists that hold a passenger, with that of removeAllPassengers.      *)
RemovedList == <<"removed", 0>>
AllListName == ListName \union {RemovedList}
AllListsOf(lists, gone) == [n \in AllListName |-> IF n = RemovedList THEN gone ELSE lists[n]]
AllLists == AllListsOf(Lists, removed)

(* Every passenger structure is on one list, once, also while              *)
(* removeAllPassengers moves them to its own and calls go on (until the    *)
(* next load makes new lists and forgets what such calls left behind).     *)
StillListedOnce == orderly = 1 \/ load <= 1 => Once(AllLists, heap)

-----------------------------------------------------------------------------
(***************************************************************************)
(* The inductive invariant of loading and unloading.                       *)
(***************************************************************************)

(* How far elevator_init and elevator_exit have come shows in what they    *)
(* have set up; only a loaded module's scheduler() and calls run.          *)
PhaseInv ==
    /\ loader \in {"unloaded", "set_start", "set_issue", "set_stop", "proc", "mutex",
                  "kthread"} => kthread = "none"
    /\ loader \in {"live", "clear_issue", "clear_stop", "kthread_stop"} =>
         kthread = "running"
    /\ loader = "kthread_wait" => kthread \in {"should_stop", "exited"}
    /\ loader \in {"remove_lock", "remove", "remove_floors", "remove_unlock",
                  "remove_free", "proc_remove"} => kthread = "exited"
    /\ kthread \in {"none", "exited"} => pc[Scheduler] = "top"
    /\ proc_entry = IF loader \in {"unloaded", "set_start", "set_issue", "set_stop", "proc"}
                    THEN 0 ELSE 1
    /\ loader = "unloaded" /\ crashed = 0 => \A c \in Caller : pc[c] \in {"idle", "dead"}
    /\ load = 0 => loader = "unloaded" /\ heap = {}
    /\ loader # "remove_floors" => cleared = 0

(* Whoever owns the mutex is between locking and unlocking it.             *)
OwnerInv ==
    /\ mutex \in Thread => Holds(mutex)
    /\ mutex = Loader => loader \in {"remove", "remove_floors", "remove_unlock"}

(* A delete_list is empty but while its thread moves and frees people.     *)
DeleteInv == \A t \in Thread :
    delete_list[t] # <<>> => pc[t] \in {"unload", "unload_done", "stop_unlock", "stop_free"}

(* While all is orderly: calls are under way in a live module only, the    *)
(* pointers are set as far as elevator_init and elevator_exit have come,   *)
(* and removeAllPassengers empties list after list.                        *)
OrderInv == orderly = 1 =>
    /\ crashed = 0
    /\ MutexInv
    /\ loader # "live" => Quiet
    /\ \A c \in Caller : target[c] # NoTarget => target[c].call \in Call
                                                 /\ target[c].fn = load
    /\ stub["start"] = IF loader \in {"set_issue", "set_stop", "proc", "mutex", "kthread",
                                      "live"} THEN load ELSE 0
    /\ stub["issue"] = IF loader \in {"set_stop", "proc", "mutex", "kthread", "live",
                                      "clear_issue"} THEN load ELSE 0
    /\ stub["stop"] = IF loader \in {"proc", "mutex", "kthread", "live", "clear_issue",
                                     "clear_stop"} THEN load ELSE 0
    /\ loader \in {"remove_floors", "remove_unlock", "remove_free"} => onboard = <<>>
    /\ loader = "remove_floors" => \A f \in 1 .. cleared : waiting_list[f] = <<>>
    /\ loader \in {"remove_unlock", "remove_free"} =>
         \A f \in Floor : waiting_list[f] = <<>>
    /\ loader \in {"proc_remove", "unloaded"} => heap = {}

(* Together they are inductive, however calls, scheduler() and the loading *)
(* and unloading of the module interleave.                                 *)
LifeInv == /\ LifeTypeOK /\ CoreInv /\ PhaseInv /\ OwnerInv /\ DeleteInv /\ OrderInv
           /\ StillListedOnce

-----------------------------------------------------------------------------
(* rmmod returns: kthread_stop finds the scheduler at the top of its loop  *)
(* sooner or later and removeAllPassengers gets the mutex, whatever the    *)
(* scheduler and the calls under way were doing and without a signal to    *)
(* rmmod's help, unless a process died with the mutex or code or lists     *)
(* that a call still used are gone.                                        *)
UnloadFinishes == loader = "kthread_stop" ~> (loader = "unloaded" \/ Broken \/ Died)

=============================================================================
