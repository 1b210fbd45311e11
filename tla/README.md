# A TLA+ model of the kernel elevator

The repository is a course project on Linux 4.19: a kernel module that drives an
elevator for humans and zombies (`part3/`), the system calls in front of it
(`part3/syscall/`), a second small module that prints the time (`timer/`), and user
programs. This directory specifies it in TLA+, checks the specification with TLC on
small instances, and proves the safety properties that hold with TLAPS for instances
of every size.

## The system

| Part | Source | State | Operations |
|---|---|---|---|
| Scheduler thread | `part3/elevator.c` `scheduler`, `unloadPassengers`, `loadPassengers`, `changeElevatorState`, `moveElevator` | `elevator` (state, floors, loads, status, `onboard`), `serviced`, its local cursor and `delete_list` | one loop: unload, load, sleep, decide, sleep, move; or IDLE/OFFLINE and sleep |
| System calls | `start_elevator`, `issue_request`, `stop_elevator` | `elevator.started`, `elevator.deactiving`, `waiting_list[]`, `waiting_on_floor[]`, `num_waiting`, a local `delete_list` | run by any number of processes beside the scheduler |
| The mutex | `thread1.mutex` | its owner | taken with `mutex_lock_interruptible`, released with `mutex_unlock` |
| `/proc/elevator` | `elevator_proc_open/read/release` | globals `message`, `read_p` | a reader formats the elevator's state without taking the mutex |
| Loading and unloading | `elevator_init`, `setup_elevator`, `thread_init_parameter`, `removeAllPassengers`, `elevator_exit`; `part3/syscall/part3.c` | the `STUB_*` pointers, the kthread, the proc entry | insmod, rmmod, system calls through the pointers |
| `/proc/timer` | `timer/my_timer.c` | `t0`, `t1`, `diff`, `procfs_buf_len` | each read prints the time and the time since the last read; a write stores bytes nobody reads; loading, unloading |
| User programs | `producer.c`, `consumer.c`, `wrappers.h` | none | one system call each, whose return value they print |
| `part1/`, kernel tables | | none | |

The scheduler and the system calls share everything. The mutex protects the
passenger lists and their counters; `started` and `deactiving` are read and written
without it by all parties, and the scheduler also reads `num_waiting` and the
emptiness of `onboard` without it. `mutex_lock_interruptible` may return `-EINTR`
to a process that has a signal pending; the calls then skip the protected part and
still execute `mutex_unlock`.

What is hard about this code, and therefore what the properties are about: the order
in which several processes and the scheduler read and write the unprotected flags; a
lock attempt that fails, and an allocation that fails inside the lock; `stop_elevator` with passengers aboard; passengers moving
between five kinds of list, to be freed exactly once; an infection flag and counters
kept beside the lists they describe; the bounds at capacity and at the two end
floors; and whether everyone is served in the end. `PROJECT.json` lists these under
`hazards`, each at its line.

## Modules

* `Elevator` - the scheduler thread, the three system calls, the mutex. The
  specification, its properties and the inductive invariant `IInv`.
* `ElevatorService` - the abstract service: people wait on floors, board, ride and get
  off. `ElevatorRefinement` - the mapping under which `Elevator` implements it.
* `MCElevator` - the sets of requests and the symmetry for TLC; one `.cfg` per run.
* `ListProofs` - lemmas about the kernel's lists. `ElevatorProofs` - the theorems about
  `Elevator`. `ElevatorRefinementProofs` - the proof that it implements
  `ElevatorService`.
* `UserPrograms`, `UserProgramsProofs` - `producer` and `consumer` running side by side,
  composed with `Elevator`, and the theorems about them.
* `ElevatorModule`, `MCElevatorModule`, `ElevatorModuleProofs` - loading, unloading and
  the `STUB_*` pointers, composed with `Elevator`, and the theorems about them.
* `ElevatorProc`, `MCElevatorProc`, `ElevatorProcProofs` - readers of
  `/proc/elevator`, composed with `Elevator`, and the theorems about them.
* `MyTimer`, `MCMyTimer`, `MyTimerProofs` - processes that use `/proc/timer` and the
  theorems about them.

### Elevator

The variables have the names of the C variables. `waiting_list[f]` stands for
`waiting_list[f - 1]`. A list is a sequence of passengers; a passenger is its
structure with an `id`, the number of its `kmalloc`, in place of its address.
`heap` is the set of structures that are allocated. `pc` says where each thread is;
`temp` is the scheduler's cursor in the list it walks, `transfer` its
`unload_sleep || load_sleep`.

Steps are as fine as other threads can tell: every access to an unprotected flag or
counter is a step of its own (`start_elevator` is three steps, `stop_elevator` up to
eight), every acquisition and release of the mutex is one, and every iteration of
`unloadPassengers` and `loadPassengers` is one. In the protected part of
`issue_request` the look at `deactiving` (`IssueCheck`) is one step and the allocation,
the list and the counters (`IssueAdd`) another; that of `stop_elevator` is a single
step. Nobody looks at the lists without the mutex, and what is looked at without it
(`num_waiting`, whether `onboard` is empty) changes once in each. Sleeping is the gap
between two steps.
Calls that are refused return 1 and change nothing, so they are not steps.

`Lock`, `Interrupted` and `Unlock` model the kernel's mutex from its use: a waiter in
`Interruptible` may give up while somebody owns the mutex, and `mutex_unlock`
releases the mutex whoever owns it. The kernel's lists are undefined once two threads
change them together, so `raced` records that two threads are between lock and
unlock at once and the behaviour ends there (`Undefined`).

`issue_request` does not test what `kmalloc` returns. For a process in `Starved` it may
be NULL (`IssueOops`): the kernel kills the process on the spot, the mutex stays locked
and the process is `"dead"`. Everybody who needs the mutex then waits for ever, so the
liveness properties speak of behaviours in which it does not happen (`Sound`); the
safety properties hold after it too. `Orphaned` lets such a behaviour stop.

The model assumes that memory accesses are seen in program order by all threads.
`print_passengers` and `print_who_on_it` only print and are not called.

### ElevatorService and ElevatorRefinement

The service has no threads, mutex, flags, counters or memory: where the elevator is, who
waits on each floor in order of arrival, who is aboard, how many were served. A zombie
that boards turns everybody aboard into a zombie; the code never changes a passenger's
type and keeps `elevator.status` beside the list instead, so `Aboard` maps a list with
`status = 1` to zombies. `PutOff` is what `stop_elevator` does to passengers, and is part
of the service only where `stop_elevator` is among the calls. That the flag and the list
change at different times, that the scheduler decides on stale values, that a delete
list holds people who are neither aboard nor freed: none of it shows.
`service` checks the refinement without `stop_elevator`, `calls` with it, and
`ServiceImplemented` proves it for every instance.

### UserPrograms

`producer` draws a kind and two different floors (`ProducerRequest`) and calls
`issue_request`; `consumer` calls `start_elevator` or `stop_elevator`, or exits for wrong
arguments. A process runs one program after another. What a program does outside the
kernel nobody else sees, so entering the kernel is one step with what goes before it, and
printing is part of the step in which the call returns (`PrintsZero`). Four ghosts record
what a program cannot see: whether somebody else's start or stop ran beside its call
(`met`), whether its wait for the mutex was cut short (`cut`), whether its passenger was
put on a list (`added`), and whether a wait was cut short since the mutex was last at
rest (`disturbed`). The module is taken to be loaded; `ElevatorModule` has the calls that meet a missing one. A signal that kills a
program outside the kernel changes nothing the others see.

### ElevatorModule

Extends `Elevator` and takes its steps as they are: the scheduler's while the kthread
exists, a call's once it got through its pointer. One process runs insmod and rmmod;
`loader` says where it is in `elevator_init` or `elevator_exit`. `stub[f]` is the
number of the load that `STUB_f` points into, 0 for NULL, so that a pointer into an
earlier load can be told from one into the present load. A call tests the pointer in
one step and calls through it in the next (the compiler may read it once or twice).
`crashed` is set when a call goes to code that is not loaded, and when the module is
freed while somebody is inside a call and will return to it; `raced` is that of
`Elevator`, and `Collided` says that `removeAllPassengers` and a thread are inside the
mutex together. After any of them (`Broken`) nothing is defined and nothing happens.

`removeAllPassengers` moves one list at a time to its `delete_list` (`removed`), first
those aboard and then floor after floor (`cleared` is its `i`), and frees them after it
has unlocked. It leaves `num_waiting`, `waiting_on_floor` and `loads` as they are; the
next load starts with counters at 0 and empty lists, whatever was on them.

With `Overlap = FALSE` no call is under way while the module comes or goes, which is
the intended use; `orderly` records whether a behaviour with `Overlap = TRUE` was like
that and no load failed. `MayFail` lets `proc_create`, `kthread_run` and rmmod's wait
for the mutex fail.
`mutex_init` releases the mutex, whoever holds it: the calls are open before it. What
a second process finds when it waits on the mutex before `mutex_init` is not modelled,
and the runs have one process. The process may die with the mutex (`Starved`); rmmod then
waits until a signal ends its wait, which need not come, and `UnloadFinishes` leaves such
behaviours out. `kthread_should_stop` is read together with
`num_waiting`, at the top of the loop. `mutex_destroy` does nothing without mutex
debugging.

### ElevatorProc

Extends `Elevator`, whose steps it leaves as they are, with processes that open, read
and close `/proc/elevator` as `cat` does, or close it early. `message` is the number of the buffer it
points to, `buffers` those allocated. `broken` is set by the use or release of a buffer
that is free, `strayed` when a reader's cursor is at an entry that has left the list.
Of the text the rows are kept: `owed` is the number a row shows less the marks made so
far, and `busy` records that somebody was in the mutex while the row was formatted.
`shared` is set when a second process opens the file before the first has closed it:
then they share one `message` and one `read_p`, one frees the other's buffer, and the
claims about both end there. `kfree(NULL)` does nothing, so a failed open is harmless to
who closes later. A step of `Elevator` under the mutex is one step
for readers too, although they do not take the mutex: the code has more races with
readers than the model. What holds, holds of `message` and `read_p`, and of rows during
which nobody was in the mutex.

### MyTimer

`procfile_read` and `procfile_write`, for any number of processes that share the static
`t0`, `t1`, `diff` and `procfs_buf_len`, with opening and closing the file, `timer_init`
(which may fail) and `timer_exit`. Each statement that touches the shared variables is a
step, except that lines 36-46, which compute `diff`, are one. A second has
`RADIX ^ DIGITS` units (`10 ^ 9` in the code). `current_kernel_time` is the time of day,
which may be set: every call of it may return any time of `Clock`, an earlier one too.
Lengths count lines: a text has one or two, and `msg` holds `BUF_LEN`.

Calls that overlap take each other's times and length. The ghosts say when that is so:
`disturbed[r]` that a call on the file of `r` overlapped another process's since it was
opened, `settled` that nothing overlapped the read that showed the previous time, which
is `last`; `texts[r]` counts the texts since open. The properties speak of processes and
previous reads that nobody disturbed, beside others that may do anything.

A read is refused at the end of the file (`*ppos > 0`), for a buffer that is too small,
or when the copy fails. `proc_remove` waits for operations under way; a file that stays
open is `"stale"` and no longer reaches the module. The bytes written to `msg` are only
printed and are left out. `ReadsAs` is what the text printed by `"%ld.%ld"` says as a
number.

### Mutants

Names that end in `Mutant` are deliberate mistakes, not used by any specification.
Replacing the definition that follows by its mutant makes TLC report the property
named with it in `PROJECT.json`, which shows that the property depends on that
line of code.

### Fairness

`FairSpec` adds: the scheduler and a process inside a system call go on when they
can (the kernel schedules runnable threads and `ssleep` ends) - weak fairness; and
who waits for the mutex is not passed over for ever - strong fairness of the
acquisitions, which the 4.19 mutex gives by handing the mutex to a waiter that was
woken once in vain. `UserPrograms` and `ElevatorModule` assume the same of their steps. No process has to make
a system call. No signal has to come: weak fairness is of the steps other than those in
which a wait is cut short (`Signal`, and `RemoveInterrupted` of rmmod), so a mutex that
is never released keeps its waiters for ever.

## Runs

| Run | Instance | Checks | Result |
|---|---|---|---|
| `service` | 3 floors, capacity 2, one process that starts and issues, 3 requests out of 7 kinds, fairness | types, `LoadsExact`, `WaitingTotal`, `HumansAvoidZombies`, `BoardsInOrder`, `EveryoneDelivered`, `ImplementsService` | hold |
| `calls` | 3 floors, capacity 2, two interruptible and starved processes making all calls, 3 requests | `CapacityRespected`, `Accounting`, `ListedOnce`, `AcceptsWhenStarted`, `SweepsFloors`, `RestsWhenEmpty`, `ImplementsService`, `IInv` | hold, up to the first race |
| `programs` | 2 floors, capacity 1, two processes running the user programs, one interruptible, one starved, 1 request of 4 kinds, fairness | `RacesNeedSignal`, `AnswersTrue`, `SchedulerReturns`, `CallsReturn`, `StopsInTheEnd` | hold |
| `race` | 2 floors, two interruptible processes, 2 requests | `LockExcludes` | violated |
| `stop_accept` | two processes, all calls | `NoAcceptWhenStopped` | violated |
| `restart_starves` | one process, all calls, fairness | `EveryoneBoards` | violated |
| `module_life` | 2 floors, one starved process, 1 request, loaded twice, overlap and failures, fairness | types, `OrderlyCallsReachCode`, `OrderlyExcludes`, `LeavesNothing`, `StillListedOnce`, `LifeInv`, `UnloadFinishes` | hold |
| `module_failed_load` | failures, no overlap | `CallsReachCode` | violated |
| `proc_readers` | 2 floors, one process that starts and issues, 2 requests, two readers, 2 opens | types, `MessageFreedOnce`, `TextOnce`, `RowAddsUp`, `ProcInv` | hold |
| `proc_walk` | the same, 1 request, one reader | `WalkStays` | violated |
| `timer_calls` | two processes, 3 times of day in two seconds of 2 units, buffers of 0 and 3 lines, `BUF_LEN` 2 | types, `ElapsedExact`, `ElapsedShown`, `WholeTextOnce`, `TimerInv` | hold |
| `timer_print` | one process, every time of 3 seconds of 4 units | `PrintedExactly` | violated |

The violated properties are what the project description, the README or a comment
says of the program; `PROJECT.json` quotes them under `findings`:

* `race`: a call whose lock attempt was interrupted unlocks the mutex of another
  thread.
* `stop_accept` takes two processes. The first, in `start_elevator`, has set `started`
  (line 101) but not yet cleared `deactiving` (line 102). The second calls
  `stop_elevator`, which sets `deactiving`; the first now clears it, returns, and calls
  `issue_request`, which still reads `started` as 1. The second clears `started` and
  returns; the first finds `deactiving` 0 at line 132 and accepts. The scheduler's reset
  of `deactiving` at line 398 gives the same end by another way. `NoAcceptWhenStopped`
  only counts a request accepted when all other calls have returned and `started` is 0.
* `restart_starves`: `stop_elevator` takes the passengers off `onboard` at once and
  leaves `loads` and `status` as they were. The load never returns to 0, the infection
  is never reset, and after a restart humans are never let aboard.
* `module_failed_load`: `elevator_init` sets the `STUB_*` pointers first and leaves
  them set when it fails.
* `proc_walk`: a reader follows a passenger who boards out of the floor's list.
* `timer_print`: `"%ld.%ld"` drops the leading zeros of the fraction.

Several passing properties carry the condition under which the code meets them, and
fail without it:

* `LoadsExact` fails once `stop_elevator` is called with somebody aboard: `loads` goes on
  counting who was freed, against the comment of line 51. `Accounting` holds because of
  that: the total adds up, its parts need not say who is where.
  `StopsInTheEnd` assumes that this never happened, since an elevator with such a load
  and a waiting passenger moves for ever without loading. The scheduler never looks at
  `started` before it loads, so a stopped elevator serves everybody who waits before it
  goes OFFLINE (`src/README.md` lists this as a known bug).
* `EveryoneDelivered` assumes that the requests cease (`Ceases`): `MaxRequests` ends them
  here. `elevator.status` is reset only when the elevator is empty, so zombies that go on
  coming may keep it infected for ever, and a human then waits for ever.
* `SchedulerReturns`, `CallsReturn`, `StopsInTheEnd` and `UnloadFinishes` assume that no
  process died with the mutex and that no two threads met inside it.
* `LeavesNothing`, `OrderlyExcludes` and `OrderlyCallsReachCode` assume that no call is
  under way while the module comes or goes: a call that is may run into freed code, lose
  the mutex to `mutex_init`, or add a passenger after they were removed. `StillListedOnce`
  holds beside such calls too, until the next load forgets whom they left behind.
* `MessageFreedOnce` and `TextOnce` end at the first two opens that overlap, `RowAddsUp`
  leaves out rows during which somebody was in the mutex, and `ElapsedExact`,
  `ElapsedShown` and `WholeTextOnce` leave out calls that another overlapped.
* `AnswersTrue` leaves out calls beside which somebody else started or stopped the
  elevator (`issue_request` returns 0 when it finds `deactiving` set and drops the
  passenger) and those whose wait a signal cut short: `issue_request` returns 0 although
  it added nobody.
* `ElapsedShown` leaves out a previous read on a whole second, which line 27 of
  `my_timer.c` takes for no read.

### Bounds

`MaxRequests` bounds the passengers ever created, counting requests under way; it is
the only bound in the guards of `Elevator`. Three floors are the least with a floor that is
neither lobby nor top. Capacity 2 with three requests lets the elevator fill up with
somebody left behind, and lets a human and a zombie wait on one floor with one more
of either kind behind them. Two processes are the least with which system calls
overlap each other and the scheduler; the two are interchangeable, which `calls`
uses as a symmetry (it checks no liveness; both are interruptible). `MixedRequests` has a request to stay on
the floor and requests that `issue_request` refuses.

`MaxLoads` and `MaxOpens` bound how often the module is loaded and the file opened:
twice lets what one use left behind meet the next. Two readers of `/proc/elevator` open
it once each or one of them twice, in turn or together. In `MyTimer` three times of day,
`1.1`, `2.0` and `2.1`, give a borrow and a difference without one, a difference of a
whole second, a previous read on a whole second, and the clock set back; buffers of 0 and 3 lines are
too small for any text and larger than `BUF_LEN`. There `MaxRequests` has no counterpart:
processes use the file as often as they like. `timer_print` has four units a second, for
a fraction with a leading zero. The readers of either file are interchangeable, a
symmetry of runs without liveness. In `programs` one request is enough for a call of each
kind to overlap another and the scheduler at every step; the four kinds of passenger and
direction are all that `producer` can ask for on two floors; order, infection and
capacity are the business of `service` and `calls`.

## Proofs

`ElevatorProofs` proves, for any number of floors from 2, any capacity from 1, any
set of processes, requests, signals and any `MaxRequests`:

* `Invariance`: `Spec => []IInv`;
* `TypeCorrect`, `CapacityHolds`, `AccountingHolds`, `WaitingTotalHolds`: invariants of
  the runs; `MutualExclusion`: without signals no two threads meet inside the mutex;
* `HumansAvoidZombiesHolds`, `BoardsInOrderHolds`, `SweepsFloorsHolds`,
  `RestsWhenEmptyHolds`: the action properties;
* `AcceptsWhenStartedHolds`: a started elevator does not stay deactivating;
* `ListedOnceHolds`: every passenger structure is on one list, once;
* `LoadsExactHolds`: where `stop_elevator` is not among the calls (the code breaks it
  with it, see above), the load is the number of passengers aboard.

They rest on the named assumptions of `Elevator`: `FloorsAssumption`,
`CapacityAssumption`, `ThreadAssumption` (the scheduler is no caller, nobody is
called `NoOwner`, only callers are interruptible or starved) and `RequestAssumption` (requests are triples of integers).

`IInv` has to say more than the properties, because:

* the capacity bound needs `Len(onboard) <= loads` and not equality, since
  `stop_elevator` breaks equality; unloading then cannot make `loads` negative;
* boarding decrements `num_waiting`, which stays a natural number only because it
  counts the places on all the lists (`WaitingTotal`, with the places finite);
* no human with a zombie needs that `status = 0` implies no zombie aboard
  (`StatusInv`). `status` is reset when `loads = 0`, which implies that nobody is
  aboard because `loads` is never too small;
* boarding in order needs that each floor's list is sorted by arrival (`QueueInv`)
  and that whoever the cursor has passed still cannot board (`CursorInv`). The
  latter holds because nobody else changes that list during the walk, which is
  `MutexInv`;
* sweeping needs that `next_floor` adjoins `current_floor` and that `moveElevator`
  is entered with `state` pointing to it (`CabInv`);
* resting needs that nobody boards between the test and the new `state`
  (`RestInv`);
* a new passenger is none of those on the lists because `kmalloc` has not returned its
  address before (`HeapInv`).

`MutexInv` distinguishes the two cases: without interruptible processes the mutex
owner is the only thread between lock and unlock; with them, two threads may meet,
but not without `raced` being set in that step, so that the remaining conjuncts are
proved for every step that starts in an undamaged state.

`ListedOnce` says that the heap is exactly what stands at the places of all lists, and
that no two places hold the same structure. `ListProofs` defines the operations the
code uses on lists (`ListOp`: one entry moves to the end of another list, a whole list
does, a fresh structure is added, all of a list is freed) and proves in `OnceStep` that
each keeps this, for any family of lists: the first two by a bijection between the
places before and after. `ElevatorProofs` then shows that every step is a `ListOp`. That
needs no more than `CoreInv`, the part of `IInv` that says that the lists are well
formed and that the cursor and the cab are where they can be. `CoreInv` is inductive by
itself, without the counters and the order of queues.

`ElevatorModuleProofs` uses that: `Accounting` and `WaitingTotal` are broken by
`removeAllPassengers` and by a load that counts anew, `CoreInv` and the list operations
are not. It proves, for any number of loads, processes,
floors and failures, calls overlapping or not:

* `LifeInvariance`: `LifeSpec => []LifeInv`, with `LifeTypeCorrect`;
* `OrderlyCallsReachCodeHolds`, `OrderlyExcludesHolds`, `LeavesNothingHolds`: the
  promises to those who do not call while the module comes or goes, with any scheduler
  and any passengers aboard;
* `StillListedOnceHolds`: the lists of `Elevator` and that of `removeAllPassengers`
  together hold each structure once.

`LifeInv` adds to `CoreInv`: `PhaseInv`, which ties kthread, `/proc` entry and processes
to the progress of `elevator_init` and `elevator_exit`; `OwnerInv`, that the owner of
the mutex is between lock and unlock, so that nobody owns it when everybody is outside
(the converse fails: `mutex_init` and interrupted calls release other people's mutex);
`DeleteInv`, that a thread outside holds no passengers; and `OrderInv`, what holds while
all is orderly: the pointers, `MutexInv`, and how many lists `removeAllPassengers` has
emptied. `LeavesNothing` then follows: `scheduler()` has returned and no process is
inside, so rmmod finds the mutex free and cannot be interrupted, all lists but its own
are empty when it frees that one, and by `StillListedOnce` there is nothing else.

`UserProgramsProofs` proves `ProgramsRunElevator` (`UserSpec => Spec`), hence
`ProgramsServed`, and, for any signals:

* `AnswersTrueHolds`: a call that nobody else's start or stop met finds `started` as its
  own steps left or tested it (`AnswerInv`), and a started elevator does not deactivate
  (`AcceptsWhenStarted`), so `issue_request` adds its passenger unless it did not get the
  mutex;
* `RacesNeedSignalHolds`: two threads meet inside the mutex only if a wait was cut short
  since the mutex was last at rest. As long as none was, whoever is inside owns the mutex
  (`DisturbedInv`), and when everybody is out again it is free, whoever unlocked it.

`ElevatorRefinementProofs` proves `ServiceImplemented`: `Spec => ImplementsService`, under
the same assumptions. Only five kinds of step are visible to the service. A request is an
arrival. A boarding needs `CursorInv` (whom the cursor passed is of another kind or the
elevator is full), `StatusInv` (status 0 means no zombie aboard) and
`Len(onboard) <= loads` (room by the counter is room on the list). Getting off is at the
destination by the test of `unloadPassengers`. When `unloadPassengers` resets `status`
nobody is aboard, again because `loads` is never too small. `moveElevator` goes to an
adjoining floor by `CabInv`. `StopCalled` says that only a process that called
`stop_elevator` puts people off.

`MyTimerProofs` proves `TimerTypeCorrect`, `ElapsedIsExact`, `ElapsedIsShown` and
`WholeTextOnceHolds` for any number of processes, any resolution, any times of day and
any lengths. `TimerInv` says that a process in a call that nobody disturbed is alone in
one (`CallInv`), that a settled `t0` is the time the last successful read since loading
showed, or will be after `Save` (`PrevInv`), that its text was computed from `t0` and
`t1` (`TextInv`), and that from line 56 on `procfs_buf_len` is that text's length and a
file's position tells whether its text was read (`LenInv`). Each step keeps this for the
process that takes it, because the shared variables are its own while nobody else is in
a call, and for the others, because a step inside a call beside theirs disturbs them;
`MinusExact` is the arithmetic of the borrow.

`ElevatorProcProofs` proves `ProcInvariance`, `MessageFreedOnceHolds` and `TextOnceHolds`
for any set of readers beside any elevator: until two are at the file together, `ProcInv`
ties `buffers` and `message` to whether somebody has the file open, and `read_p` to
whether that process has had the text. It also proves `ReadersOnlyRead`
(`ProcSpec => Spec`) and, for any finite set of readers, `ProcTypeCorrect` and
`RowAddsUpHolds`: a floor's counter is the length of its list by `Accounting`, only a
thread in the mutex changes either, and the marks a row still owes are the entries from
the cursor on (`RowInv`).

Model-checked only: the liveness properties `EveryoneDelivered`, `SchedulerReturns`,
`CallsReturn`, `StopsInTheEnd` and `UnloadFinishes`, since TLAPS does not reason about
fairness here. Every invariant and action property of the passing runs is proved.

## Not modelled, and the plan

1. `start_elevator` against its description, which asks for floor 1, load 0 and IDLE.
2. The safety half of the liveness properties as theorems: that a scheduler at rest has
   nobody to serve, and that whoever waits for the mutex waits for a thread that can run.
3. What readers of `/proc/elevator` are promised while the module is unloaded.

Left out for good: `part1/` (two programs without state), the kernel's system call
tables (declarations), debug printing, the contents of `msg`, the local buffer `temp` of
`elevator_proc_open` (lost when the message cannot be allocated), and the wording and
length of the text of `/proc/elevator`.
