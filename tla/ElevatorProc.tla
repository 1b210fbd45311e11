---------------------------- MODULE ElevatorProc ----------------------------
(***************************************************************************)
(* /proc/elevator (elevator_proc_open, elevator_proc_read,                 *)
(* elevator_proc_release) read by any number of processes beside the       *)
(* scheduler and the system calls of Elevator.  The file's operations take *)
(* no lock: message and read_p are shared by all readers, and open walks   *)
(* the waiting lists while others change them.                             *)
(*                                                                         *)
(* Of the text only the rows' numbers and marks are kept, and the walks    *)
(* over the floors' lists that format them.  What Elevator does under the  *)
(* mutex in one step a reader could see half done; the model has fewer     *)
(* races with readers than the code, not others.                           *)
(***************************************************************************)
EXTENDS Elevator

CONSTANTS
    Reader,         \* the processes that read /proc/elevator
    MaxOpens        \* bound on the number of times the file is opened

ASSUME OpensAssumption == MaxOpens \in Nat

VARIABLES
    rpc,            \* where each reader is
    message,        \* the buffer message points to, 0 for NULL
    buffers,        \* the buffers allocated and not yet freed
    opens,          \* how many buffers were allocated so far
    read_p,         \* read_p
    row,            \* the floor whose row a reader is formatting
    tempList,       \* its cursor in that floor's list; NoCursor at the head
    owed,           \* the number in its row, less the marks made so far
    texts,          \* how often it got the text since it opened, 2 for more
    broken,         \* 1 once a reader used or freed a buffer that is free
    strayed,        \* 1 once a reader followed an entry that left the list
    busy,           \* ghost: somebody was in the mutex during a reader's row
    shared          \* ghost: two readers have been at the file together

rowVars == <<row, tempList, owed>>
procVars == <<rpc, message, buffers, opens, read_p, rowVars, texts, broken, strayed>>
allVars == <<vars, procVars, busy, shared>>

NoCursor == [id |-> 0]

ReaderLabel == {"closed", "alloc", "row", "first", "walk", "open", "reading", "eof"}

ProcTypeOK ==
    /\ rpc \in [Reader -> ReaderLabel]
    /\ message \in 0 .. MaxOpens
    /\ buffers \subseteq 1 .. MaxOpens
    /\ opens \in 0 .. MaxOpens
    /\ read_p \in {0, 1}
    /\ row \in [Reader -> 0 .. FLOORS]
    /\ tempList \in [Reader -> Passenger \union {NoCursor}]
    /\ owed \in [Reader -> Int]
    /\ texts \in [Reader -> 0 .. 2]
    /\ busy \in [Reader -> BOOLEAN]
    /\ shared \in BOOLEAN
    /\ broken \in {0, 1}
    /\ strayed \in {0, 1}

ProcInit ==
    /\ Init
    /\ rpc = [r \in Reader |-> "closed"]
    /\ message = 0
    /\ buffers = {}
    /\ opens = 0
    /\ read_p = 0
    /\ row = [r \in Reader |-> 0]
    /\ tempList = [r \in Reader |-> NoCursor]
    /\ owed = [r \in Reader |-> 0]
    /\ texts = [r \in Reader |-> 0]
    /\ busy = [r \in Reader |-> FALSE]
    /\ shared = FALSE
    /\ broken = 0
    /\ strayed = 0

ReaderGoto(r, from, to) ==
    /\ rpc[r] = from
    /\ rpc' = [rpc EXCEPT ![r] = to]

(* strcat, strlen and copy_to_user need a buffer that is allocated.        *)
UseMessage == broken' = IF message \in buffers THEN broken ELSE 1

-----------------------------------------------------------------------------
(***************************************************************************)
(* elevator_proc_open.  The first mutant does not reset read_p, the second *)
(* begins one floor too high.                                              *)
(***************************************************************************)
OpenStartMutant(r) ==
    /\ ReaderGoto(r, "closed", "alloc")
    /\ opens + Cardinality({s \in Reader : rpc[s] = "alloc"}) < MaxOpens
    /\ UNCHANGED <<message, buffers, opens, read_p, rowVars, texts, broken, strayed>>

OpenStart(r) ==
    /\ ReaderGoto(r, "closed", "alloc")
    /\ opens + Cardinality({s \in Reader : rpc[s] = "alloc"}) < MaxOpens
    /\ read_p' = 1
    /\ UNCHANGED <<message, buffers, opens, rowVars, texts, broken, strayed>>

OpenAllocMutant(r) ==
    /\ ReaderGoto(r, "alloc", "row")
    /\ opens' = opens + 1
    /\ message' = opens + 1
    /\ buffers' = buffers \union {opens + 1}
    /\ row' = [row EXCEPT ![r] = FLOORS + 1]
    /\ texts' = [texts EXCEPT ![r] = 0]
    /\ UNCHANGED <<read_p, tempList, owed, broken, strayed>>

(* The message with its header, of which nothing is kept here.             *)
OpenAlloc(r) ==
    /\ ReaderGoto(r, "alloc", "row")
    /\ opens' = opens + 1
    /\ message' = opens + 1
    /\ buffers' = buffers \union {opens + 1}
    /\ row' = [row EXCEPT ![r] = FLOORS]
    /\ texts' = [texts EXCEPT ![r] = 0]
    /\ UNCHANGED <<read_p, tempList, owed, broken, strayed>>

(* -ENOMEM: the file is not opened.                                        *)
OpenFails(r) ==
    /\ ReaderGoto(r, "alloc", "closed")
    /\ message' = 0
    /\ UNCHANGED <<buffers, opens, read_p, rowVars, texts, broken, strayed>>

(* The entry behind the i-th.  The mutant stops before the last one.       *)
FollowingMutant(list, i) == IF i + 1 < Len(list) THEN list[i + 1] ELSE NoCursor
Following(list, i) == IF i < Len(list) THEN list[i + 1] ELSE NoCursor

(* How many wait on the floor, by its counter.                             *)
RowNumber(r) ==
    /\ ReaderGoto(r, "row", "first")
    /\ owed' = [owed EXCEPT ![r] = waiting_on_floor[row[r]]]
    /\ UNCHANGED <<message, buffers, opens, read_p, row, tempList, texts, broken,
                   strayed>>

(* The first entry of the floor's list.                                    *)
RowFirst(r) ==
    /\ ReaderGoto(r, "first", "walk")
    /\ tempList' = [tempList EXCEPT ![r] = Following(waiting_list[row[r]], 0)]
    /\ UNCHANGED <<message, buffers, opens, read_p, row, owed, texts, broken,
                   strayed>>

(* One mark, and on to the entry behind it.  An entry that has left the    *)
(* list leads into another list, or is free.                               *)
RowMark(r) ==
    /\ rpc[r] = "walk"
    /\ tempList[r] # NoCursor
    /\ owed' = [owed EXCEPT ![r] = @ - 1]
    /\ LET list == waiting_list[row[r]]
       IN  \/ \E i \in DOMAIN list :
                /\ list[i] = tempList[r]
                /\ tempList' = [tempList EXCEPT ![r] = Following(list, i)]
                /\ UNCHANGED strayed
           \/ /\ tempList[r] \notin ToSet(list)
              /\ strayed' = 1
              /\ UNCHANGED tempList
    /\ UNCHANGED <<rpc, message, buffers, opens, read_p, row, texts, broken>>

(* The row joins the message; the next floor down, or the end of open.     *)
RowEnd(r) ==
    /\ tempList[r] = NoCursor
    /\ ReaderGoto(r, "walk", IF row[r] > 1 THEN "row" ELSE "open")
    /\ row' = [row EXCEPT ![r] = @ - 1]
    /\ owed' = [owed EXCEPT ![r] = 0]
    /\ UseMessage
    /\ UNCHANGED <<message, buffers, opens, read_p, tempList, texts, strayed>>

(***************************************************************************)
(* elevator_proc_read: every other call since open returns the text.  The  *)
(* mutant does not alternate.                                              *)
(***************************************************************************)
ReadToggleMutant(r) ==
    /\ ReaderGoto(r, "open", "reading")
    /\ UseMessage
    /\ read_p' = 0
    /\ UNCHANGED <<message, buffers, opens, rowVars, texts, strayed>>

ReadToggle(r) ==
    /\ ReaderGoto(r, "open", "reading")
    /\ UseMessage
    /\ read_p' = 1 - read_p
    /\ UNCHANGED <<message, buffers, opens, rowVars, texts, strayed>>

ReadText(r) ==
    /\ ReaderGoto(r, "reading", "open")
    /\ read_p = 0
    /\ UseMessage
    /\ texts' = [texts EXCEPT ![r] = IF @ < 2 THEN @ + 1 ELSE 2]
    /\ UNCHANGED <<message, buffers, opens, read_p, rowVars, strayed>>

ReadEnd(r) ==
    /\ ReaderGoto(r, "reading", "eof")
    /\ read_p = 1
    /\ UNCHANGED <<message, buffers, opens, read_p, rowVars, texts, broken, strayed>>

(* elevator_proc_release, at the end of the file or before.  kfree(NULL)   *)
(* does nothing.                                                           *)
ReleaseMutant(r) ==
    /\ rpc[r] \in {"open", "eof"}
    /\ rpc' = [rpc EXCEPT ![r] = "closed"]
    /\ UNCHANGED <<message, buffers, opens, read_p, rowVars, texts, broken, strayed>>

Release(r) ==
    /\ rpc[r] \in {"open", "eof"}
    /\ rpc' = [rpc EXCEPT ![r] = "closed"]
    /\ broken' = IF message \in buffers \union {0} THEN broken ELSE 1
    /\ buffers' = buffers \ {message}
    /\ UNCHANGED <<message, opens, read_p, rowVars, texts, strayed>>

-----------------------------------------------------------------------------
(* Whether somebody is in the mutex while a reader formats a row, and      *)
(* whether a second reader comes before the first has closed the file.     *)
Locked == \E t \in Thread : InCS(t)
Overlap == \E r, s \in Reader : r # s /\ rpc[r] # "closed" /\ rpc[s] # "closed"
Observe ==
    /\ busy' = [r \in Reader |-> /\ rpc'[r] \in {"first", "walk"}
                                 /\ busy[r] \/ Locked \/ Locked']
    /\ shared' = (shared \/ Overlap')

Defined == raced = 0 /\ broken = 0 /\ strayed = 0

ElevatorStep ==
    /\ Defined
    /\ SchedulerStep \/ \E c \in Caller : CallerEnters(c) \/ CallerStep(c)
    /\ UNCHANGED procVars
    /\ Observe

(* A process reads the file as cat does: until a read returns 0.           *)
ReaderStep(r) ==
    /\ Defined
    /\ \/ OpenStart(r) \/ OpenAlloc(r) \/ OpenFails(r)
       \/ RowNumber(r) \/ RowFirst(r) \/ RowMark(r) \/ RowEnd(r)
       \/ ReadToggle(r) \/ ReadText(r) \/ ReadEnd(r) \/ Release(r)
    /\ UNCHANGED vars
    /\ Observe

UndefinedProc == ~Defined /\ UNCHANGED allVars

ProcNext == ElevatorStep \/ (\E r \in Reader : ReaderStep(r)) \/ UndefinedProc

ProcSpec == ProcInit /\ [][ProcNext]_allVars

-----------------------------------------------------------------------------

(* However often the file is opened and by whom: until one process opens   *)
(* it before another has closed it, elevator_proc_read and _release never  *)
(* use a message that was freed, and when all have closed no buffer is     *)
(* left over.  message is one pointer for all of them, so an open that     *)
(* overlaps another is what it takes to free a buffer twice or lose one.   *)
MessageFreedOnce == ~shared =>
    /\ broken = 0
    /\ (\A r \in Reader : rpc[r] = "closed") => buffers = {}

(* Up to the same overlap, a process that reads to the end of the file     *)
(* gets the text exactly once, although read_p is one flag for all and the *)
(* process before it may have closed the file after one read.              *)
TextOnce == ~shared => \A r \in Reader :
    /\ texts[r] <= 1
    /\ rpc[r] = "eof" => texts[r] = 1

(* A row of the text shows as many marks as its number says, although the  *)
(* number is a counter and the marks are the list's entries, read one      *)
(* after the other without the mutex, unless somebody was in the mutex     *)
(* while the row was formatted.                                            *)
RowAddsUp == \A r \in Reader :
    rpc[r] = "walk" /\ tempList[r] = NoCursor /\ ~busy[r] => owed[r] = 0

(* A reader that walks a floor's list stays on it.                         *)
WalkStays == strayed = 0

-----------------------------------------------------------------------------
(***************************************************************************)
(* The inductive invariant, up to the first overlap of two readers.        *)
(***************************************************************************)

(* While the file is open its buffer is the only one and message points to *)
(* it.                                                                     *)
BufferInv ==
    buffers = IF \E r \in Reader : rpc[r] \notin {"closed", "alloc"} THEN {message} ELSE {}

(* read_p says whether the text was read.                                  *)
ToggleInv == \A r \in Reader :
    /\ texts[r] \in {0, 1}
    /\ rpc[r] \in {"row", "first", "walk"} => texts[r] = 0
    /\ rpc[r] \in {"alloc", "row", "first", "walk"} => read_p = 1
    /\ rpc[r] = "open" => read_p = 1 - texts[r]
    /\ rpc[r] = "reading" => read_p = texts[r]
    /\ rpc[r] = "eof" => texts[r] = 1

(* As long as the readers take turns these are inductive over every step   *)
(* of a reader and of the elevator: the buffer of elevator_proc_open and   *)
(* the toggle of elevator_proc_read are in the state that the one process  *)
(* at the file expects, whoever was there before.                          *)
ProcInv ==
    /\ rpc \in [Reader -> ReaderLabel]
    /\ texts \in [Reader -> 0 .. 2]
    /\ read_p \in {0, 1}
    /\ shared \in BOOLEAN
    /\ ~shared => ~Overlap /\ broken = 0 /\ BufferInv /\ ToggleInv

=============================================================================
