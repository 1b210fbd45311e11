------------------------------ MODULE MyTimer ------------------------------
(***************************************************************************)
(* The /proc/timer module (timer/my_timer.c): procfile_read and            *)
(* procfile_write, run by any number of processes at once, and loading and *)
(* unloading.  The times t0, t1 and diff and the length procfs_buf_len are *)
(* static, so all processes share them; no lock protects them.  A step is  *)
(* one of the statements that touches them, with lines 36-46 taken as one, *)
(* so calls that overlap do no more here than in the code; what is claimed *)
(* is claimed of calls that no other overlaps.                             *)
(*                                                                         *)
(* Lengths count lines: a text of procfile_read has one or two.            *)
(***************************************************************************)
EXTENDS Integers

CONSTANTS
    Reader,     \* the processes that use /proc/timer
    RADIX,      \* the base printf writes numbers in (10 in the code)
    DIGITS,     \* digits of a full fraction of a second (9 in the code)
    Clock,      \* the times of day that current_kernel_time() may return
    Count,      \* the sizes of the processes' buffers
    BUF_LEN     \* size of msg

NSEC == RADIX ^ DIGITS      \* tv_nsec units in a second

(* struct timespec; a static one starts as zero.                           *)
Time == [sec : Nat, nsec : 0 .. NSEC - 1]
Zero == [sec |-> 0, nsec |-> 0]
NoTime == [sec |-> 0, nsec |-> -1]

ASSUME ClockAssumption == NSEC \in Nat \ {0} /\ Clock \subseteq Time
ASSUME LengthAssumption == Count \subseteq Nat /\ BUF_LEN \in Nat /\ BUF_LEN >= 2

(* What lines 36-46 make of two of them: seconds may be negative.          *)
Span == [sec : Int, nsec : Int]

(* A time in tv_nsec units.                                                *)
Value(t) == t.sec * NSEC + t.nsec

VARIABLES
    loaded,     \* whether the module is loaded
    procfs_buf_len, \* the length of a text to copy
    t0,         \* the previous time
    t1,         \* the current time
    diff,       \* the time between them
    pc,         \* where each reader is
    first,      \* whether it found no previous time
    text,       \* what it has formatted so far
    ppos,       \* each open file's position
    texts,      \* ghost: how often its process got a text since open, 2 for more
    last,       \* ghost: the time the last successful read showed
    disturbed,  \* ghost: whether a call on a file overlapped another process's
    settled     \* ghost: whether no call overlapped the one that showed last

statics == <<t0, t1, diff>>
ghosts == <<texts, last>>
overlaps == <<disturbed, settled>>
vars == <<loaded, procfs_buf_len, statics, pc, first, text, ppos, ghosts,
          overlaps>>

(* Outside and inside procfile_read; stale is a file of a module that is   *)
(* gone.                                                                   *)
Resting == {"closed", "idle", "stale", "write"}
Reading == {"stamp", "current", "diff", "elapsed", "len", "check", "copy", "save",
            "pos"}

Text == [current : Time \union {NoTime}, elapsed : Span]
NoText == [current |-> NoTime, elapsed |-> NoTime]
TextLen(t) == IF t.elapsed = NoTime THEN 1 ELSE 2

TypeOK ==
    /\ loaded \in BOOLEAN
    /\ procfs_buf_len \in 0 .. BUF_LEN
    /\ t0 \in Time
    /\ t1 \in Time
    /\ diff \in Span
    /\ pc \in [Reader -> Resting \union Reading]
    /\ first \in [Reader -> BOOLEAN]
    /\ text \in [Reader -> Text]
    /\ ppos \in [Reader -> 0 .. BUF_LEN]
    /\ texts \in [Reader -> 0 .. 2]
    /\ last \in Time \union {NoTime}
    /\ disturbed \in [Reader -> BOOLEAN]
    /\ settled \in BOOLEAN

Init ==
    /\ loaded = FALSE
    /\ procfs_buf_len = 0
    /\ t0 = Zero
    /\ t1 = Zero
    /\ diff = Zero
    /\ pc = [r \in Reader |-> "closed"]
    /\ first = [r \in Reader |-> FALSE]
    /\ text = [r \in Reader |-> NoText]
    /\ ppos = [r \in Reader |-> 0]
    /\ texts = [r \in Reader |-> 0]
    /\ last = NoTime
    /\ disturbed = [r \in Reader |-> FALSE]
    /\ settled = TRUE

Goto(r, from, to) ==
    /\ pc[r] = from
    /\ pc' = [pc EXCEPT ![r] = to]

-----------------------------------------------------------------------------
(* Loading: fresh static data and the /proc entry, unless that cannot be   *)
(* created.                                                                *)
timer_init ==
    /\ ~loaded
    /\ loaded' \in BOOLEAN
    /\ t0' = Zero
    /\ t1' = Zero
    /\ diff' = Zero
    /\ procfs_buf_len' = 0
    /\ last' = NoTime
    /\ UNCHANGED <<pc, first, text, ppos, texts>>

(* proc_remove waits for the operations under way; later ones on files     *)
(* that are still open fail in the kernel.                                 *)
timer_exit ==
    /\ loaded
    /\ \A r \in Reader : pc[r] \in {"closed", "idle", "stale"}
    /\ loaded' = FALSE
    /\ pc' = [r \in Reader |-> IF pc[r] = "idle" THEN "stale" ELSE pc[r]]
    /\ UNCHANGED <<procfs_buf_len, statics, first, text, ppos, ghosts>>

Open(r) ==
    /\ loaded
    /\ Goto(r, "closed", "idle")
    /\ ppos' = [ppos EXCEPT ![r] = 0]
    /\ UNCHANGED <<loaded, procfs_buf_len, statics, first, text, ghosts>>

Close(r) ==
    /\ Goto(r, "idle", "closed") \/ Goto(r, "stale", "closed")
    /\ texts' = [texts EXCEPT ![r] = 0]
    /\ UNCHANGED <<loaded, procfs_buf_len, statics, first, text, ppos, last>>

(* procfile_write: the length is cut to BUF_LEN, then that many bytes are  *)
(* copied to msg, which nobody reads.  The mutant does not cut it.         *)
WriteLenMutant(r) ==
    /\ Goto(r, "idle", "write")
    /\ procfs_buf_len' \in Count
    /\ UNCHANGED <<loaded, statics, first, text, ppos, ghosts>>

WriteLen(r) ==
    /\ Goto(r, "idle", "write")
    /\ \E count \in Count :
         procfs_buf_len' = IF count > BUF_LEN THEN BUF_LEN ELSE count
    /\ UNCHANGED <<loaded, statics, first, text, ppos, ghosts>>

WriteReturn(r) ==
    /\ Goto(r, "write", "idle")
    /\ UNCHANGED <<loaded, procfs_buf_len, statics, first, text, ppos, ghosts>>

-----------------------------------------------------------------------------
(***************************************************************************)
(* procfile_read.  The mutant is off by one.                               *)
(***************************************************************************)
BeginMutant(r) ==
    /\ Goto(r, "idle", "stamp")
    /\ first' = [first EXCEPT ![r] = ~(t0.nsec > 1)]
    /\ UNCHANGED <<loaded, procfs_buf_len, statics, text, ppos, ghosts>>

(* A nanosecond part of zero stands for "there was no read before".        *)
Begin(r) ==
    /\ Goto(r, "idle", "stamp")
    /\ first' = [first EXCEPT ![r] = ~(t0.nsec > 0)]
    /\ UNCHANGED <<loaded, procfs_buf_len, statics, text, ppos, ghosts>>

(* current_kernel_time is the time of day, which may be set back.          *)
Stamp(r) ==
    /\ Goto(r, "stamp", "current")
    /\ t1' \in Clock
    /\ UNCHANGED <<loaded, procfs_buf_len, t0, diff, first, text, ppos, ghosts>>

FormatCurrent(r) ==
    /\ Goto(r, "current", IF first[r] THEN "len" ELSE "diff")
    /\ text' = [text EXCEPT ![r].current = t1]
    /\ UNCHANGED <<loaded, procfs_buf_len, statics, first, ppos, ghosts>>

(* t - s, with a borrow from the seconds.  The mutant forgets to give it   *)
(* back.                                                                   *)
MinusMutant(t, s) ==
    IF t.nsec < s.nsec
    THEN [sec |-> t.sec - s.sec, nsec |-> NSEC + t.nsec - s.nsec]
    ELSE [sec |-> t.sec - s.sec, nsec |-> t.nsec - s.nsec]
Minus(t, s) ==
    IF t.nsec < s.nsec
    THEN [sec |-> t.sec - s.sec - 1, nsec |-> NSEC + t.nsec - s.nsec]
    ELSE [sec |-> t.sec - s.sec, nsec |-> t.nsec - s.nsec]

ComputeDiff(r) ==
    /\ Goto(r, "diff", "elapsed")
    /\ diff' = Minus(t1, t0)
    /\ UNCHANGED <<loaded, procfs_buf_len, t0, t1, first, text, ppos, ghosts>>

FormatElapsed(r) ==
    /\ Goto(r, "elapsed", "len")
    /\ text' = [text EXCEPT ![r].elapsed = diff]
    /\ UNCHANGED <<loaded, procfs_buf_len, statics, first, ppos, ghosts>>

(* The first branch does not compute its length.                           *)
SetLenMutant(r) ==
    /\ Goto(r, "len", "check")
    /\ procfs_buf_len' = IF first[r] THEN procfs_buf_len ELSE TextLen(text[r])
    /\ UNCHANGED <<loaded, statics, first, text, ppos, ghosts>>

SetLen(r) ==
    /\ Goto(r, "len", "check")
    /\ procfs_buf_len' = TextLen(text[r])
    /\ UNCHANGED <<loaded, statics, first, text, ppos, ghosts>>

(* The text is on the stack.                                               *)
Return(r) ==
    /\ first' = [first EXCEPT ![r] = FALSE]
    /\ text' = [text EXCEPT ![r] = NoText]

(* The mutant stores the previous time before the checks.                  *)
RefuseMutant(r) ==
    /\ Goto(r, "check", "idle")
    /\ ppos[r] > 0 \/ \E count \in Count : count < procfs_buf_len
    /\ t0' = t1
    /\ Return(r)
    /\ UNCHANGED <<loaded, procfs_buf_len, t1, diff, ppos, ghosts>>

(* The end of the file, or a buffer too small.                             *)
Refuse(r) ==
    /\ Goto(r, "check", "idle")
    /\ ppos[r] > 0 \/ \E count \in Count : count < procfs_buf_len
    /\ Return(r)
    /\ UNCHANGED <<loaded, procfs_buf_len, statics, ppos, ghosts>>

Accept(r) ==
    /\ Goto(r, "check", "copy")
    /\ ~(ppos[r] > 0)
    /\ \E count \in Count : ~(count < procfs_buf_len)
    /\ UNCHANGED <<loaded, procfs_buf_len, statics, first, text, ppos, ghosts>>

(* The text reaches the reader, as much of it as procfs_buf_len says ...   *)
CopyToUser(r) ==
    /\ Goto(r, "copy", "save")
    /\ last' = text[r].current
    /\ texts' = [texts EXCEPT ![r] = IF @ < 2 THEN @ + 1 ELSE 2]
    /\ UNCHANGED <<loaded, procfs_buf_len, statics, first, text, ppos>>

(* ... or its buffer cannot be written: -EFAULT.                           *)
CopyFails(r) ==
    /\ Goto(r, "copy", "idle")
    /\ Return(r)
    /\ UNCHANGED <<loaded, procfs_buf_len, statics, ppos, ghosts>>

Save(r) ==
    /\ Goto(r, "save", "pos")
    /\ t0' = t1
    /\ UNCHANGED <<loaded, procfs_buf_len, t1, diff, first, text, ppos, ghosts>>

SetPos(r) ==
    /\ Goto(r, "pos", "idle")
    /\ ppos' = [ppos EXCEPT ![r] = procfs_buf_len]
    /\ Return(r)
    /\ UNCHANGED <<loaded, procfs_buf_len, statics, ghosts>>

Read(r) ==
    \/ Begin(r) \/ Stamp(r) \/ FormatCurrent(r) \/ ComputeDiff(r) \/ FormatElapsed(r)
    \/ SetLen(r) \/ Refuse(r) \/ Accept(r) \/ CopyToUser(r) \/ CopyFails(r)
    \/ Save(r) \/ SetPos(r)

Other(r) == Open(r) \/ Close(r) \/ WriteLen(r) \/ WriteReturn(r)

(* Which processes are in a call beside another's.  The time that was      *)
(* shown last is settled unless a call overlaps before it is saved.        *)
InCall(r) == pc[r] \in Reading \union {"write"}
Overlaps(r) == InCall(r) /\ \E s \in Reader \ {r} : InCall(s)
Observe ==
    /\ disturbed' = [r \in Reader |-> pc'[r] # "closed" /\ (disturbed[r] \/ Overlaps(r)')]
    /\ settled' = /\ \A r \in Reader : pc'[r] = "save" => ~disturbed'[r]
                  /\ \/ settled \/ last' = NoTime
                     \/ \E r \in Reader : pc[r] = "copy" /\ pc'[r] = "save"

Next ==
    /\ timer_init \/ timer_exit \/ \E r \in Reader : Read(r) \/ Other(r)
    /\ Observe

Spec == Init /\ [][Next]_vars

-----------------------------------------------------------------------------

(* A process about to copy its text, none of whose calls overlapped with   *)
(* another's, nor did the read that showed the previous time.              *)
Shows(r) == pc[r] = "copy" /\ settled /\ ~disturbed[r]

(* The elapsed time a read shows is the time between the two times that it *)
(* and the last successful read since loading show, also when the clock    *)
(* was set back between them, whichever processes read.  Reads that hit    *)
(* the end of the file, which also set t1 and diff, make no difference,    *)
(* nor do overlapping calls, unless they overlap one of these two.         *)
ElapsedExact == \A r \in Reader :
    Shows(r) /\ text[r].elapsed # NoTime =>
        /\ last # NoTime
        /\ Value(text[r].elapsed) = Value(text[r].current) - Value(last)

(* Every read after the first shows an elapsed time, unless the read       *)
(* before it fell on a whole second, which line 27 takes for none, or      *)
(* another call overlapped it or that one.                                 *)
ElapsedShown == \A r \in Reader :
    Shows(r) /\ last # NoTime /\ last.nsec > 0 => text[r].elapsed # NoTime

(* procfile_read gives its whole text, and gives it at most once for each  *)
(* open, whatever length an earlier procfile_write or refused read of any  *)
(* process left in procfs_buf_len, which is both what it copies and the    *)
(* position that makes the next read the end of the file, unless a call    *)
(* overlapped one of this process.                                         *)
WholeTextOnce == \A r \in Reader : ~disturbed[r] =>
    /\ pc[r] = "copy" => procfs_buf_len = TextLen(text[r])
    /\ texts[r] <= 1

(* "%ld.%ld": the seconds, a dot, and the nanoseconds without leading      *)
(* zeros.  What such a text says, as a number of nanoseconds.              *)
NumDigits(n) == CHOOSE d \in 1 .. DIGITS :
    n < RADIX ^ d /\ (d = 1 \/ n >= RADIX ^ (d - 1))
ReadsAs(t) == t.sec * NSEC + t.nsec * RADIX ^ (DIGITS - NumDigits(t.nsec))

(* The elapsed time reads as what it is, if the clock was not set back.    *)
PrintedExactly == \A r \in Reader :
    LET elapsed == text[r].elapsed
    IN  pc[r] = "copy" /\ elapsed # NoTime /\ elapsed.sec >= 0 =>
            ReadsAs(elapsed) = Value(elapsed)

-----------------------------------------------------------------------------
(***************************************************************************)
(* The inductive invariant: what a process that nobody disturbed finds.    *)
(***************************************************************************)

(* Who is in a call and undisturbed is the only one in a call, and a time  *)
(* about to be saved is settled only if nobody disturbs it.                *)
CallInv == \A r \in Reader :
    /\ ~disturbed[r] => ~Overlaps(r)
    /\ pc[r] = "closed" => ~disturbed[r]
    /\ pc[r] = "save" /\ settled => ~disturbed[r]

(* A settled t0 is the time the last successful read showed, or will be    *)
(* when that read saves it, and first says what line 27 makes of it.       *)
PrevInv ==
    /\ last = NoTime => t0 = Zero
    /\ settled /\ last # NoTime /\ (\A r \in Reader : pc[r] # "save") => t0 = last
    /\ \A r \in Reader : pc[r] = "save" => last # NoTime
    /\ \A r \in Reader : ~disturbed[r] =>
         /\ pc[r] = "save" => last = t1
         /\ pc[r] \in Reading \ {"save", "pos"} => first[r] = ~(t0.nsec > 0)

(* What a process has formatted, undisturbed, it computed from t1 and t0.  *)
TextInv == \A r \in Reader :
    /\ pc[r] \in {"diff", "elapsed", "len", "check", "copy"} => text[r].current # NoTime
    /\ pc[r] \notin {"len", "check", "copy", "save", "pos"} => text[r].elapsed = NoTime
    /\ pc[r] \in {"diff", "elapsed"} => ~first[r]
    /\ ~disturbed[r] =>
         /\ pc[r] \in {"diff", "elapsed", "len", "check", "copy"} => text[r].current = t1
         /\ pc[r] = "elapsed" => diff = Minus(t1, t0)
         /\ pc[r] \in {"len", "check", "copy"} =>
              text[r].elapsed = IF first[r] THEN NoTime ELSE Minus(t1, t0)

(* From line 56 or 76 on procfs_buf_len is the length of this text, and a  *)
(* file's position says whether its text was read.                         *)
LenInv == \A r \in Reader : ~disturbed[r] =>
    /\ pc[r] \in {"check", "copy", "save", "pos"} => procfs_buf_len = TextLen(text[r])
    /\ pc[r] \in {"save", "pos"} => texts[r] = 1
    /\ pc[r] = "closed" => texts[r] = 0
    /\ pc[r] \notin {"save", "pos", "closed"} => texts[r] = IF ppos[r] > 0 THEN 1 ELSE 0
    /\ pc[r] = "copy" => ppos[r] = 0

(* Only a loaded module has files that work.                               *)
LoadInv == ~loaded => \A r \in Reader : pc[r] \in {"closed", "stale"}

(* These are inductive over every step of procfile_read, procfile_write,   *)
(* loading and unloading, by any number of processes.                      *)
TimerInv == TypeOK /\ LoadInv /\ CallInv /\ PrevInv /\ TextInv /\ LenInv

============================================================================
