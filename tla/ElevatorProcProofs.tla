------------------------- MODULE ElevatorProcProofs -------------------------
(***************************************************************************)
(* Theorems about ElevatorProc: /proc/elevator read by any number of       *)
(* processes beside any number of system calls and the scheduler.          *)
(***************************************************************************)
EXTENDS ElevatorProc, ElevatorProofs

(* A file nobody opened, nothing allocated.                                *)
LEMMA ProcInitInv == ProcInit => ProcInv
<1> SUFFICES ASSUME ProcInit PROVE ProcInv
  OBVIOUS
<1>1. ~Overlap /\ BufferInv /\ ToggleInv
  BY DEF ProcInit, Overlap, BufferInv, ToggleInv
<1>2. shared = FALSE
  BY DEF ProcInit
<1>3. /\ rpc \in [Reader -> ReaderLabel] /\ texts \in [Reader -> 0 .. 2]
      /\ read_p \in {0, 1} /\ broken = 0
  BY DEF ProcInit, ReaderLabel
<1> QED  BY <1>1, <1>2, <1>3 DEF ProcInv

(* The elevator's steps leave the file alone, and while the readers take   *)
(* turns each step of the one at the file keeps its buffer and read_p in   *)
(* step.                                                                   *)
LEMMA ProcStep == ProcInv /\ [ProcNext]_allVars => ProcInv'
<1> SUFFICES ASSUME ProcInv, [ProcNext]_allVars PROVE ProcInv'
  OBVIOUS
<1>inv. /\ rpc \in [Reader -> ReaderLabel]
        /\ texts \in [Reader -> 0 .. 2]
        /\ read_p \in {0, 1}
        /\ shared \in BOOLEAN
        /\ ~shared => ~Overlap /\ broken = 0 /\ BufferInv /\ ToggleInv
  BY DEF ProcInv
<1>1. ASSUME UNCHANGED procVars, shared' = shared \/ shared' = (shared \/ Overlap')
      PROVE  ProcInv'
  <2>1. UNCHANGED <<rpc, texts, read_p, broken, message, buffers>>
    BY <1>1 DEF procVars
  <2>2. Overlap' = Overlap /\ BufferInv' = BufferInv /\ ToggleInv' = ToggleInv
    BY <2>1 DEF Overlap, BufferInv, ToggleInv
  <2>3. shared' \in BOOLEAN /\ (~shared' => ~shared)
    BY <1>1, <1>inv
  <2> QED  BY <1>inv, <2>1, <2>2, <2>3 DEF ProcInv
<1>2. ASSUME NEW r \in Reader, ReaderStep(r) PROVE ProcInv'
  <2>type. /\ rpc' \in [Reader -> ReaderLabel] /\ texts' \in [Reader -> 0 .. 2]
           /\ read_p' \in {0, 1} /\ shared' \in BOOLEAN
    BY <1>2, <1>inv DEF ReaderStep, OpenStart, OpenAlloc, OpenFails, RowNumber, RowFirst,
       RowMark, RowEnd, ReadToggle, ReadText, ReadEnd, Release, ReaderGoto, ReaderLabel,
       Observe
  <2> SUFFICES ASSUME ~shared'
               PROVE  ~Overlap' /\ broken' = 0 /\ BufferInv' /\ ToggleInv'
    BY <2>type DEF ProcInv
  <2>apart. ~Overlap' /\ ~Overlap /\ broken = 0 /\ BufferInv /\ ToggleInv
    BY <1>2, <1>inv DEF ReaderStep, Observe
  <2>others. \A s \in Reader \ {r} : rpc'[s] = "closed" /\ rpc[s] = "closed"
    <3>1. \A s \in Reader \ {r} : rpc'[s] = rpc[s]
      BY <1>2, <1>inv DEF ReaderStep, OpenStart, OpenAlloc, OpenFails, RowNumber, RowFirst,
         RowMark, RowEnd, ReadToggle, ReadText, ReadEnd, Release, ReaderGoto
    <3>2. rpc[r] # "closed" \/ rpc'[r] # "closed"
      BY <1>2, <1>inv DEF ReaderStep, OpenStart, OpenAlloc, OpenFails, RowNumber, RowFirst,
         RowMark, RowEnd, ReadToggle, ReadText, ReadEnd, Release, ReaderGoto
    <3> QED  BY <2>apart, <3>1, <3>2 DEF Overlap
  <2> USE <1>inv, <2>apart, <2>others DEF ReaderGoto, ReaderLabel
  <2>1. CASE OpenStart(r)
    <3>1. BufferInv'
      BY <2>1 DEF OpenStart, BufferInv
    <3>2. ToggleInv'
      BY <2>1 DEF OpenStart, ToggleInv
    <3>3. broken' = 0
      BY <2>1 DEF OpenStart
    <3> QED  BY <3>1, <3>2, <3>3
  <2>2. CASE OpenAlloc(r)
    <3>1. BufferInv'
      BY <2>2 DEF OpenAlloc, BufferInv
    <3>2. ToggleInv'
      BY <2>2 DEF OpenAlloc, ToggleInv
    <3>3. broken' = 0
      BY <2>2 DEF OpenAlloc
    <3> QED  BY <3>1, <3>2, <3>3
  <2>3. CASE OpenFails(r)
    <3>1. BufferInv'
      BY <2>3 DEF OpenFails, BufferInv
    <3>2. ToggleInv'
      BY <2>3 DEF OpenFails, ToggleInv
    <3>3. broken' = 0
      BY <2>3 DEF OpenFails
    <3> QED  BY <3>1, <3>2, <3>3
  <2>4. CASE RowNumber(r)
    <3>1. BufferInv'
      BY <2>4 DEF RowNumber, BufferInv
    <3>2. ToggleInv'
      BY <2>4 DEF RowNumber, ToggleInv
    <3>3. broken' = 0
      BY <2>4 DEF RowNumber
    <3> QED  BY <3>1, <3>2, <3>3
  <2>5. CASE RowFirst(r)
    <3>1. BufferInv'
      BY <2>5 DEF RowFirst, BufferInv
    <3>2. ToggleInv'
      BY <2>5 DEF RowFirst, ToggleInv
    <3>3. broken' = 0
      BY <2>5 DEF RowFirst
    <3> QED  BY <3>1, <3>2, <3>3
  <2>6. CASE RowMark(r)
    <3>1. BufferInv'
      BY <2>6 DEF RowMark, BufferInv
    <3>2. ToggleInv'
      BY <2>6 DEF RowMark, ToggleInv
    <3>3. broken' = 0
      BY <2>6 DEF RowMark
    <3> QED  BY <3>1, <3>2, <3>3
  <2>7. CASE RowEnd(r)
    <3>0. message \in buffers
      BY <2>7 DEF RowEnd, BufferInv
    <3>1. BufferInv'
      BY <2>7 DEF RowEnd, BufferInv
    <3>2. ToggleInv'
      BY <2>7 DEF RowEnd, ToggleInv
    <3>3. broken' = 0
      BY <2>7, <3>0 DEF RowEnd, UseMessage
    <3> QED  BY <3>1, <3>2, <3>3
  <2>8. CASE ReadToggle(r)
    <3>0. message \in buffers
      BY <2>8 DEF ReadToggle, BufferInv
    <3>1. BufferInv'
      BY <2>8 DEF ReadToggle, BufferInv
    <3>2. ToggleInv'
      BY <2>8 DEF ReadToggle, ToggleInv
    <3>3. broken' = 0
      BY <2>8, <3>0 DEF ReadToggle, UseMessage
    <3> QED  BY <3>1, <3>2, <3>3
  <2>9. CASE ReadText(r)
    <3>0. message \in buffers
      BY <2>9 DEF ReadText, BufferInv
    <3>1. BufferInv'
      BY <2>9 DEF ReadText, BufferInv
    <3>2. ToggleInv'
      BY <2>9 DEF ReadText, ToggleInv
    <3>3. broken' = 0
      BY <2>9, <3>0 DEF ReadText, UseMessage
    <3> QED  BY <3>1, <3>2, <3>3
  <2>10. CASE ReadEnd(r)
    <3>1. BufferInv'
      BY <2>10 DEF ReadEnd, BufferInv
    <3>2. ToggleInv'
      BY <2>10 DEF ReadEnd, ToggleInv
    <3>3. broken' = 0
      BY <2>10 DEF ReadEnd
    <3> QED  BY <3>1, <3>2, <3>3
  <2>11. CASE Release(r)
    <3>0. message \in buffers
      BY <2>11 DEF Release, BufferInv
    <3>1. BufferInv'
      BY <2>11 DEF Release, BufferInv
    <3>2. ToggleInv'
      BY <2>11 DEF Release, ToggleInv
    <3>3. broken' = 0
      BY <2>11, <3>0 DEF Release
    <3> QED  BY <3>1, <3>2, <3>3
  <2> QED  BY <1>2, <2>1, <2>2, <2>3, <2>4, <2>5, <2>6, <2>7, <2>8, <2>9, <2>10, <2>11
              DEF ReaderStep
<1>3. CASE ElevatorStep
  BY <1>1, <1>3 DEF ElevatorStep, Observe
<1>4. CASE UNCHANGED allVars
  BY <1>1, <1>4 DEF allVars
<1> QED  BY <1>2, <1>3, <1>4 DEF ProcNext, UndefinedProc

(* Any number of readers, beside a running elevator, keep the invariant:   *)
(* it says nothing of their buffer only from the first moment on when two  *)
(* of them are between elevator_proc_open and elevator_proc_release.       *)
THEOREM ProcInvariance == ProcSpec => []ProcInv
<1>1. ProcInit => ProcInv
  BY ProcInitInv
<1>2. ProcInv /\ [ProcNext]_allVars => ProcInv'
  BY ProcStep
<1> QED  BY <1>1, <1>2, PTL DEF ProcSpec

(* However many processes read the file, elevator_proc_release frees the   *)
(* buffer that elevator_proc_open allocated, once, and no operation uses a *)
(* freed one, also after an open that ran out of memory, unless an open    *)
(* came before the release of another.                                     *)
THEOREM MessageFreedOnceHolds == ProcSpec => []MessageFreedOnce
<1>1. ProcInv => MessageFreedOnce
  BY DEF ProcInv, BufferInv, MessageFreedOnce
<1> QED  BY <1>1, ProcInvariance, PTL

(* However many processes read the file, elevator_proc_read gives the text *)
(* exactly once for each open, whatever the readers before it left in      *)
(* read_p, unless two of them overlapped.                                  *)
THEOREM TextOnceHolds == ProcSpec => []TextOnce
<1>1. ProcInv => TextOnce
  BY DEF ProcInv, ToggleInv, TextOnce
<1> QED  BY <1>1, ProcInvariance, PTL

-----------------------------------------------------------------------------
(***************************************************************************)
(* The types, and the rows                                                 *)
(***************************************************************************)

(* Readers change nothing of the elevator.                                 *)
THEOREM ReadersOnlyRead == ProcSpec => Spec
<1>1. ProcInit => Init
  BY DEF ProcInit
<1>2. [ProcNext]_allVars => [Next]_vars
  BY DEF ProcNext, ElevatorStep, ReaderStep, UndefinedProc, allVars, Next
<1> QED  BY <1>1, <1>2, PTL DEF ProcSpec, Spec

(* The opens that have passed the test for the bound and not allocated yet *)
(* stay within it, and who formats a row formats a floor's.                *)
Allocating == {s \in Reader : rpc[s] = "alloc"}
OpenInv ==
    /\ opens + Cardinality(Allocating) <= MaxOpens
    /\ \A r \in Reader : rpc[r] \in {"row", "first", "walk"} => row[r] \in Floor

LEMMA AllocatingCount ==
    ASSUME IsFiniteSet(Reader)
    PROVE  IsFiniteSet(Allocating) /\ Cardinality(Allocating) \in Nat
<1>1. Allocating \subseteq Reader
  BY DEF Allocating
<1> QED  BY <1>1, FS_Subset, FS_CardinalityType

(* One more reader allocates, or one fewer, or as many as before.          *)
LEMMA AllocatingStep ==
    ASSUME IsFiniteSet(Reader),
           NEW r \in Reader, \A s \in Reader \ {r} : rpc'[s] = rpc[s]
    PROVE  /\ rpc[r] # "alloc" /\ rpc'[r] = "alloc" =>
                Cardinality(Allocating') = Cardinality(Allocating) + 1
           /\ rpc[r] = "alloc" /\ rpc'[r] # "alloc" =>
                Cardinality(Allocating') = Cardinality(Allocating) - 1
           /\ rpc[r] # "alloc" /\ rpc'[r] # "alloc" => Allocating' = Allocating
<1>1. ASSUME rpc[r] # "alloc", rpc'[r] = "alloc"
      PROVE  Cardinality(Allocating') = Cardinality(Allocating) + 1
  <2>1. Allocating' = Allocating \union {r} /\ r \notin Allocating
    BY <1>1 DEF Allocating
  <2> QED  BY <2>1, AllocatingCount, FS_AddElement
<1>2. ASSUME rpc[r] = "alloc", rpc'[r] # "alloc"
      PROVE  Cardinality(Allocating') = Cardinality(Allocating) - 1
  <2>1. Allocating' = Allocating \ {r} /\ r \in Allocating
    BY <1>2 DEF Allocating
  <2> QED  BY <2>1, AllocatingCount, FS_RemoveElement
<1>3. ASSUME rpc[r] # "alloc", rpc'[r] # "alloc"
      PROVE  Allocating' = Allocating
  BY <1>3 DEF Allocating
<1> QED  BY <1>1, <1>2, <1>3

(* The entry behind the i-th is one of the list's, or there is none.       *)
LEMMA FollowingType ==
    ASSUME NEW list \in Seq(Passenger), NEW i \in 0 .. Len(list)
    PROVE  Following(list, i) \in Passenger \union {NoCursor}
  BY ElementOfSeq DEF Following

(* Each operation of the file keeps its variables' types.                  *)
LEMMA ProcTypeStep ==
    ASSUME IsFiniteSet(Reader)
    PROVE  TypeOK /\ ProcTypeOK /\ OpenInv /\ [ProcNext]_allVars => ProcTypeOK' /\ OpenInv'
<1> SUFFICES ASSUME TypeOK, ProcTypeOK, OpenInv, [ProcNext]_allVars
             PROVE  ProcTypeOK' /\ OpenInv'
  OBVIOUS
<1>count. Cardinality(Allocating) \in Nat
  BY AllocatingCount
<1>1. ASSUME UNCHANGED procVars, busy' \in [Reader -> BOOLEAN], shared' \in BOOLEAN
      PROVE  ProcTypeOK' /\ OpenInv'
  BY <1>1 DEF procVars, rowVars, ProcTypeOK, OpenInv, Allocating
<1>2. ASSUME NEW r \in Reader, ReaderStep(r) PROVE ProcTypeOK' /\ OpenInv'
  <2>busy. busy' \in [Reader -> BOOLEAN] /\ shared' \in BOOLEAN
    BY <1>2 DEF ReaderStep, Observe
  <2> USE <2>busy, <1>count, OpensAssumption, FloorsAssumption
      DEF ReaderGoto, rowVars, ReaderLabel, Floor
  <2>0. \A s \in Reader \ {r} : rpc'[s] = rpc[s]
    BY <1>2 DEF ReaderStep, OpenStart, OpenAlloc, OpenFails, RowNumber, RowFirst, RowMark,
       RowEnd, ReadToggle, ReadText, ReadEnd, Release, ProcTypeOK
  <2>alloc. /\ rpc[r] # "alloc" /\ rpc'[r] = "alloc" =>
                 Cardinality(Allocating') = Cardinality(Allocating) + 1
            /\ rpc[r] = "alloc" /\ rpc'[r] # "alloc" =>
                 Cardinality(Allocating') = Cardinality(Allocating) - 1
            /\ rpc[r] # "alloc" /\ rpc'[r] # "alloc" => Allocating' = Allocating
    BY <2>0, AllocatingStep
  <2>1. CASE OpenStart(r)
    <3>1. Cardinality(Allocating') = Cardinality(Allocating) + 1
      BY <2>1, <2>alloc DEF OpenStart, ProcTypeOK
    <3>2. opens + Cardinality(Allocating') <= MaxOpens
      BY <2>1, <3>1 DEF OpenStart, Allocating, ProcTypeOK
    <3> QED  BY <2>1, <3>2 DEF OpenStart, ProcTypeOK, OpenInv
  <2>2. CASE OpenAlloc(r)
    <3>1. Cardinality(Allocating') = Cardinality(Allocating) - 1
      BY <2>2, <2>alloc DEF OpenAlloc, ProcTypeOK
    <3>2. r \in Allocating
      BY <2>2 DEF OpenAlloc, Allocating
    <3>3. Cardinality(Allocating) # 0
      BY <3>2, AllocatingCount, FS_EmptySet
    <3>4. opens + 1 \in 1 .. MaxOpens /\ opens + 1 + Cardinality(Allocating') <= MaxOpens
      BY <3>1, <3>3 DEF OpenInv, ProcTypeOK
    <3>5. ProcTypeOK'
      BY <2>2, <3>4 DEF OpenAlloc, ProcTypeOK
    <3>6. OpenInv'
      BY <2>2, <3>4 DEF OpenAlloc, ProcTypeOK, OpenInv
    <3> QED  BY <3>5, <3>6
  <2>3. CASE OpenFails(r)
    <3>1. Cardinality(Allocating') = Cardinality(Allocating) - 1
      BY <2>3, <2>alloc DEF OpenFails, ProcTypeOK
    <3> QED  BY <2>3, <3>1 DEF OpenFails, ProcTypeOK, OpenInv
  <2>4. CASE RowNumber(r)
    <3>1. Allocating' = Allocating
      BY <2>4, <2>alloc DEF RowNumber, ProcTypeOK
    <3>2. waiting_on_floor[row[r]] \in Int
      BY <2>4 DEF RowNumber, OpenInv, TypeOK
    <3> QED  BY <2>4, <3>1, <3>2 DEF RowNumber, ProcTypeOK, OpenInv
  <2>5. CASE RowFirst(r)
    <3>1. Allocating' = Allocating
      BY <2>5, <2>alloc DEF RowFirst, ProcTypeOK
    <3>2. waiting_list[row[r]] \in Seq(Passenger)
      BY <2>5 DEF RowFirst, OpenInv, TypeOK
    <3>3. Following(waiting_list[row[r]], 0) \in Passenger \union {NoCursor}
      BY <3>2, FollowingType
    <3> QED  BY <2>5, <3>1, <3>3 DEF RowFirst, ProcTypeOK, OpenInv
  <2>6. CASE RowMark(r)
    <3>1. Allocating' = Allocating
      BY <2>6 DEF RowMark, Allocating
    <3>2. waiting_list[row[r]] \in Seq(Passenger)
      BY <2>6 DEF RowMark, OpenInv, TypeOK
    <3>3. \A i \in DOMAIN waiting_list[row[r]] :
            Following(waiting_list[row[r]], i) \in Passenger \union {NoCursor}
      BY <3>2, FollowingType
    <3> QED  BY <2>6, <3>1, <3>3 DEF RowMark, ProcTypeOK, OpenInv
  <2>7. CASE RowEnd(r)
    <3>1. Allocating' = Allocating
      BY <2>7, <2>alloc DEF RowEnd, ProcTypeOK
    <3> QED  BY <2>7, <3>1 DEF RowEnd, UseMessage, ProcTypeOK, OpenInv
  <2>8. CASE ReadToggle(r)
    <3>1. Allocating' = Allocating
      BY <2>8, <2>alloc DEF ReadToggle, ProcTypeOK
    <3> QED  BY <2>8, <3>1 DEF ReadToggle, UseMessage, ProcTypeOK, OpenInv
  <2>9. CASE ReadText(r)
    <3>1. Allocating' = Allocating
      BY <2>9, <2>alloc DEF ReadText, ProcTypeOK
    <3> QED  BY <2>9, <3>1 DEF ReadText, UseMessage, ProcTypeOK, OpenInv
  <2>10. CASE ReadEnd(r)
    <3>1. Allocating' = Allocating
      BY <2>10, <2>alloc DEF ReadEnd, ProcTypeOK
    <3> QED  BY <2>10, <3>1 DEF ReadEnd, ProcTypeOK, OpenInv
  <2>11. CASE Release(r)
    <3>1. Allocating' = Allocating
      BY <2>11, <2>alloc DEF Release, ProcTypeOK
    <3> QED  BY <2>11, <3>1 DEF Release, UseMessage, ProcTypeOK, OpenInv
  <2> QED  BY <1>2, <2>1, <2>2, <2>3, <2>4, <2>5, <2>6, <2>7, <2>8, <2>9, <2>10, <2>11
              DEF ReaderStep
<1>3. CASE ElevatorStep
  BY <1>1, <1>3 DEF ElevatorStep, Observe
<1>4. CASE UNCHANGED allVars
  BY <1>1, <1>4 DEF allVars, ProcTypeOK
<1> QED  BY <1>2, <1>3, <1>4 DEF ProcNext, UndefinedProc

(* As long as nobody was in the mutex a row still owes a mark for every    *)
(* entry from the cursor on.                                               *)
RowInv == \A r \in Reader : ~busy[r] =>
    /\ rpc[r] = "first" => owed[r] = Len(waiting_list[row[r]])
    /\ rpc[r] = "walk" =>
         \/ tempList[r] = NoCursor /\ owed[r] = 0
         \/ \E i \in DOMAIN waiting_list[row[r]] :
              /\ tempList[r] = waiting_list[row[r]][i]
              /\ owed[r] = Len(waiting_list[row[r]]) - i + 1

(* The cursor's next position owes one mark fewer.                         *)
LEMMA FollowingOwes ==
    ASSUME NEW list \in Seq(Passenger), NEW i \in 0 .. Len(list)
    PROVE  \/ Following(list, i) = NoCursor /\ Len(list) - i = 0
           \/ \E j \in DOMAIN list :
                Following(list, i) = list[j] /\ Len(list) - i = Len(list) - j + 1
<1>1. CASE i < Len(list)
  <2>1. i + 1 \in DOMAIN list /\ Len(list) - i = Len(list) - (i + 1) + 1
    BY <1>1
  <2> QED  BY <1>1, <2>1 DEF Following
<1>2. CASE ~(i < Len(list))
  BY <1>2 DEF Following
<1> QED  BY <1>1, <1>2

(* The head of a list is not a passenger.                                  *)
LEMMA NoCursorNobody == NoCursor \notin Passenger
  BY DEF NoCursor, Passenger

(* No two entries of a floor's list are the same passenger.                *)
LEMMA EntriesDiffer ==
    ASSUME TypeOK, QueueInv, NEW f \in Floor,
           NEW i \in DOMAIN waiting_list[f], NEW j \in DOMAIN waiting_list[f],
           waiting_list[f][i] = waiting_list[f][j]
    PROVE  i = j
<1>1. /\ waiting_list[f] \in Seq(Passenger) /\ i \in Nat /\ j \in Nat
      /\ waiting_list[f][i].id \in Nat
  <2>1. waiting_list[f] \in Seq(Passenger)
    BY DEF TypeOK
  <2>2. waiting_list[f][i] \in Passenger
    BY <2>1, ElementOfSeq
  <2> QED  BY <2>1, <2>2 DEF Passenger
<1>2. i < j => waiting_list[f][i].id < waiting_list[f][j].id
  BY DEF QueueInv
<1>3. j < i => waiting_list[f][j].id < waiting_list[f][i].id
  BY DEF QueueInv
<1> QED  BY <1>1, <1>2, <1>3

(* Without a thread in the mutex the lists stay as they are, and so does   *)
(* what a row owes; a reader's own steps make a mark for each entry.       *)
LEMMA RowStep ==
    IInv /\ ProcTypeOK /\ OpenInv /\ RowInv /\ [ProcNext]_allVars => RowInv'
<1> SUFFICES ASSUME IInv, ProcTypeOK, OpenInv, RowInv, [ProcNext]_allVars,
                    NEW r \in Reader, ~busy'[r]
             PROVE  /\ rpc'[r] = "first" => owed'[r] = Len(waiting_list'[row'[r]])
                    /\ rpc'[r] = "walk" =>
                         \/ tempList'[r] = NoCursor /\ owed'[r] = 0
                         \/ \E i \in DOMAIN waiting_list'[row'[r]] :
                              /\ tempList'[r] = waiting_list'[row'[r]][i]
                              /\ owed'[r] = Len(waiting_list'[row'[r]]) - i + 1
  BY DEF RowInv
<1> DEFINE list == waiting_list[row[r]]
<1>0. TypeOK /\ QueueInv
  BY DEF IInv
<1>1. ASSUME waiting_list' = waiting_list, ~busy[r],
             rpc'[r] = rpc[r], owed'[r] = owed[r], row'[r] = row[r],
             tempList'[r] = tempList[r]
      PROVE  /\ rpc'[r] = "first" => owed'[r] = Len(waiting_list'[row'[r]])
             /\ rpc'[r] = "walk" =>
                  \/ tempList'[r] = NoCursor /\ owed'[r] = 0
                  \/ \E i \in DOMAIN waiting_list'[row'[r]] :
                       /\ tempList'[r] = waiting_list'[row'[r]][i]
                       /\ owed'[r] = Len(waiting_list'[row'[r]]) - i + 1
  BY <1>1 DEF RowInv
<1>2. ASSUME rpc'[r] \in {"first", "walk"}, Observe
      PROVE  ~busy[r] /\ ~Locked /\ ~Locked'
  BY <1>2 DEF Observe
<1>3. CASE ElevatorStep /\ rpc'[r] \in {"first", "walk"}
  <2>1. ~busy[r] /\ ~Locked
    BY <1>2, <1>3 DEF ElevatorStep
  <2>2. [Next]_vars
    BY <1>3 DEF ElevatorStep, Next
  <2>3. ~LoadPassenger /\ \A c \in Caller : ~IssueAdd(c)
    BY <2>1 DEF Locked, InCS, LoadPassenger, IssueAdd, Goto, Thread
  <2>4. waiting_list' = waiting_list
    BY <2>2, <2>3, QueueFrame
  <2> QED  BY <1>1, <1>3, <2>1, <2>4 DEF ElevatorStep, procVars, rowVars
<1>4. ASSUME NEW s \in Reader, s # r, ReaderStep(s), rpc'[r] \in {"first", "walk"}
      PROVE  /\ rpc'[r] = rpc[r] /\ owed'[r] = owed[r] /\ row'[r] = row[r]
             /\ tempList'[r] = tempList[r] /\ waiting_list' = waiting_list /\ ~busy[r]
  <2>1. waiting_list' = waiting_list /\ ~busy[r]
    BY <1>2, <1>4 DEF ReaderStep, vars, dataVars, queueVars
  <2>2. /\ rpc'[r] = rpc[r] /\ owed'[r] = owed[r] /\ row'[r] = row[r]
        /\ tempList'[r] = tempList[r]
    BY <1>4 DEF ReaderStep, OpenStart, OpenAlloc, OpenFails, RowNumber, RowFirst, RowMark,
       RowEnd, ReadToggle, ReadText, ReadEnd, Release, ReaderGoto, rowVars, ProcTypeOK
  <2> QED  BY <2>1, <2>2
<1>5. CASE ReaderStep(r) /\ rpc'[r] \in {"first", "walk"}
  <2>0. /\ ~busy[r] /\ waiting_list' = waiting_list
        /\ rpc \in [Reader -> ReaderLabel] /\ owed \in [Reader -> Int]
        /\ tempList \in [Reader -> Passenger \union {NoCursor}]
        /\ row \in [Reader -> 0 .. FLOORS]
    BY <1>2, <1>5 DEF ReaderStep, vars, dataVars, queueVars, ProcTypeOK
  <2>1. CASE RowNumber(r)
    <3>1. row[r] \in Floor
      BY <2>1 DEF RowNumber, ReaderGoto, OpenInv
    <3>2. waiting_on_floor[row[r]] = Len(list)
      BY <3>1 DEF IInv, Accounting
    <3> QED  BY <2>0, <2>1, <3>2 DEF RowNumber, ReaderGoto
  <2>2. CASE RowFirst(r)
    <3>1. row[r] \in Floor /\ owed[r] = Len(list)
      BY <2>0, <2>2 DEF RowFirst, ReaderGoto, OpenInv, RowInv
    <3>2. list \in Seq(Passenger)
      BY <1>0, <3>1 DEF TypeOK
    <3>3. /\ rpc'[r] = "walk" /\ owed'[r] = Len(list) - 0 /\ row'[r] = row[r]
          /\ tempList'[r] = Following(list, 0)
      BY <2>0, <2>2, <3>1, <3>2 DEF RowFirst, ReaderGoto
    <3> QED  BY <2>0, <3>2, <3>3, FollowingOwes
  <2>3. CASE RowMark(r)
    <3>1. row[r] \in Floor /\ rpc[r] = "walk" /\ tempList[r] # NoCursor
      BY <2>3 DEF RowMark, OpenInv
    <3>2. PICK i \in DOMAIN list : tempList[r] = list[i] /\ owed[r] = Len(list) - i + 1
      BY <2>0, <3>1 DEF RowInv
    <3>3. list \in Seq(Passenger)
      BY <1>0, <3>1 DEF TypeOK
    <3>4. PICK j \in DOMAIN list :
            list[j] = tempList[r] /\ tempList'[r] = Following(list, j)
      BY <2>0, <2>3, <3>2, <3>3 DEF RowMark, ToSet
    <3>5. j = i
      BY <1>0, <3>1, <3>2, <3>4, EntriesDiffer
    <3>6. /\ rpc'[r] = "walk" /\ owed'[r] = Len(list) - i /\ row'[r] = row[r]
      BY <2>0, <2>3, <3>1, <3>2, <3>3 DEF RowMark
    <3>7. \/ Following(list, i) = NoCursor /\ Len(list) - i = 0
          \/ \E k \in DOMAIN list :
               Following(list, i) = list[k] /\ Len(list) - i = Len(list) - k + 1
      <4>1. i \in 0 .. Len(list)
        BY <3>3
      <4> QED  BY <3>3, <4>1, FollowingOwes
    <3> QED  BY <2>0, <3>4, <3>5, <3>6, <3>7
  <2> QED  BY <1>5, <2>0, <2>1, <2>2, <2>3 DEF ReaderStep, OpenStart, OpenAlloc, OpenFails,
           RowEnd, ReadToggle, ReadText, ReadEnd, Release, ReaderGoto
<1>6. CASE UNCHANGED allVars
  BY <1>1, <1>6 DEF allVars, procVars, rowVars, vars, dataVars, queueVars
<1> QED  BY <1>1, <1>3, <1>4, <1>5, <1>6 DEF ProcNext, UndefinedProc

(* Nobody has opened the file.                                             *)
LEMMA ProcInitTyped == ProcInit => ProcTypeOK /\ OpenInv
<1> SUFFICES ASSUME ProcInit PROVE ProcTypeOK /\ OpenInv
  OBVIOUS
<1>1. Allocating = {}
  BY DEF ProcInit, Allocating
<1>2. busy \in [Reader -> BOOLEAN] /\ shared \in BOOLEAN
  BY DEF ProcInit
<1>3. ProcTypeOK
  BY <1>2, OpensAssumption, FloorsAssumption
     DEF ProcInit, ProcTypeOK, ReaderLabel, NoCursor
<1>4. OpenInv
  BY <1>1, FS_EmptySet, OpensAssumption DEF ProcInit, OpenInv
<1> QED  BY <1>3, <1>4

(* However many processes read the file, its variables keep their types: a *)
(* row is a floor's, a cursor a passenger or the head of the list.         *)
THEOREM ProcTypeCorrect ==
    ASSUME IsFiniteSet(Reader)
    PROVE  ProcSpec => []ProcTypeOK
<1>1. ProcInit => ProcTypeOK /\ OpenInv
  BY ProcInitTyped
<1>2. IInv => TypeOK
  BY DEF IInv
<1> QED  BY <1>1, <1>2, ProcTypeStep, ReadersOnlyRead, Invariance, PTL DEF ProcSpec

(* However many processes read the file and whatever else goes on, a row   *)
(* of elevator_proc_open has as many marks as its number says, if nobody   *)
(* was in the mutex while it was formatted.                                *)
THEOREM RowAddsUpHolds ==
    ASSUME IsFiniteSet(Reader)
    PROVE  ProcSpec => []RowAddsUp
<1>1. ProcInit => ProcTypeOK /\ OpenInv /\ RowInv
  BY ProcInitTyped DEF ProcInit, RowInv
<1>2. IInv => TypeOK
  BY DEF IInv
<1>3. IInv /\ OpenInv /\ RowInv => RowAddsUp
  <2> SUFFICES ASSUME TypeOK, OpenInv, RowInv, NEW r \in Reader, rpc[r] = "walk",
                      tempList[r] = NoCursor, ~busy[r]
               PROVE  owed[r] = 0
    BY DEF RowAddsUp, IInv
  <2>1. waiting_list[row[r]] \in Seq(Passenger)
    BY DEF TypeOK, OpenInv
  <2>2. \A i \in DOMAIN waiting_list[row[r]] : waiting_list[row[r]][i] # NoCursor
    BY <2>1, ElementOfSeq, NoCursorNobody
  <2> QED  BY <2>2 DEF RowInv
<1> QED  BY <1>1, <1>2, <1>3, ProcTypeStep, RowStep, ReadersOnlyRead, Invariance, PTL
         DEF ProcSpec

=============================================================================
