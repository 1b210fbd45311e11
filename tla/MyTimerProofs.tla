-------------------------- MODULE MyTimerProofs --------------------------
(***************************************************************************)
(* Theorems about MyTimer: for any number of processes, whatever overlaps, *)
(* and for every resolution of the clock, what a process that nobody       *)
(* disturbed is shown.                                                     *)
(***************************************************************************)
EXTENDS MyTimer, TLAPS

(* NSEC only has to be a positive number.                                  *)
LEMMA NsecType == NSEC \in Nat /\ NSEC > 0
  BY ClockAssumption

(* NoTime is not a time, and a time has its two fields.                    *)
LEMMA TimeFields ==
    /\ NoTime \notin Time /\ NoTime \in Span
    /\ Zero \in Time /\ Zero \in Span
    /\ \A t \in Time : t.sec \in Nat /\ t.nsec \in Nat /\ t.nsec < NSEC
  BY NsecType DEF Time, Span, NoTime, Zero

(* Lines 36-46: the fraction of the difference of two times is a fraction  *)
(* of a second, and its value is the difference of their values, also when *)
(* the later read found an earlier time.                                   *)
LEMMA MinusExact ==
    ASSUME NEW s \in Time, NEW t \in Time
    PROVE  /\ Minus(t, s) \in Span /\ Minus(t, s).nsec \in 0 .. NSEC - 1
           /\ Minus(t, s) # NoTime
           /\ Value(Minus(t, s)) = Value(t) - Value(s)
<1>1. /\ s.sec \in Nat /\ s.nsec \in Nat /\ s.nsec < NSEC
      /\ t.sec \in Nat /\ t.nsec \in Nat /\ t.nsec < NSEC
      /\ NSEC \in Nat
  BY TimeFields, NsecType
<1>2. CASE t.nsec < s.nsec
  <2>1. Minus(t, s) = [sec |-> t.sec - s.sec - 1, nsec |-> NSEC + t.nsec - s.nsec]
    BY <1>2 DEF Minus
  <2>2. t.sec - s.sec - 1 \in Int /\ NSEC + t.nsec - s.nsec \in 0 .. NSEC - 1
    BY <1>1, <1>2
  <2>3. (t.sec - s.sec - 1) * NSEC = t.sec * NSEC - s.sec * NSEC - NSEC
    BY <1>1
  <2>4. t.sec * NSEC \in Int /\ s.sec * NSEC \in Int
    BY <1>1
  <2>5. Value(Minus(t, s)) = Value(t) - Value(s)
    BY <1>1, <2>1, <2>2, <2>3, <2>4 DEF Value
  <2> QED  BY <1>1, <2>1, <2>2, <2>5 DEF Span, NoTime
<1>3. CASE ~(t.nsec < s.nsec)
  <2>1. Minus(t, s) = [sec |-> t.sec - s.sec, nsec |-> t.nsec - s.nsec]
    BY <1>3 DEF Minus
  <2>2. t.sec - s.sec \in Int /\ t.nsec - s.nsec \in 0 .. NSEC - 1
    BY <1>1, <1>3
  <2>3. (t.sec - s.sec) * NSEC = t.sec * NSEC - s.sec * NSEC
    BY <1>1
  <2>4. t.sec * NSEC \in Int /\ s.sec * NSEC \in Int
    BY <1>1
  <2>5. Value(Minus(t, s)) = Value(t) - Value(s)
    BY <1>1, <2>1, <2>2, <2>3, <2>4 DEF Value
  <2> QED  BY <1>1, <2>1, <2>2, <2>5 DEF Span, NoTime
<1> QED  BY <1>2, <1>3

-----------------------------------------------------------------------------
(***************************************************************************)
(* The invariant.                                                          *)
(***************************************************************************)

(* An unloaded module establishes it.                                      *)
LEMMA TimerInit == Init => TimerInv
<1> SUFFICES ASSUME Init PROVE TimerInv
  OBVIOUS
<1>1. TypeOK
  <2>1. procfs_buf_len \in 0 .. BUF_LEN /\ ppos \in [Reader -> 0 .. BUF_LEN]
    BY LengthAssumption DEF Init
  <2>2. text \in [Reader -> Text]
    BY TimeFields DEF Init, Text, NoText
  <2>3. pc \in [Reader -> Resting \union Reading]
    BY DEF Init, Resting
  <2>4. /\ loaded \in BOOLEAN /\ settled \in BOOLEAN
        /\ first \in [Reader -> BOOLEAN] /\ disturbed \in [Reader -> BOOLEAN]
    BY DEF Init
  <2>5. texts \in [Reader -> 0 .. 2] /\ t0 \in Time /\ t1 \in Time /\ diff \in Span
        /\ last \in Time \union {NoTime}
    BY TimeFields DEF Init
  <2> QED  BY <2>1, <2>2, <2>3, <2>4, <2>5 DEF TypeOK
<1>2. \A r \in Reader : pc[r] = "closed" /\ ~disturbed[r]
  BY DEF Init
<1>3. LoadInv /\ CallInv
  BY <1>2 DEF LoadInv, CallInv, Overlaps, InCall, Reading
<1>4. PrevInv
  BY <1>2 DEF Init, PrevInv, Reading
<1>5. TextInv /\ LenInv
  BY <1>2 DEF Init, TextInv, LenInv, NoText
<1> QED  BY <1>1, <1>3, <1>4, <1>5 DEF TimerInv

(* The ghosts keep their types, and say what they should, after each step. *)
LEMMA ObserveStep ==
    ASSUME Observe
    PROVE  /\ disturbed' \in [Reader -> BOOLEAN] /\ settled' \in BOOLEAN
           /\ CallInv'
<1>1. disturbed' \in [Reader -> BOOLEAN] /\ settled' \in BOOLEAN
  BY DEF Observe
<1>2. ASSUME NEW r \in Reader
      PROVE  /\ ~disturbed'[r] => ~Overlaps(r)'
             /\ pc'[r] = "closed" => ~disturbed'[r]
             /\ pc'[r] = "save" /\ settled' => ~disturbed'[r]
  <2>1. disturbed'[r] = (pc'[r] # "closed" /\ (disturbed[r] \/ Overlaps(r)'))
    BY DEF Observe
  <2>2. pc'[r] = "closed" => ~Overlaps(r)'
    BY DEF Overlaps, InCall, Reading
  <2>3. pc'[r] = "save" /\ settled' => ~disturbed'[r]
    BY DEF Observe
  <2> QED  BY <2>1, <2>2, <2>3
<1> QED  BY <1>1, <1>2 DEF CallInv

(* When one process does something, another that is still undisturbed is   *)
(* not in a call, if that one is in a call.                                *)
LEMMA Bystander ==
    ASSUME CallInv, Observe, NEW r \in Reader, NEW s \in Reader \ {r}, pc'[s] = pc[s],
           ~disturbed'[s]
    PROVE  /\ ~disturbed[s]
           /\ InCall(r) \/ InCall(r)' => ~InCall(s)
<1>1. disturbed'[s] = (pc'[s] # "closed" /\ (disturbed[s] \/ Overlaps(s)'))
  BY DEF Observe
<1>2. ~disturbed[s]
  BY <1>1 DEF CallInv
<1>3. ~Overlaps(s) /\ (InCall(s) => ~Overlaps(s)')
  BY <1>1, <1>2 DEF CallInv, InCall, Reading
<1>4. InCall(s)' = InCall(s)
  BY DEF InCall
<1> QED  BY <1>2, <1>3, <1>4 DEF Overlaps

(* A time is settled only if it was, if none was shown since loading, or   *)
(* if it was shown just now.                                               *)
LEMMA Settled ==
    ASSUME Observe, settled', last' # NoTime,
           \A r \in Reader : ~(pc[r] = "copy" /\ pc'[r] = "save")
    PROVE  settled
  BY DEF Observe

(* A process's step leaves what belongs to the others alone.               *)
LEMMA OthersFrame ==
    ASSUME TypeOK, NEW r \in Reader, Read(r) \/ Other(r), NEW s \in Reader \ {r}
    PROVE  /\ pc'[s] = pc[s] /\ first'[s] = first[s] /\ text'[s] = text[s]
           /\ ppos'[s] = ppos[s] /\ texts'[s] = texts[s]
<1>1. CASE Other(r)
  BY <1>1 DEF Other, Open, Close, WriteLen, WriteReturn, Goto, TypeOK, ghosts
<1>2. CASE Read(r)
  BY <1>2 DEF Read, Begin, Stamp, FormatCurrent, ComputeDiff, FormatElapsed, SetLen, Refuse,
     Accept, CopyToUser, CopyFails, Save, SetPos, Return, Goto, TypeOK, ghosts
<1> QED  BY <1>1, <1>2

(* Opening, closing and writing change nothing a later read relies on: it  *)
(* computes its own length.                                                *)
LEMMA OtherStep ==
    ASSUME NEW r \in Reader, TimerInv, Other(r), Observe
    PROVE  TimerInv'
<1>inv. TypeOK /\ LoadInv /\ CallInv /\ PrevInv /\ TextInv /\ LenInv
  BY DEF TimerInv
<1>obs. disturbed' \in [Reader -> BOOLEAN] /\ settled' \in BOOLEAN /\ CallInv'
  BY ObserveStep
<1>0. /\ pc' \in [Reader -> Resting \union Reading]
      /\ pc[r] \in Resting /\ pc'[r] \in Resting
      /\ UNCHANGED <<loaded, statics, first, text, last>>
  BY <1>inv DEF Other, Open, Close, WriteLen, WriteReturn, Goto, ghosts, TypeOK,
     Resting, Reading
<1>1. procfs_buf_len' \in 0 .. BUF_LEN
  <2>1. CASE WriteLen(r)
    BY <2>1, LengthAssumption DEF WriteLen
  <2>2. CASE ~WriteLen(r)
    BY <2>2, <1>inv DEF Other, Open, Close, WriteReturn, TypeOK
  <2> QED  BY <2>1, <2>2
<1>2. /\ ppos' \in [Reader -> 0 .. BUF_LEN] /\ texts' \in [Reader -> 0 .. 2]
      /\ ~disturbed'[r] =>
           texts'[r] = IF pc'[r] # "closed" /\ ppos'[r] > 0 THEN 1 ELSE 0
  <2>1. CASE Open(r)
    BY <2>1, <1>inv, LengthAssumption DEF Open, Goto, ghosts, TypeOK, LenInv, CallInv
  <2>2. CASE Close(r)
    BY <2>2, <1>inv DEF Close, Goto, TypeOK
  <2>3. CASE WriteLen(r) \/ WriteReturn(r)
    <3>1. UNCHANGED <<ppos, texts>> /\ pc[r] \in {"idle", "write"} /\ pc'[r] \in {"idle", "write"}
      BY <2>3, <1>inv DEF WriteLen, WriteReturn, Goto, ghosts, TypeOK
    <3>2. ~disturbed'[r] => ~disturbed[r]
      BY <3>1 DEF Observe
    <3> QED  BY <3>1, <3>2, <1>inv DEF TypeOK, LenInv
  <2> QED  BY <2>1, <2>2, <2>3 DEF Other
<1>3. TypeOK'
  BY <1>inv, <1>obs, <1>0, <1>1, <1>2 DEF TypeOK, statics
<1>4. \A s \in Reader \ {r} :
        /\ pc'[s] = pc[s] /\ ppos'[s] = ppos[s] /\ texts'[s] = texts[s]
        /\ ~disturbed'[s] => ~disturbed[s]
  BY <1>inv, OthersFrame, Bystander
<1>5. PrevInv'
  <2>1. /\ t0' = t0 /\ t1' = t1 /\ last' = last /\ first' = first
        /\ \A s \in Reader : pc'[s] = "save" <=> pc[s] = "save"
    BY <1>0, <1>4 DEF statics, Resting
  <2>2. settled' /\ last' # NoTime => settled
    BY <1>inv, <1>0, <1>4, Settled DEF Resting
  <2>3. \A s \in Reader : ~disturbed'[s] /\ pc'[s] \in Reading => ~disturbed[s] /\ pc'[s] = pc[s]
    BY <1>0, <1>4 DEF Resting, Reading
  <2>4. \A s \in Reader : ~disturbed'[s] =>
          /\ pc'[s] = "save" => last' = t1'
          /\ pc'[s] \in Reading \ {"save", "pos"} => first'[s] = ~(t0'.nsec > 0)
    BY <1>inv, <2>1, <2>3 DEF PrevInv, Reading
  <2> QED  BY <1>inv, <2>1, <2>2, <2>4 DEF PrevInv
<1>6. TextInv'
  BY <1>inv, <1>0, <1>4 DEF TextInv, statics, Resting
<1>7. LenInv'
  <2>1. ASSUME NEW s \in Reader, ~disturbed'[s], s # r
        PROVE  pc[s] \in {"check", "copy", "save", "pos"} => UNCHANGED procfs_buf_len
    <3>1. CASE WriteLen(r)
      <4>1. InCall(r)' /\ pc'[s] = pc[s]
        BY <3>1, <1>inv, <1>4, <2>1 DEF WriteLen, Goto, TypeOK, InCall
      <4>2. ~InCall(s)
        BY <4>1, <2>1, <1>inv, Bystander
      <4> QED  BY <4>2 DEF InCall, Reading
    <3>2. CASE ~WriteLen(r)
      BY <3>2 DEF Other, Open, Close, WriteReturn
    <3> QED  BY <3>1, <3>2
  <2> QED  BY <1>inv, <1>0, <1>2, <1>4, <2>1 DEF LenInv, Resting
<1>8. LoadInv'
  BY <1>inv DEF Other, Open, Close, WriteLen, WriteReturn, Goto, LoadInv, TypeOK
<1> QED  BY <1>3, <1>obs, <1>5, <1>6, <1>7, <1>8 DEF TimerInv

(* Unloading meets no read, and loading starts with no previous time.      *)
LEMMA LoadStep ==
    ASSUME TimerInv, timer_init \/ timer_exit, Observe
    PROVE  TimerInv'
<1>inv. TypeOK /\ LoadInv /\ CallInv /\ PrevInv /\ TextInv /\ LenInv
  BY DEF TimerInv
<1>obs. disturbed' \in [Reader -> BOOLEAN] /\ settled' \in BOOLEAN /\ CallInv'
  BY ObserveStep
<1>0. \A r \in Reader : /\ pc[r] \in {"closed", "idle", "stale"}
                        /\ pc'[r] \in {"closed", "stale"}
                        /\ pc'[r] = "closed" <=> pc[r] = "closed"
  BY <1>inv DEF timer_init, timer_exit, LoadInv
<1>1. \A r \in Reader : ~disturbed'[r] => ~disturbed[r]
  <2> SUFFICES ASSUME NEW r \in Reader, ~disturbed'[r] PROVE ~disturbed[r]
    OBVIOUS
  <2>1. disturbed'[r] = (pc'[r] # "closed" /\ (disturbed[r] \/ Overlaps(r)'))
    BY DEF Observe
  <2> QED  BY <1>inv, <1>0, <2>1 DEF CallInv
<1>2. UNCHANGED <<first, text, ppos, texts>>
  BY DEF timer_init, timer_exit, ghosts
<1>3. LoadInv'
  BY <1>0 DEF LoadInv
<1>4. TextInv' /\ LenInv'
  BY <1>inv, <1>0, <1>1, <1>2 DEF TextInv, LenInv
<1>5. CASE timer_exit
  <2>1. TypeOK'
    BY <1>5, <1>inv, <1>obs DEF timer_exit, TypeOK, statics, ghosts, Resting
  <2>2. settled' /\ last' # NoTime => settled
    BY <1>0, Settled
  <2>3. PrevInv'
    BY <1>5, <1>inv, <1>0, <2>2 DEF timer_exit, PrevInv, statics, ghosts, Reading
  <2> QED  BY <1>obs, <1>3, <1>4, <2>1, <2>3 DEF TimerInv
<1>6. CASE timer_init
  <2>1. TypeOK'
    BY <1>6, <1>inv, <1>obs, TimeFields, LengthAssumption DEF timer_init, TypeOK
  <2>2. PrevInv'
    BY <1>6, <1>0 DEF timer_init, PrevInv, Reading
  <2> QED  BY <1>obs, <1>3, <1>4, <2>1, <2>2 DEF TimerInv
<1> QED  BY <1>5, <1>6

(* Each statement of procfile_read keeps the invariant: for a process that *)
(* nobody disturbs t0 is what was shown last until line 62 or 82, the text *)
(* is what t1 and t0 give, and procfs_buf_len its length from line 56 on.  *)
LEMMA ReadStep ==
    ASSUME NEW r \in Reader, TimerInv, Read(r), Observe
    PROVE  TimerInv'
<1>inv. TypeOK /\ LoadInv /\ CallInv /\ PrevInv /\ TextInv /\ LenInv
  BY DEF TimerInv
<1>obs. disturbed' \in [Reader -> BOOLEAN] /\ settled' \in BOOLEAN /\ CallInv'
  BY ObserveStep
<1>call. /\ InCall(r) \/ InCall(r)'
         /\ pc'[r] \in Reading \union {"idle"} /\ pc'[r] # "closed"
  BY <1>inv DEF Read, Begin, Stamp, FormatCurrent, ComputeDiff, FormatElapsed, SetLen, Refuse,
     Accept, CopyToUser, CopyFails, Save, SetPos, Goto, InCall, TypeOK, Reading
<1>others. \A s \in Reader \ {r} :
             /\ pc'[s] = pc[s] /\ first'[s] = first[s] /\ text'[s] = text[s]
             /\ ppos'[s] = ppos[s] /\ texts'[s] = texts[s]
             /\ ~disturbed'[s] =>
                  ~disturbed[s] /\ pc[s] \notin Reading /\ pc'[s] \notin Reading
  <2> SUFFICES ASSUME NEW s \in Reader \ {r}
               PROVE  /\ pc'[s] = pc[s] /\ first'[s] = first[s] /\ text'[s] = text[s]
                      /\ ppos'[s] = ppos[s] /\ texts'[s] = texts[s]
                      /\ ~disturbed'[s] =>
                           ~disturbed[s] /\ pc[s] \notin Reading /\ pc'[s] \notin Reading
    OBVIOUS
  <2>1. /\ pc'[s] = pc[s] /\ first'[s] = first[s] /\ text'[s] = text[s]
        /\ ppos'[s] = ppos[s] /\ texts'[s] = texts[s]
    BY <1>inv, OthersFrame
  <2>2. ~disturbed'[s] => ~disturbed[s] /\ ~InCall(s)
    BY <1>inv, <1>call, <2>1, Bystander
  <2> QED  BY <2>1, <2>2 DEF InCall
<1>self. ~disturbed'[r] => ~disturbed[r]
  BY <1>call DEF Observe
<1>load. LoadInv'
  BY <1>inv DEF Read, Begin, Stamp, FormatCurrent, ComputeDiff, FormatElapsed, SetLen, Refuse,
     Accept, CopyToUser, CopyFails, Save, SetPos, Goto, LoadInv, TypeOK
<1>settled. settled' /\ last' # NoTime /\ ~CopyToUser(r) => settled
  <2> SUFFICES ASSUME settled', last' # NoTime, ~CopyToUser(r) PROVE settled
    OBVIOUS
  <2>1. ~(pc[r] = "copy" /\ pc'[r] = "save")
    BY <1>inv DEF Read, Begin, Stamp, FormatCurrent, ComputeDiff, FormatElapsed, SetLen, Refuse,
       Accept, CopyFails, Save, SetPos, Goto, TypeOK
  <2>2. \A s \in Reader : ~(pc[s] = "copy" /\ pc'[s] = "save")
    BY <2>1, <1>others
  <2> QED  BY <2>2, Settled
(* t0 and last stay as they are, and nobody comes to a save or leaves one. *)
<1>prev. ASSUME UNCHANGED <<t0, last>>, ~CopyToUser(r),
                pc[r] # "save", pc'[r] # "save",
                ~disturbed[r] /\ pc'[r] \in Reading \ {"save", "pos"} =>
                  first'[r] = ~(t0.nsec > 0)
         PROVE  PrevInv'
  <2>1. \A s \in Reader : pc'[s] = "save" <=> pc[s] = "save"
    BY <1>prev, <1>others
  <2>2. ASSUME NEW s \in Reader, ~disturbed'[s]
        PROVE  /\ pc'[s] = "save" => last' = t1'
               /\ pc'[s] \in Reading \ {"save", "pos"} => first'[s] = ~(t0'.nsec > 0)
    BY <2>2, <1>prev, <1>others, <1>self DEF Reading
  <2> QED  BY <1>prev, <1>settled, <1>inv, <2>1, <2>2 DEF PrevInv
<1> USE <1>inv, <1>obs, <1>others, <1>self DEF statics, ghosts, Goto
<1>1. CASE Begin(r)
  <2> USE <1>1 DEF Begin
  <2>1. TypeOK'
    BY DEF TypeOK, Resting, Reading
  <2>2. PrevInv'
    <3>1. UNCHANGED <<t0, last>> /\ ~CopyToUser(r) /\ pc[r] # "save" /\ pc'[r] # "save"
      BY DEF TypeOK, CopyToUser
    <3>2. ~disturbed[r] /\ pc'[r] \in Reading \ {"save", "pos"} => first'[r] = ~(t0.nsec > 0)
      BY DEF PrevInv, TypeOK, Reading, Return
    <3> QED  BY <1>prev, <3>1, <3>2
  <2>3. TextInv'
    BY DEF TextInv, TypeOK, Text, Reading, NoText, Return
  <2>4. LenInv'
    BY DEF LenInv, TypeOK, Reading, TextLen, Return
  <2> QED  BY <1>obs, <1>load, <2>1, <2>2, <2>3, <2>4 DEF TimerInv
<1>2. CASE Stamp(r)
  <2> USE <1>2 DEF Stamp
  <2>1. TypeOK'
    BY ClockAssumption DEF TypeOK, Resting, Reading
  <2>2. PrevInv'
    <3>1. UNCHANGED <<t0, last>> /\ ~CopyToUser(r) /\ pc[r] # "save" /\ pc'[r] # "save"
      BY DEF TypeOK, CopyToUser
    <3>2. ~disturbed[r] /\ pc'[r] \in Reading \ {"save", "pos"} => first'[r] = ~(t0.nsec > 0)
      BY DEF PrevInv, TypeOK, Reading, Return
    <3> QED  BY <1>prev, <3>1, <3>2
  <2>3. TextInv'
    BY DEF TextInv, TypeOK, Text, Reading, NoText, Return
  <2>4. LenInv'
    BY DEF LenInv, TypeOK, Reading, TextLen, Return
  <2> QED  BY <1>obs, <1>load, <2>1, <2>2, <2>3, <2>4 DEF TimerInv
<1>3. CASE FormatCurrent(r)
  <2> USE <1>3 DEF FormatCurrent
  <2>1. TypeOK'
    BY DEF TypeOK, Text, Resting, Reading
  <2>2. PrevInv'
    <3>1. UNCHANGED <<t0, last>> /\ ~CopyToUser(r) /\ pc[r] # "save" /\ pc'[r] # "save"
      BY DEF TypeOK, CopyToUser
    <3>2. ~disturbed[r] /\ pc'[r] \in Reading \ {"save", "pos"} => first'[r] = ~(t0.nsec > 0)
      BY DEF PrevInv, TypeOK, Reading, Return
    <3> QED  BY <1>prev, <3>1, <3>2
  <2>3. TextInv'
    BY TimeFields DEF TextInv, TypeOK, Text, Reading
  <2>4. LenInv'
    BY DEF LenInv, TypeOK, Reading, TextLen, Return
  <2> QED  BY <1>obs, <1>load, <2>1, <2>2, <2>3, <2>4 DEF TimerInv
<1>4. CASE ComputeDiff(r)
  <2> USE <1>4 DEF ComputeDiff
  <2>1. TypeOK'
    <3>1. Minus(t1, t0) \in Span
      BY MinusExact DEF TypeOK
    <3> QED  BY <3>1 DEF TypeOK, Resting, Reading
  <2>2. PrevInv'
    <3>1. UNCHANGED <<t0, last>> /\ ~CopyToUser(r) /\ pc[r] # "save" /\ pc'[r] # "save"
      BY DEF TypeOK, CopyToUser
    <3>2. ~disturbed[r] /\ pc'[r] \in Reading \ {"save", "pos"} => first'[r] = ~(t0.nsec > 0)
      BY DEF PrevInv, TypeOK, Reading, Return
    <3> QED  BY <1>prev, <3>1, <3>2
  <2>3. TextInv'
    BY DEF TextInv, TypeOK, Text, Reading, NoText, Return
  <2>4. LenInv'
    BY DEF LenInv, TypeOK, Reading, TextLen, Return
  <2> QED  BY <1>obs, <1>load, <2>1, <2>2, <2>3, <2>4 DEF TimerInv
<1>5. CASE FormatElapsed(r)
  <2> USE <1>5 DEF FormatElapsed
  <2>1. TypeOK'
    BY DEF TypeOK, Text, Resting, Reading
  <2>2. PrevInv'
    <3>1. UNCHANGED <<t0, last>> /\ ~CopyToUser(r) /\ pc[r] # "save" /\ pc'[r] # "save"
      BY DEF TypeOK, CopyToUser
    <3>2. ~disturbed[r] /\ pc'[r] \in Reading \ {"save", "pos"} => first'[r] = ~(t0.nsec > 0)
      BY DEF PrevInv, TypeOK, Reading, Return
    <3> QED  BY <1>prev, <3>1, <3>2
  <2>3. TextInv'
    BY DEF TextInv, TypeOK, Text, Reading, NoText, Return
  <2>4. LenInv'
    BY DEF LenInv, TypeOK, Reading, TextLen, Return
  <2> QED  BY <1>obs, <1>load, <2>1, <2>2, <2>3, <2>4 DEF TimerInv
<1>6. CASE SetLen(r)
  <2> USE <1>6 DEF SetLen
  <2>1. TypeOK'
    BY LengthAssumption DEF TypeOK, TextLen, Resting, Reading
  <2>2. PrevInv'
    <3>1. UNCHANGED <<t0, last>> /\ ~CopyToUser(r) /\ pc[r] # "save" /\ pc'[r] # "save"
      BY DEF TypeOK, CopyToUser
    <3>2. ~disturbed[r] /\ pc'[r] \in Reading \ {"save", "pos"} => first'[r] = ~(t0.nsec > 0)
      BY DEF PrevInv, TypeOK, Reading, Return
    <3> QED  BY <1>prev, <3>1, <3>2
  <2>3. TextInv'
    BY DEF TextInv, TypeOK, Text, Reading, NoText, Return
  <2>4. LenInv'
    BY DEF LenInv, TypeOK, Reading, TextLen, Return
  <2> QED  BY <1>obs, <1>load, <2>1, <2>2, <2>3, <2>4 DEF TimerInv
<1>7. CASE Refuse(r)
  <2> USE <1>7 DEF Refuse
  <2>1. TypeOK'
    BY TimeFields DEF TypeOK, Text, NoText, Return, Resting, Reading
  <2>2. PrevInv'
    <3>1. UNCHANGED <<t0, last>> /\ ~CopyToUser(r) /\ pc[r] # "save" /\ pc'[r] # "save"
      BY DEF TypeOK, CopyToUser
    <3>2. ~disturbed[r] /\ pc'[r] \in Reading \ {"save", "pos"} => first'[r] = ~(t0.nsec > 0)
      BY DEF PrevInv, TypeOK, Reading, Return
    <3> QED  BY <1>prev, <3>1, <3>2
  <2>3. TextInv'
    BY DEF TextInv, TypeOK, Text, Reading, NoText, Return
  <2>4. LenInv'
    BY DEF LenInv, TypeOK, Reading, TextLen, Return
  <2> QED  BY <1>obs, <1>load, <2>1, <2>2, <2>3, <2>4 DEF TimerInv
<1>8. CASE Accept(r)
  <2> USE <1>8 DEF Accept
  <2>1. TypeOK'
    BY DEF TypeOK, Resting, Reading
  <2>2. PrevInv'
    <3>1. UNCHANGED <<t0, last>> /\ ~CopyToUser(r) /\ pc[r] # "save" /\ pc'[r] # "save"
      BY DEF TypeOK, CopyToUser
    <3>2. ~disturbed[r] /\ pc'[r] \in Reading \ {"save", "pos"} => first'[r] = ~(t0.nsec > 0)
      BY DEF PrevInv, TypeOK, Reading, Return
    <3> QED  BY <1>prev, <3>1, <3>2
  <2>3. TextInv'
    BY DEF TextInv, TypeOK, Text, Reading, NoText, Return
  <2>4. LenInv'
    BY DEF LenInv, TypeOK, Reading, TextLen, Return
  <2> QED  BY <1>obs, <1>load, <2>1, <2>2, <2>3, <2>4 DEF TimerInv
<1>9. CASE CopyFails(r)
  <2> USE <1>9 DEF CopyFails
  <2>1. TypeOK'
    BY TimeFields DEF TypeOK, Text, NoText, Return, Resting, Reading
  <2>2. PrevInv'
    <3>1. UNCHANGED <<t0, last>> /\ ~CopyToUser(r) /\ pc[r] # "save" /\ pc'[r] # "save"
      BY DEF TypeOK, CopyToUser
    <3>2. ~disturbed[r] /\ pc'[r] \in Reading \ {"save", "pos"} => first'[r] = ~(t0.nsec > 0)
      BY DEF PrevInv, TypeOK, Reading, Return
    <3> QED  BY <1>prev, <3>1, <3>2
  <2>3. TextInv'
    BY DEF TextInv, TypeOK, Text, Reading, NoText, Return
  <2>4. LenInv'
    BY DEF LenInv, TypeOK, Reading, TextLen, Return
  <2> QED  BY <1>obs, <1>load, <2>1, <2>2, <2>3, <2>4 DEF TimerInv
<1>10. CASE CopyToUser(r)
  <2> USE <1>10 DEF CopyToUser
  <2>1. TypeOK'
    BY DEF TypeOK, Text, Resting, Reading
  <2>2. PrevInv'
    <3>1. last' # NoTime /\ pc'[r] = "save" /\ t0' = t0 /\ t1' = t1
      BY DEF TextInv, TypeOK
    <3>2. ~disturbed'[r] => last' = t1'
      BY <3>1 DEF TextInv
    <3> QED  BY <3>1, <3>2 DEF PrevInv, Reading
  <2>3. TextInv'
    BY DEF TextInv, TypeOK, Text, Reading, NoText, Return
  <2>4. LenInv'
    BY DEF LenInv, TypeOK, Reading, TextLen, Return
  <2> QED  BY <1>obs, <1>load, <2>1, <2>2, <2>3, <2>4 DEF TimerInv
<1>11. CASE Save(r)
  <2> USE <1>11 DEF Save
  <2>1. TypeOK'
    BY DEF TypeOK, Resting, Reading
  <2>2. PrevInv'
    <3>1. last' = last /\ last # NoTime /\ pc[r] = "save" /\ pc'[r] = "pos" /\ t0' = t1
      BY DEF PrevInv, TypeOK
    <3>2. settled' => t1 = last
      \* Nobody disturbed a read whose time is settled.
      <4>1. settled' => settled
        BY <3>1, <1>settled DEF CopyToUser
      <4> QED  BY <3>1, <4>1 DEF CallInv, PrevInv
    <3>3. \A s \in Reader \ {r} : ~disturbed'[s] => pc'[s] \notin Reading
      OBVIOUS
    <3> QED  BY <3>1, <3>2, <3>3 DEF PrevInv, Reading
  <2>3. TextInv'
    BY DEF TextInv, TypeOK, Text, Reading, NoText, Return
  <2>4. LenInv'
    BY DEF LenInv, TypeOK, Reading, TextLen, Return
  <2> QED  BY <1>obs, <1>load, <2>1, <2>2, <2>3, <2>4 DEF TimerInv
<1>12. CASE SetPos(r)
  <2> USE <1>12 DEF SetPos
  <2>1. TypeOK'
    BY TimeFields DEF TypeOK, Text, NoText, Return, Resting, Reading
  <2>2. PrevInv'
    <3>1. UNCHANGED <<t0, last>> /\ ~CopyToUser(r) /\ pc[r] # "save" /\ pc'[r] # "save"
      BY DEF TypeOK, CopyToUser
    <3>2. ~disturbed[r] /\ pc'[r] \in Reading \ {"save", "pos"} => first'[r] = ~(t0.nsec > 0)
      BY DEF PrevInv, TypeOK, Reading, Return
    <3> QED  BY <1>prev, <3>1, <3>2
  <2>3. TextInv'
    BY DEF TextInv, TypeOK, Text, Reading, NoText, Return
  <2>4. LenInv'
    <3>1. ~disturbed'[r] => ppos'[r] = TextLen(text[r]) /\ texts'[r] = 1 /\ pc'[r] = "idle"
      BY DEF LenInv, TypeOK
    <3>2. TextLen(text[r]) > 0
      BY DEF TextLen
    <3> QED  BY <3>1, <3>2 DEF LenInv, Reading
  <2> QED  BY <1>obs, <1>load, <2>1, <2>2, <2>3, <2>4 DEF TimerInv
<1> QED  BY <1>1, <1>2, <1>3, <1>4, <1>5, <1>6, <1>7, <1>8, <1>9, <1>10, <1>11, <1>12
         DEF Read

(* Every step keeps it.                                                    *)
LEMMA TimerStep == TimerInv /\ [Next]_vars => TimerInv'
<1> SUFFICES ASSUME TimerInv, [Next]_vars PROVE TimerInv'
  OBVIOUS
<1>1. CASE UNCHANGED vars
  BY <1>1 DEF vars, statics, ghosts, overlaps, TimerInv, TypeOK, LoadInv, CallInv, Overlaps,
     InCall, PrevInv, TextInv, LenInv, TextLen
<1>2. CASE Next
  BY <1>2, LoadStep, ReadStep, OtherStep DEF Next
<1> QED  BY <1>1, <1>2

(* procfile_read and procfile_write, called by any number of processes at  *)
(* any time, keep the inductive invariant.                                 *)
THEOREM TimerInvariance == Spec => []TimerInv
  BY TimerInit, TimerStep, PTL DEF Spec

-----------------------------------------------------------------------------
(***************************************************************************)
(* What it says of a process that is about to be shown its text.           *)
(***************************************************************************)

(* t0 is the time that was shown last, and the text is what t1 and t0 give.*)
LEMMA ShownText ==
    ASSUME TimerInv, NEW r \in Reader, Shows(r)
    PROVE  /\ last # NoTime => t0 = last
           /\ last = NoTime => t0 = Zero
           /\ text[r].current = t1
           /\ text[r].elapsed = IF t0.nsec > 0 THEN Minus(t1, t0) ELSE NoTime
<1>1. \A s \in Reader : pc[s] # "save"
  BY DEF TimerInv, Shows, CallInv, Overlaps, InCall, Reading
<1>2. first[r] = ~(t0.nsec > 0)
  BY DEF TimerInv, Shows, PrevInv, Reading
<1>3. text[r].elapsed = IF first[r] THEN NoTime ELSE Minus(t1, t0)
  BY DEF TimerInv, Shows, TextInv
<1> QED  BY <1>1, <1>2, <1>3 DEF TimerInv, Shows, PrevInv, TextInv

(* Whoever reads and whatever overlaps, a process whose read nobody        *)
(* disturbed, nor the successful read before it, is shown exactly the time *)
(* since that one: the borrow of lines 36-46 is right at every boundary,   *)
(* also for a clock that was set back, and reads at the end of the file do *)
(* not disturb t0.                                                         *)
THEOREM ElapsedIsExact == Spec => []ElapsedExact
<1>1. ASSUME TimerInv PROVE ElapsedExact
  <2> SUFFICES ASSUME NEW r \in Reader, Shows(r), text[r].elapsed # NoTime
               PROVE  /\ last # NoTime
                      /\ Value(text[r].elapsed) = Value(text[r].current) - Value(last)
    BY DEF ElapsedExact
  <2>1. t0.nsec > 0 /\ text[r].elapsed = Minus(t1, t0) /\ text[r].current = t1
    BY <1>1, ShownText
  <2>2. last # NoTime /\ t0 = last
    BY <1>1, <2>1, ShownText DEF Zero
  <2>3. t0 \in Time /\ t1 \in Time
    BY <1>1 DEF TimerInv, TypeOK
  <2> QED  BY <2>1, <2>2, <2>3, MinusExact
<1> QED  BY <1>1, TimerInvariance, PTL

(* Under the same condition every read after the first shows an elapsed    *)
(* time, unless the one before fell on a whole second: reads that end the  *)
(* file or fail do not make procfile_read forget the previous time.        *)
THEOREM ElapsedIsShown == Spec => []ElapsedShown
<1>1. ASSUME TimerInv PROVE ElapsedShown
  <2> SUFFICES ASSUME NEW r \in Reader, Shows(r), last # NoTime, last.nsec > 0
               PROVE  text[r].elapsed # NoTime
    BY DEF ElapsedShown
  <2>1. text[r].elapsed = Minus(t1, t0)
    BY <1>1, ShownText
  <2>2. t0 \in Time /\ t1 \in Time
    BY <1>1 DEF TimerInv, TypeOK
  <2> QED  BY <2>1, <2>2, MinusExact
<1> QED  BY <1>1, TimerInvariance, PTL

(* A process none of whose calls was overlapped gets its whole text, at    *)
(* most once for each open, whatever the others do between its calls: what *)
(* procfile_write leaves in procfs_buf_len never reaches it, and the       *)
(* position it is stored in is never 0.                                    *)
THEOREM WholeTextOnceHolds == Spec => []WholeTextOnce
<1>1. ASSUME TimerInv PROVE WholeTextOnce
  <2> SUFFICES ASSUME NEW r \in Reader, ~disturbed[r]
               PROVE  /\ pc[r] = "copy" => procfs_buf_len = TextLen(text[r])
                      /\ texts[r] <= 1
    BY DEF WholeTextOnce
  <2>1. LenInv
    BY <1>1 DEF TimerInv
  <2>2. texts[r] \in {0, 1}
    BY <2>1 DEF LenInv
  <2> QED  BY <2>1, <2>2 DEF LenInv
<1> QED  BY <1>1, TimerInvariance, PTL

(* Whatever overlaps, t0 and t1 are times and procfs_buf_len never exceeds *)
(* msg, which procfile_write copies that many bytes to.                    *)
THEOREM TimerTypeCorrect == Spec => []TypeOK
<1>1. TimerInv => TypeOK
  BY DEF TimerInv
<1> QED  BY <1>1, TimerInvariance, PTL

=============================================================================
