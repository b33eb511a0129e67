-------------------------- MODULE FrameRing_proofs --------------------------
(***************************************************************************)
(* Proofs about FrameRing, for every depth of the ring, number of words,   *)
(* number of readers and of attempts.                                      *)
(***************************************************************************)
EXTENDS FrameRing, Integers, TLAPS

(* A slot whose number is even holds one whole frame, which belongs there.   *)
SlotInv ==
  \A s \in Slots : ~ Odd(seq[s]) =>
    /\ \A k \in 1 .. Words : body[s][k] = body[s][1]
    /\ body[s][1] = NoFrame \/ SlotOf(body[s][1].fid) = s

(* The writer's slot is odd while it is being filled, holds the writer's     *)
(* frame as far as it has been filled, and all of it once it is published.   *)
WriterInv ==
  LET s == SlotOf(wfid) IN
  /\ wpc \in {"fill", "unlock"} => Odd(seq[s])
  /\ wpc = "fill" => \A k \in 1 .. wk - 1 : body[s][k] = Current
  /\ wpc = "unlock" => \A k \in 1 .. Words : body[s][k] = Current
  /\ wpc \in {"latest", "note"} => ~ Odd(seq[s]) /\ body[s][1] = Current

(* As long as the number of its slot has not moved on, what a reader has     *)
(* copied is what the slot holds.                                            *)
CopyInv ==
  \A r \in Readers : LET s == SlotOf(want[r].fid) IN
    /\ rpc[r] \in {"copy", "check"} => ~ Odd(s1[r]) /\ s1[r] <= seq[s]
    /\ rpc[r] = "copy" /\ seq[s] = s1[r] =>
         \A k \in 1 .. rk[r] - 1 : copy[r][k] = body[s][k]
    /\ rpc[r] = "check" /\ seq[s] = s1[r] =>
         \A k \in 1 .. Words : copy[r][k] = body[s][k]

RingInv == TypeOK /\ SlotInv /\ WriterInv /\ CopyInv /\ NoTornRead

(* What the history variable `absent` knows of a call in flight.             *)
AbsentInv ==
  \A r \in Readers : LET s == SlotOf(want[r].fid) IN
    /\ Pending(r) => want[r].fid # 0
    /\ Pending(r) /\ Content(s).fid # want[r].fid => absent[r]
    /\ Pending(r) /\ tries[r] > 0 => absent[r]
    /\ rpc[r] \in {"copy", "check"} /\ seq[s] # s1[r] => absent[r]

MissInv == RingInv /\ AbsentInv /\ NoSpuriousMiss

(* A slot never goes back to an earlier life of the writer than that of any  *)
(* frame that was announced, stored in `latest`, or asked for.               *)
Settled(f) ==
  LET s == SlotOf(f.fid) IN
  /\ f.epoch <= epoch
  /\ ~ Odd(seq[s]) => f.epoch <= body[s][1].epoch

EpochInv ==
  /\ \A f \in noted : Settled(f)
  /\ latest # NoFrame => Settled(latest)
  /\ \A r \in Readers : Pending(r) => Settled(want[r])
  /\ \A s \in Slots, k \in 1 .. Words : body[s][k].epoch <= epoch

AgeInv == RingInv /\ EpochInv /\ NeverOlder

(* While the writer that stored `latest` lives, it is at most one frame on.  *)
LatestInv ==
  latest # NoFrame /\ latest.epoch = epoch =>
    /\ wpc \in {"idle", "note"} => latest.fid = wfid
    /\ wpc \in {"lock", "fill", "unlock", "latest"} => latest.fid + 1 = wfid

LatestReadableInv == AgeInv /\ LatestInv /\ LatestReadable
-----------------------------------------------------------------------------
(* The mark of a slot being written is odd, and never below the old number.  *)
LEMMA MarkIsOdd ==
  ASSUME NEW n \in Nat
  PROVE  /\ Mark(n) \in Nat
         /\ Odd(Mark(n))
         /\ n <= Mark(n)
         /\ ~ Odd(n) => n < Mark(n)
         /\ ~ Odd(Mark(n) + 1)
         /\ Odd(n) => ~ Odd(n + 1)
BY DEF Mark, Odd

LEMMA SlotOfType ==
  ASSUME NEW f \in Nat
  PROVE  SlotOf(f) \in Slots /\ ReadSlot(f) = SlotOf(f)
BY ConstantsAssumption DEF SlotOf, ReadSlot, Slots

LEMMA FrameType ==
  ASSUME NEW f \in Frames \cup {NoFrame}
  PROVE  f.fid \in Nat /\ f.epoch \in Nat
BY ConstantsAssumption DEF Frames, NoFrame

-----------------------------------------------------------------------------
(* Type correctness.                                                         *)

LEMMA InitType == Init => TypeOK
BY ConstantsAssumption
   DEF Init, TypeOK, MemoryType, WriterType, ReaderType, NoFrame

LEMMA WantType ==
  ASSUME ReaderType, NEW r \in Readers
  PROVE  /\ want[r].fid \in Nat /\ want[r].epoch \in Nat
         /\ SlotOf(want[r].fid) \in Slots
         /\ ReadSlot(want[r].fid) = SlotOf(want[r].fid)
<1>1. want[r] \in Frames \cup {NoFrame}
  BY DEF ReaderType
<1>2. want[r].fid \in Nat /\ want[r].epoch \in Nat
  BY <1>1, FrameType
<1> QED BY <1>2, SlotOfType

LEMMA WriterSlotType ==
  ASSUME WriterType
  PROVE  /\ wfid \in Nat /\ epoch \in Nat
         /\ SlotOf(wfid) \in Slots
         /\ wpc # "idle" => Current \in Frames
BY ConstantsAssumption, SlotOfType DEF WriterType, Current, Frames

(* A step of the writer leaves the readers alone, but for their history.     *)
LEMMA WriterStepType == TypeOK /\ (Write \/ Restart) => TypeOK'
<1> SUFFICES ASSUME TypeOK, Write \/ Restart PROVE TypeOK'
  OBVIOUS
<1> USE ConstantsAssumption DEF TypeOK
<1>1. /\ SlotOf(wfid) \in Slots
      /\ wpc # "idle" => Current \in Frames
  BY WriterSlotType
<1>2. CASE Capture
  BY <1>2 DEF Capture, memory, readers, MemoryType, WriterType, ReaderType
<1>3. CASE Lock
  <2>1. Mark(seq[SlotOf(wfid)]) \in Nat
    BY <1>1, MarkIsOdd DEF MemoryType
  <2>2. MemoryType'
    BY <1>3, <1>1, <2>1 DEF Lock, MemoryType
  <2>3. absent' \in [Readers -> BOOLEAN]
    BY <1>3 DEF Lock, Pending, ReaderType
  <2> QED BY <1>3, <2>2, <2>3 DEF Lock, WriterType, ReaderType
<1>4. CASE Fill
  <2>1. MemoryType'
    BY <1>4, <1>1 DEF Fill, MemoryType
  <2> QED BY <1>4, <2>1 DEF Fill, LastWord, readers, WriterType, ReaderType
<1>5. CASE Unlock
  BY <1>5, <1>1 DEF Unlock, readers, MemoryType, WriterType, ReaderType
<1>6. CASE StoreLatest
  BY <1>6, <1>1 DEF StoreLatest, readers, MemoryType, WriterType, ReaderType
<1>7. CASE Note
  BY <1>7, <1>1 DEF Note, memory, readers, MemoryType, WriterType, ReaderType
<1>8. CASE Restart
  BY <1>8 DEF Restart, memory, readers, MemoryType, WriterType, ReaderType
<1> QED
  BY <1>2, <1>3, <1>4, <1>5, <1>6, <1>7, <1>8 DEF Write

LEMMA ReaderStepType ==
  ASSUME TypeOK, NEW r \in Readers,
         \/ \E f \in noted \cup ({latest} \ {NoFrame}) : Call(r, f)
         \/ Read(r)
         \/ Return(r)
  PROVE  TypeOK'
<1> USE ConstantsAssumption DEF TypeOK
<1> DEFINE s == SlotOf(want[r].fid)
<1>1. s \in Slots /\ ReadSlot(want[r].fid) = s
  BY WantType
<1> SUFFICES ReaderType'
  BY DEF Call, Read, Sample, Copy, Check, GiveUp, Return, memory, writer,
         MemoryType, WriterType
<1>2. ASSUME NEW f \in noted \cup ({latest} \ {NoFrame}), Call(r, f)
      PROVE  ReaderType'
  <2>1. f \in Frames
    BY DEF MemoryType, WriterType
  <2> QED BY <1>2, <2>1 DEF Call, ReaderType
<1>3. CASE Sample(r)
  <2>1. seq[s] \in Nat
    BY <1>1 DEF MemoryType
  <2>2. CASE Odd(seq[s])
    <3>1. /\ tries' = [tries EXCEPT ![r] = tries[r] + 1]
          /\ UNCHANGED <<rpc, want, s1, rk, copy, absent>>
      BY <1>1, <1>3, <2>2 DEF Sample
    <3>2. rpc[r] = "try" /\ tries[r] < Tries
      BY <1>3 DEF Sample
    <3>3. tries' \in [Readers -> 0 .. Tries]
      BY <3>1, <3>2 DEF ReaderType
    <3>4. \A q \in Readers : rpc'[q] \in {"copy", "check"} => tries'[q] < Tries
      BY <3>1, <3>2 DEF ReaderType
    <3> QED BY <3>1, <3>3, <3>4 DEF ReaderType
  <2>3. CASE ~ Odd(seq[s])
    <3>1. /\ s1' = [s1 EXCEPT ![r] = seq[s]] /\ rk' = [rk EXCEPT ![r] = 1]
          /\ rpc' = [rpc EXCEPT ![r] = "copy"] /\ UNCHANGED <<want, copy, tries, absent>>
      BY <1>1, <1>3, <2>3 DEF Sample
    <3>2. s1' \in [Readers -> Nat]
      BY <3>1, <2>1 DEF ReaderType
    <3>3. rk' \in [Readers -> 1 .. Words]
      BY <3>1 DEF ReaderType
    <3>4. rpc' \in [Readers -> {"idle", "try", "copy", "check", "hit", "miss"}]
      BY <3>1 DEF ReaderType
    <3>5. \A q \in Readers : rpc'[q] \in {"copy", "check"} => tries'[q] < Tries
      BY <1>3, <3>1 DEF Sample, ReaderType
    <3> QED BY <3>1, <3>2, <3>3, <3>4, <3>5 DEF ReaderType
  <2> QED BY <2>2, <2>3
<1>4. CASE Copy(r)
  <2>1. body[s][rk[r]] \in Frames \cup {NoFrame}
    BY <1>1 DEF MemoryType, ReaderType
  <2>2. /\ copy' = [copy EXCEPT ![r] = [copy[r] EXCEPT ![rk[r]] = body[s][rk[r]]]]
        /\ UNCHANGED <<want, s1, tries, absent>>
        /\ rpc[r] = "copy"
    BY <1>1, <1>4 DEF Copy
  <2>3. [copy[r] EXCEPT ![rk[r]] = body[s][rk[r]]] \in [1 .. Words -> Frames \cup {NoFrame}]
    BY <2>1 DEF ReaderType
  <2>4. copy' \in [Readers -> [1 .. Words -> Frames \cup {NoFrame}]]
    BY <2>2, <2>3 DEF ReaderType
  <2>5. CASE LastWord(rk[r])
    BY <1>4, <2>2, <2>4, <2>5 DEF Copy, ReaderType
  <2>6. CASE ~ LastWord(rk[r])
    <3>1. rk' = [rk EXCEPT ![r] = rk[r] + 1] /\ UNCHANGED rpc
      BY <1>4, <2>6 DEF Copy
    <3>2. rk' \in [Readers -> 1 .. Words]
      BY <3>1, <2>6 DEF LastWord, ReaderType
    <3> QED BY <2>2, <2>4, <3>1, <3>2 DEF ReaderType
  <2> QED BY <2>5, <2>6
<1>5. CASE Check(r)
  <2>1. rpc[r] = "check" /\ tries[r] < Tries
    BY <1>5 DEF Check, ReaderType
  <2>2. CASE Unmoved(r)
    BY <1>5, <2>2 DEF Check, ReaderType
  <2>3. CASE ~ Unmoved(r)
    <3>1. /\ tries' = [tries EXCEPT ![r] = tries[r] + 1]
          /\ rpc' = [rpc EXCEPT ![r] = "try"]
          /\ UNCHANGED <<want, s1, rk, copy, absent>>
      BY <1>5, <2>3 DEF Check
    <3>2. tries' \in [Readers -> 0 .. Tries]
      BY <2>1, <3>1 DEF ReaderType
    <3> QED BY <3>1, <3>2 DEF ReaderType
  <2> QED BY <2>2, <2>3
<1>6. CASE GiveUp(r)
  BY <1>6 DEF GiveUp, ReaderType
<1>7. CASE Return(r)
  BY <1>7 DEF Return, ReaderType, NoFrame
<1> QED BY <1>2, <1>3, <1>4, <1>5, <1>6, <1>7 DEF Read

LEMMA NextType == TypeOK /\ [Next]_vars => TypeOK'
<1>1. TypeOK /\ UNCHANGED vars => TypeOK'
  BY DEF vars, memory, writer, readers, TypeOK, MemoryType, WriterType, ReaderType
<1> QED BY <1>1, WriterStepType, ReaderStepType DEF Next

(* Every variable of the ring keeps its type.                                *)
THEOREM TypeCorrect == Spec => []TypeOK
BY InitType, NextType, PTL DEF Spec
-----------------------------------------------------------------------------
(* No torn read.                                                             *)

LEMMA InitRingInv == Init => RingInv
<1> SUFFICES ASSUME Init PROVE RingInv
  OBVIOUS
<1>1. TypeOK
  BY InitType
<1> QED
  BY <1>1, ConstantsAssumption
     DEF Init, RingInv, SlotInv, WriterInv, CopyInv, NoTornRead

(* The four steps of the writer that leave the slots alone.                  *)
LEMMA QuietWriterStep ==
  RingInv /\ (Capture \/ StoreLatest \/ Note \/ Restart) =>
    SlotInv' /\ WriterInv' /\ CopyInv' /\ NoTornRead'
<1> SUFFICES ASSUME RingInv, Capture \/ StoreLatest \/ Note \/ Restart
             PROVE  SlotInv' /\ WriterInv' /\ CopyInv' /\ NoTornRead'
  OBVIOUS
<1>1. UNCHANGED <<seq, body, readers>>
  BY DEF Capture, StoreLatest, Note, Restart, memory
<1>2. SlotInv' /\ CopyInv' /\ NoTornRead'
  BY <1>1 DEF RingInv, SlotInv, CopyInv, NoTornRead, readers
<1>3. WriterInv'
  BY <1>1 DEF RingInv, WriterInv, Capture, StoreLatest, Note, Restart, Current
<1> QED BY <1>2, <1>3

LEMMA LockStep == RingInv /\ Lock => SlotInv' /\ WriterInv' /\ CopyInv' /\ NoTornRead'
<1> SUFFICES ASSUME RingInv, Lock
             PROVE  SlotInv' /\ WriterInv' /\ CopyInv' /\ NoTornRead'
  OBVIOUS
<1> DEFINE s == SlotOf(wfid)
           n == Mark(seq[s])
<1>1. s \in Slots /\ wfid \in Nat
  BY WriterSlotType DEF RingInv, TypeOK
<1>2. /\ seq' = [seq EXCEPT ![s] = n]
      /\ wpc' = "fill" /\ wk' = 1
      /\ UNCHANGED <<body, wfid, epoch, rpc, want, s1, rk, copy>>
  BY DEF Lock
<1>3. seq \in [Slots -> Nat]
  BY DEF RingInv, TypeOK, MemoryType
<1>4. n \in Nat /\ Odd(n) /\ seq[s] <= n
  BY <1>1, <1>3, MarkIsOdd
<1>5. SlotInv'
  BY <1>1, <1>2, <1>3, <1>4 DEF RingInv, SlotInv
<1>6. WriterInv'
  BY <1>1, <1>2, <1>3, <1>4 DEF WriterInv, Current
<1>7. CopyInv'
  <2> SUFFICES ASSUME NEW r \in Readers PROVE CopyInv!(r)'
    BY DEF CopyInv
  <2>1. SlotOf(want[r].fid) \in Slots /\ s1[r] \in Nat
    BY WantType DEF RingInv, TypeOK, ReaderType
  <2>2. CASE SlotOf(want[r].fid) = s
    BY <1>1, <1>2, <1>3, <1>4, <2>1, <2>2 DEF RingInv, CopyInv
  <2>3. CASE SlotOf(want[r].fid) # s
    BY <1>1, <1>2, <1>3, <2>1, <2>3 DEF RingInv, CopyInv
  <2> QED BY <2>2, <2>3
<1>8. NoTornRead'
  BY <1>2 DEF RingInv, NoTornRead
<1> QED BY <1>5, <1>6, <1>7, <1>8

LEMMA FillStep == RingInv /\ Fill => SlotInv' /\ WriterInv' /\ CopyInv' /\ NoTornRead'
<1> SUFFICES ASSUME RingInv, Fill
             PROVE  SlotInv' /\ WriterInv' /\ CopyInv' /\ NoTornRead'
  OBVIOUS
<1> USE ConstantsAssumption
<1> DEFINE s == SlotOf(wfid)
           b == [body[s] EXCEPT ![wk] = Current]
<1>1. s \in Slots
  BY WriterSlotType DEF RingInv, TypeOK
<1>2. /\ body' = [body EXCEPT ![s] = b]
      /\ UNCHANGED <<seq, wfid, epoch, readers>>
  BY DEF Fill
<1>3. /\ body \in [Slots -> [1 .. Words -> Frames \cup {NoFrame}]]
      /\ wk \in 1 .. Words /\ wpc = "fill"
  BY DEF RingInv, TypeOK, MemoryType, WriterType, Fill
<1>4. Odd(seq[s])
  BY <1>3 DEF RingInv, WriterInv
<1>5. \A k \in 1 .. wk : body'[s][k] = Current
  BY <1>1, <1>2, <1>3 DEF RingInv, WriterInv
<1>6. \A q \in Slots : q # s => body'[q] = body[q]
  BY <1>1, <1>2, <1>3
<1>7. SlotInv'
  BY <1>2, <1>4, <1>6 DEF RingInv, SlotInv
<1>8. WriterInv'
  <2>1. CASE LastWord(wk)
    BY <1>2, <1>3, <1>4, <1>5, <2>1 DEF Fill, LastWord, WriterInv, Current
  <2>2. CASE ~ LastWord(wk)
    BY <1>2, <1>3, <1>4, <1>5, <2>2 DEF Fill, WriterInv, Current
  <2> QED BY <2>1, <2>2
<1>9. CopyInv'
  <2> SUFFICES ASSUME NEW r \in Readers PROVE CopyInv!(r)'
    BY DEF CopyInv
  <2>1. SlotOf(want[r].fid) \in Slots
    BY WantType DEF RingInv, TypeOK
  <2>2. CASE SlotOf(want[r].fid) = s
    BY <1>2, <1>4, <2>2 DEF RingInv, CopyInv, readers
  <2>3. CASE SlotOf(want[r].fid) # s
    BY <1>2, <1>6, <2>1, <2>3 DEF RingInv, CopyInv, readers
  <2> QED BY <2>2, <2>3
<1>10. NoTornRead'
  BY <1>2 DEF RingInv, NoTornRead, readers
<1> QED BY <1>7, <1>8, <1>9, <1>10

LEMMA UnlockStep == RingInv /\ Unlock => SlotInv' /\ WriterInv' /\ CopyInv' /\ NoTornRead'
<1> SUFFICES ASSUME RingInv, Unlock
             PROVE  SlotInv' /\ WriterInv' /\ CopyInv' /\ NoTornRead'
  OBVIOUS
<1> USE ConstantsAssumption
<1> DEFINE s == SlotOf(wfid)
<1>1. s \in Slots
  BY WriterSlotType DEF RingInv, TypeOK
<1>2. /\ seq' = [seq EXCEPT ![s] = seq[s] + 1]
      /\ wpc = "unlock" /\ wpc' = "latest"
      /\ UNCHANGED <<body, wfid, wk, epoch, readers>>
  BY DEF Unlock
<1>3. seq \in [Slots -> Nat]
  BY DEF RingInv, TypeOK, MemoryType
<1>4. ~ Odd(seq[s] + 1)
  BY <1>1, <1>2, <1>3, MarkIsOdd DEF RingInv, WriterInv
<1>5. \A k \in 1 .. Words : body[s][k] = Current
  BY <1>2 DEF RingInv, WriterInv
<1>6. SlotInv'
  BY <1>1, <1>2, <1>3, <1>5 DEF RingInv, SlotInv, Current
<1>7. WriterInv'
  BY <1>1, <1>2, <1>3, <1>4, <1>5 DEF WriterInv, Current
<1>8. CopyInv'
  <2> SUFFICES ASSUME NEW r \in Readers PROVE CopyInv!(r)'
    BY DEF CopyInv
  <2>1. SlotOf(want[r].fid) \in Slots /\ s1[r] \in Nat
    BY WantType DEF RingInv, TypeOK, ReaderType
  <2>2. CASE SlotOf(want[r].fid) = s
    BY <1>1, <1>2, <1>3, <2>1, <2>2 DEF RingInv, CopyInv, readers
  <2>3. CASE SlotOf(want[r].fid) # s
    BY <1>1, <1>2, <1>3, <2>1, <2>3 DEF RingInv, CopyInv, readers
  <2> QED BY <2>2, <2>3
<1>9. NoTornRead'
  BY <1>2 DEF RingInv, NoTornRead, readers
<1> QED BY <1>6, <1>7, <1>8, <1>9

(* A step of a reader leaves the memory and the writer alone.                *)
LEMMA ReaderKeepsWriter ==
  ASSUME RingInv, UNCHANGED <<memory, writer>>
  PROVE  SlotInv' /\ WriterInv'
BY DEF RingInv, SlotInv, WriterInv, Current, memory, writer

LEMMA CallOrReturnStep ==
  ASSUME RingInv, NEW r \in Readers,
         (\E f \in noted \cup ({latest} \ {NoFrame}) : Call(r, f)) \/ Return(r) \/ GiveUp(r)
  PROVE  CopyInv' /\ NoTornRead'
<1>1. rpc \in [Readers -> {"idle", "try", "copy", "check", "hit", "miss"}]
  BY DEF RingInv, TypeOK, ReaderType
<1>2. PICK pc \in {"idle", "try", "miss"} : rpc' = [rpc EXCEPT ![r] = pc]
  BY DEF Call, Return, GiveUp
<1>3. rpc'[r] \in {"idle", "try", "miss"}
  BY <1>1, <1>2
<1>4. \A q \in Readers \ {r} :
        /\ rpc'[q] = rpc[q] /\ want'[q] = want[q] /\ s1'[q] = s1[q]
        /\ rk'[q] = rk[q] /\ copy'[q] = copy[q]
  BY <1>1, <1>2 DEF Call, Return, GiveUp, RingInv, TypeOK, ReaderType
<1>5. UNCHANGED <<seq, body>>
  BY DEF Call, Return, GiveUp, memory
<1>6. CopyInv'
  <2> SUFFICES ASSUME NEW q \in Readers PROVE CopyInv!(q)'
    BY DEF CopyInv
  <2>1. CASE q = r
    BY <1>3, <2>1
  <2>2. CASE q # r
    BY <1>4, <1>5, <2>2 DEF RingInv, CopyInv
  <2> QED BY <2>1, <2>2
<1>7. NoTornRead'
  <2> SUFFICES ASSUME NEW q \in Readers PROVE NoTornRead!(q)'
    BY DEF NoTornRead
  <2>1. CASE q = r
    BY <1>3, <2>1
  <2>2. CASE q # r
    BY <1>4, <2>2 DEF RingInv, NoTornRead
  <2> QED BY <2>1, <2>2
<1> QED BY <1>6, <1>7

LEMMA SampleStep ==
  ASSUME RingInv, NEW r \in Readers, Sample(r)
  PROVE  CopyInv' /\ NoTornRead'
<1> DEFINE s == SlotOf(want[r].fid)
<1>1. s \in Slots /\ ReadSlot(want[r].fid) = s
  BY WantType DEF RingInv, TypeOK
<1>2. /\ rpc \in [Readers -> {"idle", "try", "copy", "check", "hit", "miss"}]
      /\ s1 \in [Readers -> Nat] /\ rk \in [Readers -> 1 .. Words]
      /\ seq[s] \in Nat /\ rpc[r] = "try"
  BY <1>1 DEF RingInv, TypeOK, ReaderType, MemoryType, Sample
<1>3. CASE Odd(seq[s])
  <2>1. UNCHANGED <<rpc, want, s1, rk, copy, seq, body>>
    BY <1>1, <1>3 DEF Sample, memory
  <2> QED BY <2>1 DEF RingInv, CopyInv, NoTornRead
<1>4. CASE ~ Odd(seq[s])
  <2>1. /\ s1' = [s1 EXCEPT ![r] = seq[s]] /\ rk' = [rk EXCEPT ![r] = 1]
        /\ rpc' = [rpc EXCEPT ![r] = "copy"]
        /\ UNCHANGED <<want, copy, seq, body>>
    BY <1>1, <1>4 DEF Sample, memory
  <2>2. CopyInv'
    <3> SUFFICES ASSUME NEW q \in Readers PROVE CopyInv!(q)'
      BY DEF CopyInv
    <3>1. CASE q = r
      BY <1>2, <1>4, <2>1, <3>1
    <3>2. CASE q # r
      BY <1>2, <2>1, <3>2 DEF RingInv, CopyInv
    <3> QED BY <3>1, <3>2
  <2>3. NoTornRead'
    BY <1>2, <2>1 DEF RingInv, NoTornRead
  <2> QED BY <2>2, <2>3
<1> QED BY <1>3, <1>4

LEMMA CopyStep ==
  ASSUME RingInv, NEW r \in Readers, Copy(r)
  PROVE  CopyInv' /\ NoTornRead'
<1> USE ConstantsAssumption
<1> DEFINE s == SlotOf(want[r].fid)
           c == [copy[r] EXCEPT ![rk[r]] = body[s][rk[r]]]
<1>1. s \in Slots /\ ReadSlot(want[r].fid) = s
  BY WantType DEF RingInv, TypeOK
<1>2. /\ rpc \in [Readers -> {"idle", "try", "copy", "check", "hit", "miss"}]
      /\ rk \in [Readers -> 1 .. Words]
      /\ copy \in [Readers -> [1 .. Words -> Frames \cup {NoFrame}]]
      /\ rpc[r] = "copy"
  BY DEF RingInv, TypeOK, ReaderType, Copy
<1>3. /\ copy' = [copy EXCEPT ![r] = c]
      /\ UNCHANGED <<want, s1, seq, body>>
  BY <1>1 DEF Copy, memory
<1>4. seq[s] = s1[r] => \A k \in 1 .. rk[r] : copy'[r][k] = body[s][k]
  <2>1. seq[s] = s1[r] => \A k \in 1 .. rk[r] - 1 : copy[r][k] = body[s][k]
    BY <1>2 DEF RingInv, CopyInv
  <2>2. \A k \in 1 .. Words : copy'[r][k] = IF k = rk[r] THEN body[s][k] ELSE copy[r][k]
    BY <1>2, <1>3
  <2>3. \A k \in 1 .. rk[r] : k \in 1 .. Words /\ (k = rk[r] \/ k \in 1 .. rk[r] - 1)
    BY <1>2
  <2> QED BY <2>1, <2>2, <2>3
<1>5. \A q \in Readers \ {r} :
        /\ rpc'[q] = rpc[q] /\ rk'[q] = rk[q] /\ copy'[q] = copy[q]
  BY <1>2, <1>3 DEF Copy
<1>6. rpc'[r] \in {"copy", "check"}
  BY <1>2 DEF Copy
<1>7. CopyInv'
  <2> SUFFICES ASSUME NEW q \in Readers PROVE CopyInv!(q)'
    BY DEF CopyInv
  <2>1. CASE q = r /\ LastWord(rk[r])
    <3>1. rpc'[r] = "check" /\ rk[r] = Words
      BY <1>2, <2>1 DEF Copy, LastWord
    <3> QED BY <1>2, <1>3, <1>4, <2>1, <3>1 DEF RingInv, CopyInv
  <2>2. CASE q = r /\ ~ LastWord(rk[r])
    <3>1. rpc'[r] = "copy" /\ rk'[r] = rk[r] + 1
      BY <1>2, <2>2 DEF Copy
    <3>2. rk'[r] - 1 = rk[r]
      BY <1>2, <3>1
    <3> QED BY <1>2, <1>3, <1>4, <2>2, <3>1, <3>2 DEF RingInv, CopyInv
  <2>3. CASE q # r
    BY <1>3, <1>5, <2>3 DEF RingInv, CopyInv
  <2> QED BY <2>1, <2>2, <2>3
<1>8. NoTornRead'
  <2> SUFFICES ASSUME NEW q \in Readers PROVE NoTornRead!(q)'
    BY DEF NoTornRead
  <2>1. CASE q = r
    BY <1>6, <2>1
  <2>2. CASE q # r
    BY <1>3, <1>5, <2>2 DEF RingInv, NoTornRead
  <2> QED BY <2>1, <2>2
<1> QED BY <1>7, <1>8

(* The step that matters: a number that has not moved since it was sampled   *)
(* even vouches for the copy.                                                *)
LEMMA CheckStep ==
  ASSUME RingInv, NEW r \in Readers, Check(r)
  PROVE  CopyInv' /\ NoTornRead'
<1> USE ConstantsAssumption
<1> DEFINE s == SlotOf(want[r].fid)
<1>1. s \in Slots /\ ReadSlot(want[r].fid) = s
  BY WantType DEF RingInv, TypeOK
<1>2. /\ rpc \in [Readers -> {"idle", "try", "copy", "check", "hit", "miss"}]
      /\ rpc[r] = "check"
  BY DEF RingInv, TypeOK, ReaderType, Check
<1>3. UNCHANGED <<want, s1, rk, copy, seq, body>>
  BY DEF Check, memory
<1>4. rpc'[r] \in {"try", "hit", "miss"} /\ \A q \in Readers \ {r} : rpc'[q] = rpc[q]
  BY <1>2 DEF Check
<1>5. CopyInv'
  <2> SUFFICES ASSUME NEW q \in Readers PROVE CopyInv!(q)'
    BY DEF CopyInv
  <2>1. CASE q = r
    BY <1>4, <2>1
  <2>2. CASE q # r
    BY <1>3, <1>4, <2>2 DEF RingInv, CopyInv
  <2> QED BY <2>1, <2>2
<1>6. ASSUME rpc'[r] = "hit"
      PROVE  copy[r][1].fid = want[r].fid /\ \A k \in 1 .. Words : copy[r][k] = copy[r][1]
  <2>1. Unmoved(r) /\ copy[r][1].fid = want[r].fid
    BY <1>2, <1>6 DEF Check
  <2>2. seq[s] = s1[r]
    BY <1>1, <2>1 DEF Unmoved
  <2>3. /\ \A k \in 1 .. Words : copy[r][k] = body[s][k]
        /\ ~ Odd(seq[s])
    BY <1>2, <2>2 DEF RingInv, CopyInv
  <2>4. \A k \in 1 .. Words : body[s][k] = body[s][1]
    BY <1>1, <2>3 DEF RingInv, SlotInv
  <2> QED BY <2>1, <2>3, <2>4
<1>7. NoTornRead'
  <2> SUFFICES ASSUME NEW q \in Readers PROVE NoTornRead!(q)'
    BY DEF NoTornRead
  <2>1. CASE q = r
    BY <1>3, <1>6, <2>1
  <2>2. CASE q # r
    BY <1>3, <1>4, <2>2 DEF RingInv, NoTornRead
  <2> QED BY <2>1, <2>2
<1> QED BY <1>5, <1>7

LEMMA NextRingInv == RingInv /\ [Next]_vars => RingInv'
<1> SUFFICES ASSUME RingInv, [Next]_vars PROVE RingInv'
  OBVIOUS
<1>1. TypeOK'
  BY NextType DEF RingInv
<1>2. CASE UNCHANGED vars
  BY <1>1, <1>2 DEF vars, memory, writer, readers, RingInv,
                    SlotInv, WriterInv, CopyInv, NoTornRead, Current
<1>3. CASE Write \/ Restart
  BY <1>1, <1>3, QuietWriterStep, LockStep, FillStep, UnlockStep DEF Write, RingInv
<1>4. ASSUME NEW r \in Readers,
             \/ \E f \in noted \cup ({latest} \ {NoFrame}) : Call(r, f)
             \/ Read(r)
             \/ Return(r)
      PROVE  RingInv'
  <2>1. UNCHANGED <<memory, writer>>
    BY <1>4 DEF Call, Read, Sample, Copy, Check, GiveUp, Return
  <2>2. CopyInv' /\ NoTornRead'
    BY <1>4, CallOrReturnStep, SampleStep, CopyStep, CheckStep DEF Read
  <2> QED BY <1>1, <2>1, <2>2, ReaderKeepsWriter DEF RingInv
<1> QED BY <1>2, <1>3, <1>4 DEF Next

LEMMA RingInvHolds == Spec => []RingInv
BY InitRingInv, NextRingInv, PTL DEF Spec

(* A frame that getFrame returns was stored whole by one writeFrame, however *)
(* many readers there are, whatever the depth, and wherever writers died.    *)
THEOREM NoTornReadHolds == Spec => []NoTornRead
<1>1. RingInv => NoTornRead
  BY DEF RingInv
<1> QED BY <1>1, RingInvHolds, PTL
-----------------------------------------------------------------------------
(* No spurious miss.                                                         *)

LEMMA InitMissInv == Init => MissInv
<1> SUFFICES ASSUME Init PROVE MissInv
  OBVIOUS
<1>1. RingInv
  BY InitRingInv
<1> QED BY <1>1 DEF Init, MissInv, AbsentInv, Pending, NoSpuriousMiss

(* What a step of the writer has to leave alone for the calls in flight.     *)
LEMMA WriterKeepsMisses ==
  ASSUME MissInv, UNCHANGED <<rpc, want, s1, tries>>,
         \A r \in Readers :
           /\ absent[r] => absent'[r]
           /\ Pending(r) /\ ~ absent'[r] => LET s == SlotOf(want[r].fid) IN
                /\ Content(s)'.fid = Content(s).fid
                /\ seq'[s] = seq[s]
  PROVE  AbsentInv' /\ NoSpuriousMiss'
<1>1. AbsentInv'
  <2> SUFFICES ASSUME NEW r \in Readers PROVE AbsentInv!(r)'
    BY DEF AbsentInv
  <2>1. Pending(r)' <=> Pending(r)
    BY DEF Pending
  <2>2. rpc[r] \in {"copy", "check"} => Pending(r)
    BY DEF Pending
  <2>3. SlotOf(want[r].fid)' = SlotOf(want[r].fid)
    BY DEF SlotOf
  <2> QED BY <2>1, <2>2, <2>3 DEF MissInv, AbsentInv
<1>2. NoSpuriousMiss'
  BY DEF MissInv, NoSpuriousMiss
<1> QED BY <1>1, <1>2

LEMMA WriterMissStep == MissInv /\ (Write \/ Restart) => AbsentInv' /\ NoSpuriousMiss'
<1> SUFFICES ASSUME MissInv, Write \/ Restart PROVE AbsentInv' /\ NoSpuriousMiss'
  OBVIOUS
<1> DEFINE w == SlotOf(wfid)
<1>1. /\ w \in Slots /\ seq \in [Slots -> Nat]
      /\ body \in [Slots -> [1 .. Words -> Frames \cup {NoFrame}]]
      /\ \A r \in Readers : SlotOf(want[r].fid) \in Slots
      /\ absent \in [Readers -> BOOLEAN]
  BY WriterSlotType, WantType DEF MissInv, RingInv, TypeOK, MemoryType, ReaderType
<1>2. CASE Capture \/ StoreLatest \/ Note \/ Restart
  <2>1. UNCHANGED <<seq, body, readers>>
    BY <1>2 DEF Capture, StoreLatest, Note, Restart, memory
  <2>2. UNCHANGED <<rpc, want, s1, tries, absent>>
    BY <2>1 DEF readers
  <2>3. \A s \in Slots : Content(s)' = Content(s)
    BY <2>1 DEF Content
  <2> QED BY <1>1, <2>1, <2>2, <2>3, WriterKeepsMisses
<1>3. CASE Lock
  <2>1. /\ UNCHANGED <<rpc, want, s1, tries, body>>
        /\ \A s \in Slots : s # w => seq'[s] = seq[s]
    BY <1>1, <1>3 DEF Lock
  <2>2. \A r \in Readers : absent'[r] = (absent[r] \/ (Pending(r) /\ SlotOf(want[r].fid) = w))
    BY <1>3 DEF Lock
  <2>3. \A s \in Slots : s # w => Content(s)' = Content(s)
    BY <2>1 DEF Content
  <2>4. ASSUME NEW r \in Readers, Pending(r), ~ absent'[r]
        PROVE  SlotOf(want[r].fid) \in Slots \ {w}
    BY <1>1, <2>2, <2>4
  <2> QED BY <2>1, <2>2, <2>3, <2>4, WriterKeepsMisses
<1>4. CASE Fill
  <2>1. UNCHANGED <<rpc, want, s1, tries, absent, seq>>
    BY <1>4 DEF Fill, readers
  <2>2. Odd(seq[w]) /\ \A s \in Slots : s # w => body'[s] = body[s]
    BY <1>1, <1>4 DEF Fill, MissInv, RingInv, WriterInv
  <2>3. \A s \in Slots : Content(s)' = Content(s)
    BY <2>1, <2>2 DEF Content
  <2> QED BY <1>1, <2>1, <2>3, WriterKeepsMisses
<1>5. CASE Unlock
  <2>1. /\ UNCHANGED <<rpc, want, s1, tries, absent, body>>
        /\ \A s \in Slots : s # w => seq'[s] = seq[s]
    BY <1>1, <1>5 DEF Unlock, readers
  <2>2. Content(w) = NoFrame
    BY <1>5 DEF Unlock, MissInv, RingInv, WriterInv, Content
  <2>3. \A s \in Slots : s # w => Content(s)' = Content(s)
    BY <2>1 DEF Content
  <2>4. ASSUME NEW r \in Readers, Pending(r), ~ absent[r]
        PROVE  SlotOf(want[r].fid) \in Slots \ {w}
    BY <1>1, <2>2, <2>4 DEF MissInv, AbsentInv, NoFrame
  <2> QED BY <2>1, <2>3, <2>4, WriterKeepsMisses
<1> QED BY <1>2, <1>3, <1>4, <1>5 DEF Write

(* A step of a reader: what is left to show is about its own call.           *)
LEMMA OneReaderMisses ==
  ASSUME MissInv, NEW r \in Readers, UNCHANGED memory,
         \A q \in Readers \ {r} :
           /\ rpc'[q] = rpc[q] /\ want'[q] = want[q] /\ s1'[q] = s1[q]
           /\ tries'[q] = tries[q] /\ absent'[q] = absent[q],
         AbsentInv!(r)', rpc'[r] = "miss" => absent'[r]
  PROVE  AbsentInv' /\ NoSpuriousMiss'
<1>1. ASSUME NEW q \in Readers PROVE AbsentInv!(q)'
  <2>1. CASE q = r
    BY <2>1
  <2>2. CASE q # r
    BY <2>2 DEF MissInv, AbsentInv, Pending, Content, SlotOf, memory
  <2> QED BY <2>1, <2>2
<1>2. AbsentInv'
  BY <1>1 DEF AbsentInv
<1>3. NoSpuriousMiss'
  BY DEF MissInv, NoSpuriousMiss
<1> QED BY <1>2, <1>3

LEMMA ReaderMissStep ==
  ASSUME MissInv, NEW r \in Readers,
         \/ \E f \in noted \cup ({latest} \ {NoFrame}) : Call(r, f)
         \/ Read(r)
         \/ Return(r)
  PROVE  AbsentInv' /\ NoSpuriousMiss'
<1> DEFINE s == SlotOf(want[r].fid)
<1> USE ConstantsAssumption
<1>1. s \in Slots /\ ReadSlot(want[r].fid) = s
  BY WantType DEF MissInv, RingInv, TypeOK
<1>2. /\ rpc \in [Readers -> {"idle", "try", "copy", "check", "hit", "miss"}]
      /\ want \in [Readers -> Frames \cup {NoFrame}]
      /\ s1 \in [Readers -> Nat] /\ tries \in [Readers -> 0 .. Tries]
      /\ absent \in [Readers -> BOOLEAN]
      /\ seq \in [Slots -> Nat]
  BY DEF MissInv, RingInv, TypeOK, ReaderType, MemoryType
<1>3. /\ Pending(r) => want[r].fid # 0
      /\ Pending(r) /\ Content(s).fid # want[r].fid => absent[r]
      /\ Pending(r) /\ tries[r] > 0 => absent[r]
      /\ rpc[r] \in {"copy", "check"} /\ seq[s] # s1[r] => absent[r]
  BY DEF MissInv, AbsentInv
<1>4. UNCHANGED memory /\ UNCHANGED <<seq, body>>
  BY DEF Call, Read, Sample, Copy, Check, GiveUp, Return, memory
<1>5. \A q \in Readers \ {r} :
        /\ rpc'[q] = rpc[q] /\ want'[q] = want[q] /\ s1'[q] = s1[q]
        /\ tries'[q] = tries[q] /\ absent'[q] = absent[q]
  <2>1. CASE Sample(r)
    BY <1>2, <2>1 DEF Sample
  <2>2. CASE Copy(r)
    BY <1>2, <2>2 DEF Copy
  <2>3. CASE Check(r)
    BY <1>2, <2>3 DEF Check
  <2>4. CASE GiveUp(r) \/ Return(r) \/ \E f \in noted \cup ({latest} \ {NoFrame}) : Call(r, f)
    BY <1>2, <2>4 DEF GiveUp, Return, Call
  <2> QED BY <2>1, <2>2, <2>3, <2>4 DEF Read
<1> SUFFICES AbsentInv!(r)' /\ (rpc'[r] = "miss" => absent'[r])
  BY <1>4, <1>5, OneReaderMisses
<1>6. ASSUME NEW f \in noted \cup ({latest} \ {NoFrame}), Call(r, f)
      PROVE  AbsentInv!(r)' /\ (rpc'[r] = "miss" => absent'[r])
  <2>1. f \in Frames
    BY DEF MissInv, RingInv, TypeOK, MemoryType, WriterType
  <2>2. f.fid # 0
    BY <2>1 DEF Frames
  <2>3. /\ rpc'[r] = "try" /\ want'[r] = f /\ tries'[r] = 0
        /\ absent'[r] = (Content(SlotOf(f.fid)).fid # f.fid)
    BY <1>2, <1>6 DEF Call
  <2>4. ~ absent'[r] => Content(SlotOf(want[r].fid))'.fid = want'[r].fid
    BY <1>4, <2>3 DEF Content, SlotOf
  <2> QED BY <2>2, <2>3, <2>4
<1>7. CASE Sample(r)
  <2>1. rpc[r] = "try" /\ UNCHANGED <<want, absent>>
    BY <1>7 DEF Sample
  <2>2. CASE Odd(seq[s])
    <3>1. Content(s).fid # want[r].fid
      BY <1>3, <2>1, <2>2 DEF Content, NoFrame, Pending
    <3>2. UNCHANGED <<rpc, s1>>
      BY <1>1, <1>7, <2>2 DEF Sample
    <3> QED BY <1>3, <1>4, <2>1, <3>1, <3>2 DEF Pending, SlotOf, Content
  <2>3. CASE ~ Odd(seq[s])
    <3>1. rpc'[r] = "copy" /\ s1'[r] = seq[s] /\ tries'[r] = tries[r]
      BY <1>1, <1>2, <1>7, <2>3 DEF Sample
    <3> QED BY <1>3, <1>4, <2>1, <3>1 DEF Pending, SlotOf, Content
  <2> QED BY <2>2, <2>3
<1>8. CASE Copy(r)
  <2>1. rpc[r] = "copy" /\ rpc'[r] \in {"copy", "check"}
    BY <1>2, <1>8 DEF Copy
  <2>2. UNCHANGED <<want, s1, tries, absent>>
    BY <1>8 DEF Copy
  <2> QED BY <1>3, <1>4, <2>1, <2>2 DEF Pending, SlotOf, Content
<1>9. CASE Check(r)
  <2>1. rpc[r] = "check" /\ UNCHANGED <<want, s1, absent>>
    BY <1>9 DEF Check
  <2>2. CASE Unmoved(r)
    <3>1. rpc'[r] = IF copy[r][1].fid = want[r].fid THEN "hit" ELSE "miss"
      BY <1>2, <1>9, <2>2 DEF Check
    <3>2. seq[s] = s1[r]
      BY <1>1, <2>2 DEF Unmoved
    <3>3. ~ Odd(seq[s]) /\ copy[r][1] = body[s][1]
      BY <2>1, <3>2 DEF MissInv, RingInv, CopyInv
    <3>4. Content(s) = copy[r][1]
      BY <3>3 DEF Content
    <3> QED BY <1>3, <2>1, <3>1, <3>4 DEF Pending
  <2>3. CASE ~ Unmoved(r)
    <3>1. rpc'[r] = "try"
      BY <1>2, <1>9, <2>3 DEF Check
    <3>2. absent[r]
      BY <1>1, <1>3, <2>1, <2>3 DEF Unmoved
    <3> QED BY <1>3, <2>1, <3>1, <3>2 DEF Pending
  <2> QED BY <2>2, <2>3
<1>10. CASE GiveUp(r)
  <2>1. rpc[r] = "try" /\ tries[r] > 0 /\ rpc'[r] = "miss" /\ UNCHANGED absent
    BY <1>2, <1>10 DEF GiveUp
  <2> QED BY <1>3, <2>1 DEF Pending
<1>11. CASE Return(r)
  BY <1>2, <1>11 DEF Return, Pending
<1> QED BY <1>6, <1>7, <1>8, <1>9, <1>10, <1>11 DEF Read

LEMMA NextMissInv == MissInv /\ [Next]_vars => MissInv'
<1> SUFFICES ASSUME MissInv, [Next]_vars PROVE MissInv'
  OBVIOUS
<1>1. RingInv'
  BY NextRingInv DEF MissInv
<1>2. CASE UNCHANGED vars
  <2>1. AbsentInv' /\ NoSpuriousMiss'
    BY <1>2 DEF vars, memory, readers, MissInv, AbsentInv, NoSpuriousMiss, Pending, Content, SlotOf
  <2> QED BY <1>1, <2>1 DEF MissInv
<1>3. CASE Next
  BY <1>1, <1>3, WriterMissStep, ReaderMissStep DEF Next, MissInv
<1> QED BY <1>2, <1>3

LEMMA MissInvHolds == Spec => []MissInv
BY InitMissInv, NextMissInv, PTL DEF Spec

(* getFrame reports a miss only for a frame that was missing from its slot   *)
(* at some instant of the call, whatever the number of attempts.             *)
THEOREM NoSpuriousMissHolds == Spec => []NoSpuriousMiss
<1>1. MissInv => NoSpuriousMiss
  BY DEF MissInv
<1> QED BY <1>1, MissInvHolds, PTL
-----------------------------------------------------------------------------
(* Never an older life's frame.                                              *)

LEMMA InitAgeInv == Init => AgeInv
<1> SUFFICES ASSUME Init PROVE AgeInv
  OBVIOUS
<1>1. RingInv
  BY InitRingInv
<1>2. EpochInv
  BY ConstantsAssumption DEF Init, EpochInv, Pending, NoFrame
<1> QED BY <1>1, <1>2 DEF Init, AgeInv, NeverOlder

LEMMA WriterAgeStep == AgeInv /\ (Write \/ Restart) => EpochInv' /\ NeverOlder'
<1> SUFFICES ASSUME AgeInv, Write \/ Restart PROVE EpochInv' /\ NeverOlder'
  OBVIOUS
<1> USE ConstantsAssumption
<1> DEFINE w == SlotOf(wfid)
<1>1. /\ w \in Slots /\ seq \in [Slots -> Nat] /\ epoch \in Nat /\ wk \in 1 .. Words
      /\ body \in [Slots -> [1 .. Words -> Frames \cup {NoFrame}]]
      /\ noted \subseteq Frames /\ latest \in Frames \cup {NoFrame}
      /\ want \in [Readers -> Frames \cup {NoFrame}]
      /\ copy \in [Readers -> [1 .. Words -> Frames \cup {NoFrame}]]
  BY WriterSlotType DEF AgeInv, RingInv, TypeOK, MemoryType, WriterType, ReaderType
<1>2. UNCHANGED <<rpc, want, copy>>
  BY DEF Write, Capture, Lock, Fill, Unlock, StoreLatest, Note, Restart, readers
<1>3. epoch' \in Nat /\ epoch <= epoch'
  BY <1>1 DEF Write, Capture, Lock, Fill, Unlock, StoreLatest, Note, Restart
<1>4. ASSUME NEW s \in Slots, ~ Odd(seq'[s])
      PROVE  /\ body'[s] = body[s]
             /\ \/ ~ Odd(seq[s])
                \/ body[s][1].epoch = epoch /\ UNCHANGED epoch
  <2>1. CASE Capture \/ StoreLatest \/ Note \/ Restart
    BY <1>4, <2>1 DEF Capture, StoreLatest, Note, Restart, memory
  <2>2. CASE Lock
    <3>1. Odd(Mark(seq[w]))
      BY <1>1, MarkIsOdd
    <3> QED BY <1>1, <1>4, <2>2, <3>1 DEF Lock
  <2>3. CASE Fill
    <3>1. Odd(seq[w]) /\ UNCHANGED seq
      BY <2>3 DEF Fill, AgeInv, RingInv, WriterInv
    <3> QED BY <1>1, <1>4, <2>3, <3>1 DEF Fill
  <2>4. CASE Unlock
    <3>1. body[w][1] = Current
      BY <2>4 DEF Unlock, AgeInv, RingInv, WriterInv
    <3> QED BY <1>1, <1>4, <2>4, <3>1 DEF Unlock, Current
  <2> QED BY <2>1, <2>2, <2>3, <2>4 DEF Write
<1>5. ASSUME NEW f \in Frames, Settled(f) PROVE Settled(f)'
  <2>1. f.epoch \in Nat /\ SlotOf(f.fid) \in Slots
    BY FrameType, SlotOfType
  <2>2. f.epoch <= epoch /\ (~ Odd(seq[SlotOf(f.fid)]) => f.epoch <= body[SlotOf(f.fid)][1].epoch)
    BY <1>5 DEF Settled
  <2>3. f.epoch <= epoch'
    BY <1>1, <1>3, <2>1, <2>2
  <2>4. ~ Odd(seq'[SlotOf(f.fid)]) => f.epoch <= body'[SlotOf(f.fid)][1].epoch
    BY <1>4, <2>1, <2>2
  <2> QED BY <2>3, <2>4 DEF Settled, SlotOf
<1>6. ASSUME StoreLatest \/ Note
      PROVE  Settled(Current) /\ Current \in Frames /\ UNCHANGED <<seq, body, epoch>>
  <2>1. wpc \in {"latest", "note"} /\ UNCHANGED <<seq, body, epoch>>
    BY <1>6 DEF StoreLatest, Note, memory
  <2>2. body[w][1] = Current /\ Current \in Frames
    BY <2>1, WriterSlotType DEF AgeInv, RingInv, WriterInv, TypeOK
  <2>3. Current.epoch = epoch /\ Current.fid = wfid
    BY DEF Current
  <2>4. Settled(Current)
    BY <1>1, <2>2, <2>3 DEF Settled
  <2> QED BY <2>1, <2>2, <2>4
<1>7. \A f \in noted' : Settled(f)'
  <2> SUFFICES ASSUME NEW f \in noted' PROVE f \in Frames /\ Settled(f)
    BY <1>5
  <2>1. CASE f \in noted
    BY <1>1, <2>1 DEF AgeInv, EpochInv
  <2>2. CASE f \notin noted
    <3>1. Note /\ f = Current
      BY <2>2 DEF Write, Capture, Lock, Fill, Unlock, StoreLatest, Note, Restart
    <3> QED BY <1>6, <3>1
  <2> QED BY <2>1, <2>2
<1>8. latest' # NoFrame => Settled(latest)'
  <2> SUFFICES ASSUME latest' # NoFrame PROVE Settled(latest)'
    OBVIOUS
  <2>1. CASE StoreLatest
    <3>1. latest' = Current
      BY <2>1 DEF StoreLatest
    <3> QED BY <1>6, <2>1, <3>1 DEF Settled, SlotOf
  <2>2. CASE ~ StoreLatest
    <3>1. UNCHANGED latest
      BY <2>2 DEF Write, Capture, Lock, Fill, Unlock, Note, Restart, memory
    <3>2. latest \in Frames /\ Settled(latest)
      BY <1>1, <3>1 DEF AgeInv, EpochInv
    <3>3. /\ Settled(latest)' <=>
               /\ latest.epoch <= epoch'
               /\ ~ Odd(seq'[SlotOf(latest.fid)]) => latest.epoch <= body'[SlotOf(latest.fid)][1].epoch
      BY <3>1 DEF Settled, SlotOf
    <3>4. SlotOf(latest.fid) \in Slots /\ latest.epoch \in Nat
      BY <3>2, FrameType, SlotOfType
    <3> QED BY <1>1, <1>3, <1>4, <3>2, <3>3, <3>4 DEF Settled
  <2> QED BY <2>1, <2>2
<1>9. \A r \in Readers : Pending(r)' => Settled(want[r])'
  <2> SUFFICES ASSUME NEW r \in Readers, Pending(r) PROVE Settled(want[r])'
    BY <1>2 DEF Pending
  <2>1. Settled(want[r]) /\ want'[r] = want[r]
    BY <1>2 DEF AgeInv, EpochInv
  <2>2. SlotOf(want[r].fid) \in Slots /\ want[r].epoch \in Nat
    BY WantType DEF AgeInv, RingInv, TypeOK
  <2>3. Settled(want[r])' <=>
          /\ want[r].epoch <= epoch'
          /\ ~ Odd(seq'[SlotOf(want[r].fid)])
               => want[r].epoch <= body'[SlotOf(want[r].fid)][1].epoch
    BY <2>1 DEF Settled, SlotOf
  <2> QED BY <1>1, <1>3, <1>4, <2>1, <2>2, <2>3 DEF Settled
<1>10. \A s \in Slots, k \in 1 .. Words : body'[s][k].epoch <= epoch'
  <2> SUFFICES ASSUME NEW s \in Slots, NEW k \in 1 .. Words
               PROVE  body'[s][k].epoch <= epoch'
    OBVIOUS
  <2>1. body[s][k].epoch <= epoch /\ body[s][k].epoch \in Nat
    BY <1>1, FrameType DEF AgeInv, EpochInv
  <2>2. body'[s][k] = body[s][k] \/ (body'[s][k].epoch = epoch)
    <3>1. CASE Fill
      <4>1. body' = [body EXCEPT ![w] = [body[w] EXCEPT ![wk] = Current]]
        BY <3>1 DEF Fill
      <4>2. Current.epoch = epoch
        BY DEF Current
      <4> QED BY <1>1, <4>1, <4>2
    <3>2. CASE ~ Fill
      BY <3>2 DEF Write, Capture, Lock, Unlock, StoreLatest, Note, Restart, memory
    <3> QED BY <3>1, <3>2
  <2> QED BY <1>1, <1>3, <2>1, <2>2
<1>11. EpochInv'
  BY <1>2, <1>7, <1>8, <1>9, <1>10 DEF EpochInv, Slots
<1>12. NeverOlder'
  <2> SUFFICES ASSUME NEW r \in Readers, rpc[r] = "hit"
               PROVE  copy[r][1].epoch \in want[r].epoch .. epoch'
    BY <1>2 DEF NeverOlder
  <2>1. copy[r][1].epoch \in want[r].epoch .. epoch
    BY DEF AgeInv, NeverOlder
  <2>2. want[r].epoch \in Nat
    BY <1>1, FrameType
  <2> QED BY <1>1, <1>3, <2>1, <2>2
<1> QED BY <1>11, <1>12

LEMMA ReaderAgeStep ==
  ASSUME AgeInv, NEW r \in Readers,
         \/ \E f \in noted \cup ({latest} \ {NoFrame}) : Call(r, f)
         \/ Read(r)
         \/ Return(r)
  PROVE  EpochInv' /\ NeverOlder'
<1> USE ConstantsAssumption
<1> DEFINE s == SlotOf(want[r].fid)
<1>1. s \in Slots /\ ReadSlot(want[r].fid) = s
  BY WantType DEF AgeInv, RingInv, TypeOK
<1>2. /\ rpc \in [Readers -> {"idle", "try", "copy", "check", "hit", "miss"}]
      /\ want \in [Readers -> Frames \cup {NoFrame}]
      /\ copy \in [Readers -> [1 .. Words -> Frames \cup {NoFrame}]]
      /\ epoch \in Nat
  BY DEF AgeInv, RingInv, TypeOK, ReaderType, WriterType
<1>3. UNCHANGED <<seq, body, latest, epoch, noted>>
  BY DEF Call, Read, Sample, Copy, Check, GiveUp, Return, memory, writer
<1>4. \A q \in Readers \ {r} :
        rpc'[q] = rpc[q] /\ want'[q] = want[q] /\ copy'[q] = copy[q]
  <2>1. CASE Sample(r)
    BY <1>2, <2>1 DEF Sample
  <2>2. CASE Copy(r)
    BY <1>2, <2>2 DEF Copy
  <2>3. CASE Check(r)
    BY <1>2, <2>3 DEF Check
  <2>4. CASE GiveUp(r) \/ Return(r) \/ \E f \in noted \cup ({latest} \ {NoFrame}) : Call(r, f)
    BY <1>2, <2>4 DEF GiveUp, Return, Call
  <2> QED BY <2>1, <2>2, <2>3, <2>4 DEF Read
<1>5. rpc'[r] \in {"try", "copy", "check"} => Settled(want'[r])
  <2>1. CASE \E f \in noted \cup ({latest} \ {NoFrame}) : Call(r, f)
    <3>1. PICK f \in noted \cup ({latest} \ {NoFrame}) : Call(r, f)
      BY <2>1
    <3>2. want'[r] = f
      BY <1>2, <3>1 DEF Call
    <3> QED BY <3>2 DEF AgeInv, EpochInv
  <2>2. CASE Read(r)
    <3>1. Pending(r) /\ UNCHANGED want
      BY <2>2 DEF Read, Sample, Copy, Check, GiveUp, Pending
    <3> QED BY <3>1 DEF AgeInv, EpochInv
  <2>3. CASE Return(r)
    BY <1>2, <2>3 DEF Return
  <2> QED BY <2>1, <2>2, <2>3
<1>6. rpc'[r] = "hit" => copy'[r][1].epoch \in want'[r].epoch .. epoch
  <2> SUFFICES ASSUME rpc'[r] = "hit" PROVE copy'[r][1].epoch \in want'[r].epoch .. epoch
    OBVIOUS
  <2>1. Check(r)
    BY <1>2 DEF Call, Read, Sample, Copy, Check, GiveUp, Return
  <2>2. rpc[r] = "check" /\ UNCHANGED <<want, copy>> /\ Unmoved(r)
    BY <1>2, <2>1 DEF Check
  <2>3. seq[s] = s1[r]
    BY <1>1, <2>2 DEF Unmoved
  <2>4. ~ Odd(seq[s]) /\ copy[r][1] = body[s][1]
    BY <2>2, <2>3 DEF AgeInv, RingInv, CopyInv
  <2>5. want[r].epoch <= body[s][1].epoch /\ body[s][1].epoch <= epoch
    BY <1>1, <2>2, <2>4 DEF AgeInv, EpochInv, Pending, Settled
  <2>6. want[r].epoch \in Nat /\ copy[r][1].epoch \in Nat
    BY <1>2, FrameType
  <2> QED BY <1>2, <2>2, <2>4, <2>5, <2>6
<1>7. EpochInv'
  <2>1. \A f : Settled(f)' <=> Settled(f)
    BY <1>3 DEF Settled, SlotOf
  <2>2. /\ \A f \in noted' : Settled(f)'
        /\ latest' # NoFrame => Settled(latest)'
        /\ \A q \in Slots, k \in 1 .. Words : body'[q][k].epoch <= epoch'
    BY <1>3 DEF AgeInv, EpochInv, Settled, SlotOf
  <2>3. ASSUME NEW q \in Readers, Pending(q)' PROVE Settled(want[q])'
    <3>1. Settled(want'[q])
      BY <1>4, <1>5, <2>3 DEF AgeInv, EpochInv, Pending
    <3> QED BY <1>3, <3>1 DEF Settled, SlotOf
  <2> QED BY <2>2, <2>3 DEF EpochInv, Slots
<1>8. NeverOlder'
  <2> SUFFICES ASSUME NEW q \in Readers, rpc'[q] = "hit"
               PROVE  copy'[q][1].epoch \in want'[q].epoch .. epoch
    BY <1>3 DEF NeverOlder
  <2> QED BY <1>4, <1>6 DEF AgeInv, NeverOlder
<1> QED BY <1>7, <1>8

LEMMA NextAgeInv == AgeInv /\ [Next]_vars => AgeInv'
<1> SUFFICES ASSUME AgeInv, [Next]_vars PROVE AgeInv'
  OBVIOUS
<1>1. RingInv'
  BY NextRingInv DEF AgeInv
<1>2. CASE UNCHANGED vars
  <2>1. EpochInv' /\ NeverOlder'
    BY <1>2 DEF vars, memory, writer, readers, AgeInv, EpochInv, NeverOlder,
                Pending, Settled, SlotOf, Slots
  <2> QED BY <1>1, <2>1 DEF AgeInv
<1>3. CASE Next
  BY <1>1, <1>3, WriterAgeStep, ReaderAgeStep DEF Next, AgeInv
<1> QED BY <1>2, <1>3

LEMMA AgeInvHolds == Spec => []AgeInv
BY InitAgeInv, NextAgeInv, PTL DEF Spec

(* A reader that was told of a frame by one life of the writer is never      *)
(* given a frame that getFrame found in its slot from an earlier life.       *)
THEOREM NeverOlderHolds == Spec => []NeverOlder
<1>1. AgeInv => NeverOlder
  BY DEF AgeInv
<1> QED BY <1>1, AgeInvHolds, PTL

(* A hit is one whole frame of the wanted id, and not of an earlier life.    *)
THEOREM HitIsRightHolds == Spec => []HitIsRight
<1>1. NoTornRead /\ NeverOlder => HitIsRight
  BY DEF HitIsRight
<1> QED BY <1>1, NoTornReadHolds, NeverOlderHolds, PTL
-----------------------------------------------------------------------------
(* The latest frame can be read.                                             *)

(* Frames that follow one another have different slots.                      *)
LEMMA NextSlotDiffers ==
  ASSUME NEW f \in Nat
  PROVE  SlotOf(f + 1) # SlotOf(f)
<1> SUFFICES ASSUME (f + 1) % Depth = f % Depth PROVE FALSE
  BY DEF SlotOf
<1> USE ConstantsAssumption
<1> DEFINE x == f \div Depth
           y == (f + 1) \div Depth
<1>1. /\ x \in Int /\ y \in Int /\ f % Depth \in Int
      /\ f = Depth * x + (f % Depth)
      /\ f + 1 = Depth * y + ((f + 1) % Depth)
  OBVIOUS
<1> HIDE DEF x, y
<1>2. Depth * x \in Int /\ Depth * y \in Int
  BY <1>1
<1>3. Depth * (y - x) = 1
  BY <1>1, <1>2
<1>4. CASE y - x <= 0
  BY <1>1, <1>3, <1>4
<1>5. CASE y - x >= 1
  BY <1>1, <1>3, <1>5
<1> QED BY <1>1, <1>4, <1>5

LEMMA InitLatestInv == Init => LatestReadableInv
<1> SUFFICES ASSUME Init PROVE LatestReadableInv
  OBVIOUS
<1>1. AgeInv
  BY InitAgeInv
<1> QED BY <1>1 DEF Init, LatestReadableInv, LatestInv, LatestReadable

LEMMA WriterLatestStep ==
  LatestReadableInv /\ (Write \/ Restart) => LatestInv' /\ LatestReadable'
<1> SUFFICES ASSUME LatestReadableInv, Write \/ Restart
             PROVE  LatestInv' /\ LatestReadable'
  OBVIOUS
<1> DEFINE w == SlotOf(wfid)
           l == SlotOf(latest.fid)
<1>1. /\ w \in Slots /\ seq \in [Slots -> Nat] /\ epoch \in Nat /\ wfid \in Nat
      /\ body \in [Slots -> [1 .. Words -> Frames \cup {NoFrame}]]
      /\ latest \in Frames \cup {NoFrame}
      /\ wpc \in {"idle", "lock", "fill", "unlock", "latest", "note"}
  BY WriterSlotType DEF LatestReadableInv, AgeInv, RingInv, TypeOK, MemoryType, WriterType
<1>2. l \in Slots /\ latest.fid \in Nat /\ latest.epoch \in Nat
  BY <1>1, FrameType, SlotOfType
(* The writer is at another slot than the latest frame of its life.          *)
<1>3. ASSUME latest # NoFrame, latest.epoch = epoch, wpc \in {"lock", "fill", "unlock"}
      PROVE  w # l
  <2>1. wfid = latest.fid + 1
    BY <1>1, <1>2, <1>3 DEF LatestReadableInv, LatestInv
  <2> QED BY <1>2, <2>1, NextSlotDiffers
<1>4. latest # NoFrame /\ latest.epoch = epoch => Content(l) = latest
  BY DEF LatestReadableInv, LatestReadable
<1>5. CASE StoreLatest
  <2>1. /\ latest' = Current /\ wpc = "latest" /\ wpc' = "note"
        /\ UNCHANGED <<seq, body, wfid, epoch>>
    BY <1>5 DEF StoreLatest
  <2>2. ~ Odd(seq[w]) /\ body[w][1] = Current
    BY <2>1 DEF LatestReadableInv, AgeInv, RingInv, WriterInv
  <2>3. Current.fid = wfid
    BY DEF Current
  <2>4. LatestInv'
    BY <2>1, <2>3 DEF LatestInv
  <2>5. LatestReadable'
    BY <2>1, <2>2, <2>3 DEF LatestReadable, Content, SlotOf
  <2> QED BY <2>4, <2>5
<1>6. CASE Restart
  <2>1. epoch' = epoch + 1 /\ UNCHANGED latest
    BY <1>6 DEF Restart, memory
  <2>2. latest # NoFrame => latest.epoch <= epoch
    BY DEF LatestReadableInv, AgeInv, EpochInv, Settled
  <2> QED BY <1>1, <1>2, <2>1, <2>2 DEF LatestInv, LatestReadable
<1>7. CASE Capture \/ Note
  <2>1. UNCHANGED <<seq, body, latest, epoch>>
    BY <1>7 DEF Capture, Note, memory
  <2>2. LatestInv'
    BY <1>1, <1>2, <1>7, <2>1 DEF Capture, Note, LatestReadableInv, LatestInv
  <2>3. LatestReadable'
    BY <1>4, <2>1 DEF LatestReadable, Content, SlotOf
  <2> QED BY <2>2, <2>3
<1>8. CASE Lock \/ Fill \/ Unlock
  <2>1. /\ UNCHANGED <<latest, epoch, wfid>>
        /\ wpc \in {"lock", "fill", "unlock"} /\ wpc' \in {"fill", "unlock", "latest"}
    BY <1>8 DEF Lock, Fill, Unlock
  <2>2. LatestInv'
    BY <2>1 DEF LatestReadableInv, LatestInv
  <2>3. w # l => seq'[l] = seq[l] /\ body'[l] = body[l]
    BY <1>1, <1>2, <1>8 DEF Lock, Fill, Unlock
  <2>4. LatestReadable'
    BY <1>3, <1>4, <2>1, <2>3 DEF LatestReadable, Content, SlotOf
  <2> QED BY <2>2, <2>4
<1> QED BY <1>5, <1>6, <1>7, <1>8 DEF Write

LEMMA NextLatestInv == LatestReadableInv /\ [Next]_vars => LatestReadableInv'
<1> SUFFICES ASSUME LatestReadableInv, [Next]_vars PROVE LatestReadableInv'
  OBVIOUS
<1>1. AgeInv'
  BY NextAgeInv DEF LatestReadableInv
<1>2. CASE UNCHANGED <<memory, writer>>
  <2>1. LatestInv' /\ LatestReadable'
    BY <1>2 DEF memory, writer, LatestReadableInv, LatestInv, LatestReadable, Content, SlotOf
  <2> QED BY <1>1, <2>1 DEF LatestReadableInv
<1>3. CASE Write \/ Restart
  BY <1>1, <1>3, WriterLatestStep DEF LatestReadableInv
<1>4. ASSUME NEW r \in Readers,
             \/ \E f \in noted \cup ({latest} \ {NoFrame}) : Call(r, f)
             \/ Read(r)
             \/ Return(r)
      PROVE  UNCHANGED <<memory, writer>>
  BY <1>4 DEF Call, Read, Sample, Copy, Check, GiveUp, Return
<1> QED BY <1>2, <1>3, <1>4 DEF Next, vars

LEMMA LatestInvHolds == Spec => []LatestReadableInv
BY InitLatestInv, NextLatestInv, PTL DEF Spec

(* While the writer that stored `latest` lives, the frame it names is whole  *)
(* and in its slot: the display's fallback finds it.                         *)
THEOREM LatestReadableHolds == Spec => []LatestReadable
<1>1. LatestReadableInv => LatestReadable
  BY DEF LatestReadableInv
<1> QED BY <1>1, LatestInvHolds, PTL
-----------------------------------------------------------------------------
(* The ring implements the atomic store.                                     *)

Calls == [r \in Readers |-> StoreCall(r)]

(* The store's own helpers are those of the ring.                            *)
LEMMA StoreWords ==
  /\ Abstract!Slots = Slots /\ Abstract!Frames = Frames /\ Abstract!NoFrame = NoFrame
  /\ \A f : Abstract!SlotOf(f) = SlotOf(f)
  /\ Abstract!Idle = [status |-> "idle", want |-> NoFrame, absent |-> FALSE, answer |-> NoFrame]
BY DEF Abstract!Slots, Slots, Abstract!Frames, Frames, Abstract!NoFrame, NoFrame,
       Abstract!SlotOf, SlotOf, Abstract!Idle

LEMMA Status ==
  ASSUME ReaderType, NEW r \in Readers
  PROVE  /\ rpc[r] = "idle" <=> StoreCall(r).status = "idle"
         /\ rpc[r] \in {"hit", "miss"} <=> StoreCall(r).status = "done"
         /\ Pending(r) <=> StoreCall(r).status = "pending"
         /\ StoreCall(r).want = want[r] /\ StoreCall(r).absent = absent[r]
         /\ rpc[r] # "hit" => StoreCall(r).answer = NoFrame
BY DEF StoreCall, Pending, ReaderType

LEMMA StoreInit == Init => Abstract!Init
<1> SUFFICES ASSUME Init PROVE Abstract!Init
  OBVIOUS
<1> USE ConstantsAssumption
<1>1. StoreSlot = [s \in Slots |-> NoFrame]
  BY DEF Init, StoreSlot, Content
<1>2. \A r \in Readers : StoreCall(r) = Abstract!Idle
  BY StoreWords DEF Init, StoreCall, Pending
<1> QED BY <1>1, <1>2, StoreWords DEF Abstract!Init

(* The number of a slot and what it holds when even is all the store sees.   *)
LEMMA SlotsKept ==
  ASSUME \A s \in Slots : Content(s)' = Content(s)
  PROVE  StoreSlot' = StoreSlot
BY DEF StoreSlot, Slots

LEMMA CallsKept ==
  ASSUME UNCHANGED <<rpc, want, copy, absent>>
  PROVE  Calls' = Calls
BY DEF Calls, StoreCall, Pending

LEMMA StoreWriterStep ==
  ASSUME MissInv, Write \/ Restart
  PROVE  [Abstract!Next]_(Abstract!vars)
<1> USE ConstantsAssumption
<1> DEFINE w == SlotOf(wfid)
<1>1. /\ w \in Slots /\ seq \in [Slots -> Nat]
      /\ body \in [Slots -> [1 .. Words -> Frames \cup {NoFrame}]]
      /\ ReaderType
  BY WriterSlotType DEF MissInv, RingInv, TypeOK, MemoryType
<1>2. CASE Capture \/ StoreLatest \/ Note \/ Restart
  <2>1. UNCHANGED <<seq, body, readers>>
    BY <1>2 DEF Capture, StoreLatest, Note, Restart, memory
  <2>2. StoreSlot' = StoreSlot
    BY <2>1, SlotsKept DEF Content
  <2>3. Calls' = Calls
    BY <2>1, CallsKept DEF readers
  <2> QED BY <2>2, <2>3 DEF Abstract!vars, Calls
<1>3. CASE Fill
  <2>1. Odd(seq[w]) /\ UNCHANGED <<seq, readers>>
    BY <1>3 DEF Fill, MissInv, RingInv, WriterInv
  <2>2. \A s \in Slots : s # w => body'[s] = body[s]
    BY <1>1, <1>3 DEF Fill
  <2>3. StoreSlot' = StoreSlot
    BY <2>1, <2>2, SlotsKept DEF Content
  <2>4. Calls' = Calls
    BY <2>1, CallsKept DEF readers
  <2> QED BY <2>3, <2>4 DEF Abstract!vars, Calls
<1>4. CASE Lock
  <2>1. /\ seq' = [seq EXCEPT ![w] = Mark(seq[w])]
        /\ UNCHANGED <<body, rpc, want, copy>>
        /\ absent' = [r \in Readers |->
                        absent[r] \/ (Pending(r) /\ SlotOf(want[r].fid) = w)]
    BY <1>4 DEF Lock
  <2>2. Odd(Mark(seq[w]))
    BY <1>1, MarkIsOdd
  <2>3. \A s \in Slots : Content(s)' = IF s = w THEN NoFrame ELSE Content(s)
    BY <1>1, <2>1, <2>2 DEF Content
  <2>4. StoreSlot' = [StoreSlot EXCEPT ![w] = NoFrame]
    BY <1>1, <2>3 DEF StoreSlot, Slots
  <2>5. ASSUME NEW r \in Readers
        PROVE  StoreCall(r)' = IF StoreCall(r).status = "pending" /\ SlotOf(StoreCall(r).want.fid) = w
                               THEN [StoreCall(r) EXCEPT !.absent = TRUE]
                               ELSE StoreCall(r)
    <3>1. absent'[r] = IF Pending(r) /\ SlotOf(want[r].fid) = w THEN TRUE ELSE absent[r]
      BY <1>1, <2>1 DEF ReaderType
    <3>2. Pending(r) <=> StoreCall(r).status = "pending"
      BY <1>1, Status
    <3>3. StoreCall(r).want = want[r]
      BY <1>1, Status
    <3> QED BY <2>1, <3>1, <3>2, <3>3 DEF StoreCall, Pending
  <2>6. Calls' = Abstract!MarkAbsent(w)
    BY <2>5, StoreWords DEF Calls, Abstract!MarkAbsent
  <2>7. Abstract!Withdraw(w)
    BY <2>4, <2>6, StoreWords DEF Abstract!Withdraw, Calls
  <2> QED BY <1>1, <2>7, StoreWords DEF Abstract!Next
<1>5. CASE Unlock
  <2>1. /\ seq' = [seq EXCEPT ![w] = seq[w] + 1]
        /\ UNCHANGED <<body, readers>> /\ wpc = "unlock"
    BY <1>5 DEF Unlock
  <2>2. Odd(seq[w]) /\ body[w][1] = Current /\ Current \in Frames
    BY <2>1, WriterSlotType DEF MissInv, RingInv, TypeOK, WriterInv
  <2>3. ~ Odd(seq[w] + 1)
    BY <1>1, <2>2, MarkIsOdd
  <2>4. \A s \in Slots : Content(s)' = IF s = w THEN Current ELSE Content(s)
    BY <1>1, <2>1, <2>2, <2>3 DEF Content
  <2>5. StoreSlot' = [StoreSlot EXCEPT ![w] = Current] /\ StoreSlot[w] = NoFrame
    BY <1>1, <2>2, <2>4 DEF StoreSlot, Slots, Content
  <2>6. Calls' = Calls
    BY <2>1, CallsKept DEF readers
  <2>7. Abstract!SlotOf(Current.fid) = w
    BY StoreWords DEF Current
  <2>8. Abstract!Publish(Current)
    BY <2>5, <2>6, <2>7, StoreWords DEF Abstract!Publish, Calls
  <2> QED BY <2>2, <2>8, StoreWords DEF Abstract!Next
<1> QED BY <1>2, <1>3, <1>4, <1>5 DEF Write

(* The calls of the other readers do not change.                             *)
LEMMA OneCall ==
  ASSUME ReaderType, NEW r \in Readers,
         \/ \E f \in noted \cup ({latest} \ {NoFrame}) : Call(r, f)
         \/ Read(r)
         \/ Return(r)
  PROVE  /\ \A q \in Readers \ {r} : StoreCall(q)' = StoreCall(q)
         /\ Calls' = [Calls EXCEPT ![r] = StoreCall(r)']
         /\ StoreSlot' = StoreSlot
<1>1. \A q \in Readers \ {r} :
        rpc'[q] = rpc[q] /\ want'[q] = want[q] /\ copy'[q] = copy[q] /\ absent'[q] = absent[q]
  <2>1. CASE Sample(r)
    BY <2>1 DEF Sample, ReaderType
  <2>2. CASE Copy(r)
    BY <2>2 DEF Copy, ReaderType
  <2>3. CASE Check(r)
    BY <2>3 DEF Check, ReaderType
  <2>4. CASE GiveUp(r) \/ Return(r) \/ \E f \in noted \cup ({latest} \ {NoFrame}) : Call(r, f)
    BY <2>4 DEF GiveUp, Return, Call, ReaderType
  <2> QED BY <2>1, <2>2, <2>3, <2>4 DEF Read
<1>2. \A q \in Readers \ {r} : StoreCall(q)' = StoreCall(q)
  BY <1>1 DEF StoreCall, Pending
<1>3. Calls' = [Calls EXCEPT ![r] = StoreCall(r)']
  BY <1>2 DEF Calls
<1>4. StoreSlot' = StoreSlot
  BY SlotsKept DEF Call, Read, Sample, Copy, Check, GiveUp, Return, memory, Content
<1> QED BY <1>2, <1>3, <1>4

LEMMA StoreReaderStep ==
  ASSUME MissInv, MissInv', NEW r \in Readers,
         \/ \E f \in noted \cup ({latest} \ {NoFrame}) : Call(r, f)
         \/ Read(r)
         \/ Return(r)
  PROVE  [Abstract!Next]_(Abstract!vars)
<1> USE ConstantsAssumption
<1> DEFINE s == SlotOf(want[r].fid)
<1>1. s \in Slots /\ ReadSlot(want[r].fid) = s /\ ReaderType /\ ReaderType'
  BY WantType DEF MissInv, RingInv, TypeOK
<1>2. /\ Calls' = [Calls EXCEPT ![r] = StoreCall(r)'] /\ StoreSlot' = StoreSlot
      /\ Calls[r] = StoreCall(r)
  BY <1>1, OneCall DEF Calls
<1>3. CASE Sample(r) \/ Copy(r) \/ (Check(r) /\ ~ Unmoved(r))
  <2>1. /\ rpc[r] \in {"try", "copy", "check"} /\ rpc'[r] \in {"try", "copy", "check"}
        /\ UNCHANGED <<want, absent>>
    BY <1>1, <1>3 DEF Sample, Copy, Check, ReaderType
  <2>2. StoreCall(r)' = StoreCall(r)
    BY <2>1 DEF StoreCall, Pending
  <2>3. Calls' = Calls
    BY <1>2, <2>2 DEF Calls
  <2> QED BY <1>2, <2>3 DEF Abstract!vars, Calls
<1>4. ASSUME NEW f \in noted \cup ({latest} \ {NoFrame}), Call(r, f)
      PROVE  [Abstract!Next]_(Abstract!vars)
  <2>1. f \in Frames
    BY DEF MissInv, RingInv, TypeOK, MemoryType, WriterType
  <2>2. SlotOf(f.fid) \in Slots
    BY <2>1, FrameType, SlotOfType
  <2>3. /\ rpc[r] = "idle" /\ rpc'[r] = "try" /\ want'[r] = f
        /\ absent'[r] = (Content(SlotOf(f.fid)).fid # f.fid)
    BY <1>1, <1>4 DEF Call, ReaderType
  <2>4. (StoreSlot[SlotOf(f.fid)].fid = f.fid) <=> Content(SlotOf(f.fid)).fid = f.fid
    BY <2>2 DEF StoreSlot
  <2>5. Abstract!Holds(Abstract!SlotOf(f.fid), f) <=> Content(SlotOf(f.fid)).fid = f.fid
    BY <2>4, StoreWords DEF Abstract!Holds
  <2>6. StoreCall(r)' = [status |-> "pending", want |-> f, answer |-> NoFrame,
                         absent |-> ~ Abstract!Holds(Abstract!SlotOf(f.fid), f)]
    BY <2>3, <2>5 DEF StoreCall, Pending
  <2>7. StoreCall(r).status = "idle"
    BY <1>1, <2>3, Status
  <2>8. Abstract!Ask(r, f)
    BY <1>2, <2>6, <2>7, StoreWords DEF Abstract!Ask, Calls
  <2> QED BY <2>1, <2>8, StoreWords DEF Abstract!Next
<1>5. CASE Check(r) /\ Unmoved(r)
  <2>1. /\ rpc[r] = "check" /\ UNCHANGED <<want, absent, copy>>
        /\ rpc'[r] = IF copy[r][1].fid = want[r].fid THEN "hit" ELSE "miss"
    BY <1>1, <1>5 DEF Check, ReaderType
  <2>2. Content(s) = copy[r][1]
    <3>1. seq[s] = s1[r]
      BY <1>1, <1>5 DEF Unmoved
    <3> QED BY <2>1, <3>1 DEF MissInv, RingInv, CopyInv, Content
  <2>3. Calls[r].status = "pending" /\ Calls[r].want = want[r] /\ Calls[r].absent = absent[r]
    BY <1>1, <1>2, <2>1, Status DEF Pending
  <2>4. StoreSlot[s] = copy[r][1]
    BY <1>1, <2>2 DEF StoreSlot
  <2>5. CASE copy[r][1].fid = want[r].fid
    <3>1. StoreCall(r)' = [status |-> "done", want |-> want[r], absent |-> absent[r],
                           answer |-> copy[r][1]]
      BY <2>1, <2>5 DEF StoreCall, Pending
    <3>2. Calls' = [Calls EXCEPT ![r] = [status |-> "done", want |-> Calls[r].want,
                                         absent |-> Calls[r].absent, answer |-> copy[r][1]]]
      BY <1>2, <2>3, <3>1
    <3>3. Abstract!Hit(r)
      BY <1>2, <2>3, <2>4, <2>5, <3>2, StoreWords DEF Abstract!Hit, Abstract!Holds, Calls
    <3> QED BY <3>3 DEF Abstract!Next
  <2>6. CASE copy[r][1].fid # want[r].fid
    <3>1. StoreCall(r)' = [StoreCall(r) EXCEPT !.status = "done"]
      BY <2>1, <2>6 DEF StoreCall, Pending
    <3>2. Calls' = [Calls EXCEPT ![r].status = "done"]
      BY <1>2, <3>1 DEF Calls
    <3>3. absent[r]
      BY <2>1, <2>6 DEF MissInv, NoSpuriousMiss
    <3>4. Abstract!Miss(r)
      BY <1>2, <2>3, <3>2, <3>3 DEF Abstract!Miss, Calls
    <3> QED BY <3>4 DEF Abstract!Next
  <2> QED BY <2>5, <2>6
<1>6. CASE GiveUp(r)
  <2>1. rpc[r] = "try" /\ rpc'[r] = "miss" /\ UNCHANGED <<want, absent, copy>>
    BY <1>1, <1>6 DEF GiveUp, ReaderType
  <2>2. StoreCall(r)' = [StoreCall(r) EXCEPT !.status = "done"]
    BY <2>1 DEF StoreCall, Pending
  <2>3. Calls' = [Calls EXCEPT ![r].status = "done"]
    BY <1>2, <2>2 DEF Calls
  <2>4. Calls[r].status = "pending" /\ Calls[r].absent
    <3>1. absent[r]
      BY <2>1 DEF MissInv, NoSpuriousMiss
    <3> QED BY <1>1, <1>2, <2>1, <3>1, Status DEF Pending
  <2>5. Abstract!Miss(r)
    BY <1>2, <2>3, <2>4 DEF Abstract!Miss, Calls
  <2> QED BY <2>5 DEF Abstract!Next
<1>7. CASE Return(r)
  <2>1. /\ rpc[r] \in {"hit", "miss"} /\ rpc'[r] = "idle"
        /\ want'[r] = NoFrame /\ absent'[r] = FALSE
    BY <1>1, <1>7 DEF Return, ReaderType
  <2>2. StoreCall(r)' = Abstract!Idle
    BY <2>1, StoreWords DEF StoreCall, Pending
  <2>3. Calls[r].status = "done"
    BY <1>1, <1>2, <2>1, Status
  <2>4. Abstract!Return(r)
    BY <1>2, <2>2, <2>3 DEF Abstract!Return, Calls
  <2> QED BY <2>4 DEF Abstract!Next
<1> QED BY <1>3, <1>4, <1>5, <1>6, <1>7 DEF Read

LEMMA StoreStep ==
  MissInv /\ MissInv' /\ [Next]_vars => [Abstract!Next]_(Abstract!vars)
<1> SUFFICES ASSUME MissInv, MissInv', [Next]_vars
             PROVE  [Abstract!Next]_(Abstract!vars)
  OBVIOUS
<1>1. CASE UNCHANGED vars
  <2>1. StoreSlot' = StoreSlot
    BY <1>1, SlotsKept DEF vars, memory, Content
  <2>2. Calls' = Calls
    BY <1>1, CallsKept DEF vars, readers
  <2> QED BY <2>1, <2>2 DEF Abstract!vars, Calls
<1> QED BY <1>1, StoreWriterStep, StoreReaderStep DEF Next

(* Behind the seqlock the ring is an atomic store of frames, for any number  *)
(* of readers, slots, words and attempts, and wherever writers die.          *)
THEOREM StoreImplemented == Spec => ImplementsStore
BY StoreInit, StoreStep, MissInvHolds, PTL DEF Spec, ImplementsStore, Abstract!Spec
=============================================================================
