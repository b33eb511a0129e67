----------------------------- MODULE FrameRing ------------------------------
(***************************************************************************)
(* One stream's ring in the shared segment (common/shm.hpp, StreamRing):   *)
(* writeFrame as the RTSP reader thread of the stream runs it, getFrame as *)
(* the inference workers and (tracking_service/shm_reader.py) the display  *)
(* run it.  No process takes a lock: each slot carries a sequence number,  *)
(* odd while the slot is being written, and a reader compares it before    *)
(* and after its copy.                                                     *)
(*                                                                         *)
(* A step is one access to shared memory.  The frame id, the dimensions    *)
(* and the pixels of a slot are its words 1 .. Words, of which word 1 is   *)
(* the frame id; a word holds the frame whose write stored it, of which    *)
(* the code sees, in word 1, the fid.  The writer may die between any two  *)
(* steps; the segment outlives it, its frame counter does not.             *)
(*                                                                         *)
(* Accesses happen in program order here, and the stream has one writer;   *)
(* SeqlockOrder drops both assumptions.  The row of the stream is          *)
(* registered (StreamTable).                                               *)
(*                                                                         *)
(* A definition marked Faulty is used by no action: it is the neighbour's  *)
(* plausible bug, which one of the properties below has to catch.          *)
(***************************************************************************)
EXTENDS Naturals

CONSTANTS
  Readers,    (* calls of getFrame that may be in flight                    *)
  Depth,      (* RING_DEPTH                                                 *)
  Words,      (* words of a slot that are written one after the other       *)
  Tries,      (* attempts of getFrame: 4 in C++, 6 in Python                *)
  MaxFrame,   (* bound: the frames one life of the writer publishes         *)
  MaxEpoch    (* bound: the restarts of the writer                          *)

ASSUME ConstantsAssumption ==
  /\ Depth \in Nat /\ Depth >= 2
  /\ Words \in Nat \ {0}
  /\ Tries \in Nat \ {0}
  /\ MaxFrame \in Nat
  /\ MaxEpoch \in Nat

VARIABLES
  (* the shared segment *)
  seq,        (* slot -> its sequence number                                *)
  body,       (* slot -> its words                                          *)
  latest,     (* the frame whose id was last stored in StreamRing::latest   *)
  (* the writer: an RtspReader thread in ingest *)
  wpc, wfid, wk,
  epoch,      (* how often the writer was restarted                         *)
  noted,      (* the frames announced to the readers                        *)
  (* the readers *)
  rpc, want, s1, rk, copy, tries,
  absent      (* history: the wanted frame was missing from its slot at
                 some instant of this call                                  *)

memory  == <<seq, body, latest>>
writer  == <<wpc, wfid, wk, epoch, noted>>
readers == <<rpc, want, s1, rk, copy, tries, absent>>
vars    == <<memory, writer, readers>>
-----------------------------------------------------------------------------
Slots == 0 .. Depth - 1

(* The writer and the two readers each compute a frame's slot on their own.  *)
SlotOf(fid) == fid % Depth
ReadSlot(fid) == fid % Depth

NoFrame == [epoch |-> 0, fid |-> 0]
Frames  == [epoch : 0 .. MaxEpoch, fid : 1 .. MaxFrame]

Odd(n) == n % 2 = 1

(* The mark of a slot being written: seq | 1.                                *)
(* Faulty: seq + 1, which the comment in writeFrame warns against. *)
MarkByIncrement(n) == n + 1
Mark(n) == IF Odd(n) THEN n ELSE n + 1

(* Faulty: the copy runs one word past the slot. *)
LastWordOffByOne(k) == k = Words + 1
LastWord(k) == k = Words

Current == [epoch |-> epoch, fid |-> wfid]

(* The frame a reader of the slot can rely on: none while the slot is odd.   *)
Content(s) == IF Odd(seq[s]) THEN NoFrame ELSE body[s][1]

Pending(r) == rpc[r] \in {"try", "copy", "check"}

Init ==
  /\ seq = [s \in Slots |-> 0]
  /\ body = [s \in Slots |-> [k \in 1 .. Words |-> NoFrame]]
  /\ latest = NoFrame
  /\ wpc = "idle" /\ wfid = 0 /\ wk = 1 /\ epoch = 0
  /\ noted = {}
  /\ rpc = [r \in Readers |-> "idle"]
  /\ want = [r \in Readers |-> NoFrame]
  /\ s1 = [r \in Readers |-> 0]
  /\ rk = [r \in Readers |-> 1]
  /\ copy = [r \in Readers |-> [k \in 1 .. Words |-> NoFrame]]
  /\ tries = [r \in Readers |-> 0]
  /\ absent = [r \in Readers |-> FALSE]
-----------------------------------------------------------------------------
(* The writer.                                                               *)

(* The RTSP reader has a new picture and counts it.                          *)
Capture ==
  /\ wpc = "idle" /\ wfid < MaxFrame
  /\ wfid' = wfid + 1
  /\ wpc' = "lock"
  /\ UNCHANGED <<memory, readers, wk, epoch, noted>>

(* The slot is odd from here on, also when a writer that died left it odd.      *)
Lock ==
  LET s == SlotOf(wfid) IN
  /\ wpc = "lock"
  /\ seq' = [seq EXCEPT ![s] = Mark(@)]
  /\ wpc' = "fill" /\ wk' = 1
  /\ absent' = [r \in Readers |->
                  absent[r] \/ (Pending(r) /\ SlotOf(want[r].fid) = s)]
  /\ UNCHANGED <<body, latest, wfid, epoch, noted,
                 rpc, want, s1, rk, copy, tries>>

Fill ==
  /\ wpc = "fill"
  /\ body' = [body EXCEPT ![SlotOf(wfid)][wk] = Current]
  /\ IF LastWord(wk) THEN wpc' = "unlock" /\ UNCHANGED wk
                   ELSE wk' = wk + 1 /\ UNCHANGED wpc
  /\ UNCHANGED <<seq, latest, wfid, epoch, noted, readers>>

Unlock ==
  /\ wpc = "unlock"
  /\ seq' = [seq EXCEPT ![SlotOf(wfid)] = @ + 1]
  /\ wpc' = "latest"
  /\ UNCHANGED <<body, latest, wfid, wk, epoch, noted, readers>>

StoreLatest ==
  /\ wpc = "latest"
  /\ latest' = Current
  /\ wpc' = "note"
  /\ UNCHANGED <<seq, body, wfid, wk, epoch, noted, readers>>

(* ShmFrameWriter::publish sends the metadata-only notification.             *)
Note ==
  /\ wpc = "note"
  /\ noted' = noted \cup {Current}
  /\ wpc' = "idle"
  /\ UNCHANGED <<memory, wfid, wk, epoch, readers>>

(* The writer dies wherever it is and a new one starts to count at 0: the    *)
(* ingest process crashed, or the stream was stopped and started again.      *)
Restart ==
  /\ epoch < MaxEpoch
  /\ epoch' = epoch + 1
  /\ wfid' = 0 /\ wpc' = "idle" /\ wk' = 1
  /\ UNCHANGED <<memory, noted, readers>>

Write == Capture \/ Lock \/ Fill \/ Unlock \/ StoreLatest \/ Note
-----------------------------------------------------------------------------
(* The readers.                                                              *)

(* A worker asks for an announced frame, the display for the latest one.     *)
Call(r, f) ==
  /\ rpc[r] = "idle"
  /\ rpc' = [rpc EXCEPT ![r] = "try"]
  /\ want' = [want EXCEPT ![r] = f]
  /\ tries' = [tries EXCEPT ![r] = 0]
  /\ absent' = [absent EXCEPT ![r] = Content(SlotOf(f.fid)).fid # f.fid]
  /\ UNCHANGED <<memory, writer, s1, rk, copy>>

(* The first load of the sequence number: an odd one costs an attempt.       *)
Sample(r) ==
  LET n == seq[ReadSlot(want[r].fid)] IN
  /\ rpc[r] = "try" /\ tries[r] < Tries
  /\ IF Odd(n)
     THEN /\ tries' = [tries EXCEPT ![r] = @ + 1]
          /\ UNCHANGED <<rpc, s1, rk>>
     ELSE /\ s1' = [s1 EXCEPT ![r] = n]
          /\ rk' = [rk EXCEPT ![r] = 1]
          /\ rpc' = [rpc EXCEPT ![r] = "copy"]
          /\ UNCHANGED tries
  /\ UNCHANGED <<memory, writer, want, copy, absent>>

Copy(r) ==
  /\ rpc[r] = "copy"
  /\ copy' = [copy EXCEPT ![r][rk[r]] = body[ReadSlot(want[r].fid)][rk[r]]]
  /\ IF LastWord(rk[r])
     THEN rpc' = [rpc EXCEPT ![r] = "check"] /\ UNCHANGED rk
     ELSE rk' = [rk EXCEPT ![r] = @ + 1] /\ UNCHANGED rpc
  /\ UNCHANGED <<memory, writer, want, s1, tries, absent>>

(* Faulty: the number is not compared after the copy. *)
NoRecheck(r) == TRUE
Unmoved(r) == seq[ReadSlot(want[r].fid)] = s1[r]

(* The second load: a changed number costs an attempt, a foreign id is a     *)
(* lapped frame, anything else is a hit.                                     *)
Check(r) ==
  /\ rpc[r] = "check"
  /\ IF Unmoved(r)
     THEN /\ rpc' = [rpc EXCEPT ![r] = IF copy[r][1].fid = want[r].fid
                                       THEN "hit" ELSE "miss"]
          /\ UNCHANGED tries
     ELSE /\ tries' = [tries EXCEPT ![r] = @ + 1]
          /\ rpc' = [rpc EXCEPT ![r] = "try"]
  /\ UNCHANGED <<memory, writer, want, s1, rk, copy, absent>>

GiveUp(r) ==
  /\ rpc[r] = "try" /\ tries[r] = Tries
  /\ rpc' = [rpc EXCEPT ![r] = "miss"]
  /\ UNCHANGED <<memory, writer, want, s1, rk, copy, tries, absent>>

Return(r) ==
  /\ rpc[r] \in {"hit", "miss"}
  /\ rpc' = [rpc EXCEPT ![r] = "idle"]
  /\ want' = [want EXCEPT ![r] = NoFrame]
  /\ s1' = [s1 EXCEPT ![r] = 0]
  /\ rk' = [rk EXCEPT ![r] = 1]
  /\ copy' = [copy EXCEPT ![r] = [k \in 1 .. Words |-> NoFrame]]
  /\ tries' = [tries EXCEPT ![r] = 0]
  /\ absent' = [absent EXCEPT ![r] = FALSE]
  /\ UNCHANGED <<memory, writer>>

Read(r) == Sample(r) \/ Copy(r) \/ Check(r) \/ GiveUp(r)
-----------------------------------------------------------------------------
Next ==
  \/ Write
  \/ Restart
  \/ \E r \in Readers :
       \/ \E f \in noted \cup ({latest} \ {NoFrame}) : Call(r, f)
       \/ Read(r)
       \/ Return(r)

Spec == Init /\ [][Next]_vars

(* A thread that is scheduled finishes what it started.  Pictures need not   *)
(* arrive, nobody has to call.                      *)
FairSpec == Spec /\ \A r \in Readers : WF_vars(Read(r))
-----------------------------------------------------------------------------
MemoryType ==
  /\ seq \in [Slots -> Nat]
  /\ body \in [Slots -> [1 .. Words -> Frames \cup {NoFrame}]]
  /\ latest \in Frames \cup {NoFrame}

WriterType ==
  /\ wpc \in {"idle", "lock", "fill", "unlock", "latest", "note"}
  /\ wfid \in 0 .. MaxFrame
  /\ wpc # "idle" => wfid > 0
  /\ wk \in 1 .. Words
  /\ epoch \in 0 .. MaxEpoch
  /\ noted \subseteq Frames

ReaderType ==
  /\ rpc \in [Readers -> {"idle", "try", "copy", "check", "hit", "miss"}]
  /\ want \in [Readers -> Frames \cup {NoFrame}]
  /\ s1 \in [Readers -> Nat]
  /\ rk \in [Readers -> 1 .. Words]
  /\ copy \in [Readers -> [1 .. Words -> Frames \cup {NoFrame}]]
  /\ tries \in [Readers -> 0 .. Tries]
  /\ absent \in [Readers -> BOOLEAN]
  /\ \A r \in Readers : rpc[r] \in {"copy", "check"} => tries[r] < Tries

TypeOK == MemoryType /\ WriterType /\ ReaderType

(* The torn-read claim of shm.hpp and the README: what getFrame returns was  *)
(* stored, id, dimensions and pixels, by one writeFrame of the wanted id.    *)
NoTornRead ==
  \A r \in Readers : rpc[r] = "hit" =>
    /\ copy[r][1].fid = want[r].fid
    /\ \A k \in 1 .. Words : copy[r][k] = copy[r][1]

(* The frame ids of a restarted stream repeat.  A reader that was told of a  *)
(* frame by one life of the writer may be given a later life's frame of the  *)
(* same id, never an earlier life's.                                         *)
NeverOlder ==
  \A r \in Readers : rpc[r] = "hit" =>
    copy[r][1].epoch \in want[r].epoch .. epoch

(* What a hit may be: one whole frame, of the life that was told or a later  *)
(* one.                                                                      *)
HitIsRight == NoTornRead /\ NeverOlder

(* getFrame reports a miss only when the frame was withdrawn, replaced or    *)
(* not there during the call, never for a frame that sat in its slot.        *)
NoSpuriousMiss ==
  \A r \in Readers : rpc[r] = "miss" => absent[r]

(* What the display's fallback relies on: as long as the writer that stored  *)
(* `latest` lives, the frame it names is whole and in its slot.              *)
LatestReadable ==
  latest # NoFrame /\ latest.epoch = epoch => Content(SlotOf(latest.fid)) = latest

(* A slot that a dying writer left odd is healed by the next writer's lap:   *)
(* if the last writer keeps running, every slot holds a whole frame again.   *)
Heals == WF_vars(Write) => \A s \in Slots : []<>(Content(s) # NoFrame)
-----------------------------------------------------------------------------
(* The ring implements the atomic store.                                     *)
StoreSlot == [s \in Slots |-> Content(s)]
StoreCall(r) ==
  [status |-> CASE rpc[r] = "idle" -> "idle"
                [] rpc[r] \in {"hit", "miss"} -> "done"
                [] Pending(r) -> "pending",
   want   |-> want[r],
   absent |-> absent[r],
   answer |-> IF rpc[r] = "hit" THEN copy[r][1] ELSE NoFrame]

Abstract == INSTANCE FrameStore WITH
  slot <- StoreSlot,
  call <- [r \in Readers |-> StoreCall(r)]

(* Behind the seqlock every ring looks like a store whose frames appear,     *)
(* vanish and are read in single steps.                                      *)
ImplementsStore == Abstract!Spec
=============================================================================
