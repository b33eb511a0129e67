---------------------------- MODULE SeqlockOrder ----------------------------
(***************************************************************************)
(* One slot of the ring of common/shm.cpp under the memory orders the code *)
(* asks for, and with the writers the slot really has.  FrameRing lets     *)
(* accesses happen in program order and has one writer; this module shows  *)
(* what each of the two assumptions is worth.                              *)
(*                                                                         *)
(* The sequence number is an atomic, the id, dimensions and pixels are     *)
(* plain memory.  A release store keeps back the accesses before it and an *)
(* acquire load the accesses after it, so                                  *)
(*   - the plain stores of a write may become visible before the store     *)
(*     that makes the number odd, never after the one that makes it even;  *)
(*   - the plain loads of a read may be done after the load that checks    *)
(*     the number, never before the one that samples it.                   *)
(* x86 does neither; aarch64, on which the project is deployed, does both. *)
(* The plain accesses race, which C++ leaves undefined: the outcomes here  *)
(* are those of a build that emits the accesses as written.                *)
(***************************************************************************)
EXTENDS Naturals, FiniteSets

CONSTANTS
  Writers,       (* RtspReader threads that write frames of the stream      *)
  Words,         (* plain words of the slot: id, dimensions, pixels         *)
  MaxWrites,     (* bound: the frames written to the slot                   *)
  ProgramOrder   (* TRUE: accesses are seen in program order (x86)          *)

VARIABLES
  seq, body,                       (* the slot; a word holds a write's number *)
  writes, noted,                   (* frames begun, frames announced          *)
  wpc, frame, mark, stores,        (* a write: stores not yet visible         *)
  rpc, want, s1, same, copy, loads (* the reader: loads not yet done          *)

slotVars   == <<seq, body>>
writerVars == <<writes, noted, wpc, frame, mark, stores>>
readerVars == <<rpc, want, s1, same, copy, loads>>
vars == <<slotVars, writerVars, readerVars>>

(* The odd store of the number is access 0, its checking load Words + 1.     *)
Enabled(k, pending) == ProgramOrder => \A j \in pending : k <= j

Init ==
  /\ seq = 0 /\ body = [k \in 1 .. Words |-> 0]
  /\ writes = 0 /\ noted = {}
  /\ wpc = [w \in Writers |-> "idle"]
  /\ frame = [w \in Writers |-> 0] /\ mark = [w \in Writers |-> 0]
  /\ stores = [w \in Writers |-> {}]
  /\ rpc = "idle" /\ want = 0 /\ s1 = 0 /\ same = FALSE
  /\ copy = body /\ loads = {}
-----------------------------------------------------------------------------
(* The load of the number and the arithmetic of seq | 1.                     *)
Begin(w) ==
  /\ wpc[w] = "idle" /\ writes < MaxWrites
  /\ writes' = writes + 1
  /\ frame' = [frame EXCEPT ![w] = writes + 1]
  /\ mark' = [mark EXCEPT ![w] = IF seq % 2 = 1 THEN seq ELSE seq + 1]
  /\ stores' = [stores EXCEPT ![w] = 0 .. Words]
  /\ wpc' = [wpc EXCEPT ![w] = "store"]
  /\ UNCHANGED <<slotVars, noted, readerVars>>

Store(w, k) ==
  /\ k \in stores[w] /\ Enabled(k, stores[w])
  /\ IF k = 0 THEN seq' = mark[w] /\ UNCHANGED body
              ELSE body' = [body EXCEPT ![k] = frame[w]] /\ UNCHANGED seq
  /\ stores' = [stores EXCEPT ![w] = @ \ {k}]
  /\ UNCHANGED <<writes, noted, wpc, frame, mark, readerVars>>

(* The release store of the even number waits for every store before it; the *)
(* frame is announced behind it.                                             *)
Publish(w) ==
  /\ wpc[w] = "store" /\ stores[w] = {}
  /\ seq' = mark[w] + 1
  /\ noted' = noted \cup {frame[w]}
  /\ wpc' = [wpc EXCEPT ![w] = "idle"]
  /\ UNCHANGED <<body, writes, frame, mark, stores, readerVars>>

Ask(f) ==
  /\ rpc = "idle"
  /\ want' = f /\ rpc' = "try"
  /\ UNCHANGED <<slotVars, writerVars, s1, same, copy, loads>>

(* An odd number costs an attempt; here the reader tries for ever.           *)
Sample ==
  /\ rpc = "try" /\ seq % 2 = 0
  /\ s1' = seq /\ loads' = 1 .. Words + 1
  /\ rpc' = "load"
  /\ UNCHANGED <<slotVars, writerVars, want, same, copy>>

Load(k) ==
  /\ rpc = "load"
  /\ k \in loads /\ Enabled(k, loads)
  /\ IF k > Words THEN same' = (seq = s1) /\ UNCHANGED copy
                  ELSE copy' = [copy EXCEPT ![k] = body[k]] /\ UNCHANGED same
  /\ loads' = loads \ {k}
  /\ UNCHANGED <<slotVars, writerVars, rpc, want, s1>>

Conclude ==
  /\ rpc = "load" /\ loads = {}
  /\ rpc' = IF ~ same THEN "try" ELSE IF copy[1] = want THEN "hit" ELSE "miss"
  /\ UNCHANGED <<slotVars, writerVars, want, s1, same, copy, loads>>

Return ==
  /\ rpc \in {"hit", "miss"}
  /\ rpc' = "idle"
  /\ UNCHANGED <<slotVars, writerVars, want, s1, same, copy, loads>>

Next ==
  \/ \E w \in Writers : Begin(w) \/ (\E k \in 0 .. Words : Store(w, k)) \/ Publish(w)
  \/ \E f \in noted : Ask(f)
  \/ Sample
  \/ \E k \in 1 .. Words + 1 : Load(k)
  \/ Conclude
  \/ Return

Spec == Init /\ [][Next]_vars
-----------------------------------------------------------------------------
(* README.md, "Torn-read safety": a reader can never observe a half-written  *)
(* frame.  What getFrame returns is the frame of one write, whole.           *)
NoHalfWrittenFrame ==
  rpc = "hit" => \A k \in 1 .. Words : copy[k] = want
=============================================================================
