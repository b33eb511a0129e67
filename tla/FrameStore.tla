----------------------------- MODULE FrameStore -----------------------------
(***************************************************************************)
(* What one stream's ring of frames promises to the processes that read    *)
(* it, as an atomic object: a slot either holds one whole frame or none,   *)
(* publishing a frame is one step, and reading one is one step.            *)
(*                                                                         *)
(* The program has no such object.  Its ring (common/shm.cpp, modelled by  *)
(* FrameRing) is written word by word in memory shared by processes that   *)
(* take no lock, and FrameRing is shown to implement this module.          *)
(***************************************************************************)
EXTENDS Naturals

CONSTANTS
  Readers,    (* calls of getFrame that may be in flight: inference workers,
                 and the display service                                    *)
  Depth,      (* RING_DEPTH: the slots of the ring                          *)
  MaxFrame,   (* bound: the frames one life of the writer publishes         *)
  MaxEpoch    (* bound: the restarts of the writer                          *)

VARIABLES
  slot,       (* slot -> the frame it holds, NoFrame while it holds none    *)
  call        (* reader -> its call                                         *)

vars == <<slot, call>>
-----------------------------------------------------------------------------
Slots == 0 .. Depth - 1
SlotOf(fid) == fid % Depth

(* The frame ids a life of the writer uses start again at 1, so a frame is   *)
(* named by that life as well.                                               *)
Frames  == [epoch : 0 .. MaxEpoch, fid : 1 .. MaxFrame]
NoFrame == [epoch |-> 0, fid |-> 0]

(* absent: the frame was missing from its slot at some instant of the call.  *)
Idle == [status |-> "idle", want |-> NoFrame, absent |-> FALSE, answer |-> NoFrame]

Holds(s, f) == slot[s].fid = f.fid

Init ==
  /\ slot = [s \in Slots |-> NoFrame]
  /\ call = [r \in Readers |-> Idle]

(* Every pending call for a frame of slot s sees that the slot is empty.     *)
MarkAbsent(s) ==
  [r \in Readers |->
     IF call[r].status = "pending" /\ SlotOf(call[r].want.fid) = s
     THEN [call[r] EXCEPT !.absent = TRUE]
     ELSE call[r]]

(* The writer starts to replace the frame of a slot.                         *)
Withdraw(s) ==
  /\ slot' = [slot EXCEPT ![s] = NoFrame]
  /\ call' = MarkAbsent(s)

(* The writer publishes a whole frame in one step.                           *)
Publish(f) ==
  /\ slot[SlotOf(f.fid)] = NoFrame
  /\ slot' = [slot EXCEPT ![SlotOf(f.fid)] = f]
  /\ UNCHANGED call

Ask(r, f) ==
  /\ call[r].status = "idle"
  /\ call' = [call EXCEPT ![r] =
                [status |-> "pending", want |-> f, answer |-> NoFrame,
                 absent |-> ~ Holds(SlotOf(f.fid), f)]]
  /\ UNCHANGED slot

(* A hit is the frame that the slot holds at that instant.                   *)
Hit(r) ==
  LET s == SlotOf(call[r].want.fid) IN
  /\ call[r].status = "pending"
  /\ Holds(s, call[r].want)
  /\ call' = [call EXCEPT ![r] =
                [status |-> "done", want |-> @.want, absent |-> @.absent, answer |-> slot[s]]]
  /\ UNCHANGED slot

(* A miss is only for a frame that really was missing during the call.       *)
Miss(r) ==
  /\ call[r].status = "pending"
  /\ call[r].absent
  /\ call' = [call EXCEPT ![r].status = "done"]
  /\ UNCHANGED slot

Return(r) ==
  /\ call[r].status = "done"
  /\ call' = [call EXCEPT ![r] = Idle]
  /\ UNCHANGED slot

Next ==
  \/ \E s \in Slots : Withdraw(s)
  \/ \E f \in Frames : Publish(f)
  \/ \E r \in Readers :
       \/ \E f \in Frames : Ask(r, f)
       \/ Hit(r) \/ Miss(r) \/ Return(r)

Spec == Init /\ [][Next]_vars
=============================================================================
