---------------------------- MODULE TrackLists -----------------------------
(***************************************************************************)
(* The bookkeeping of ByteTrack (tracking_service/byte_tracker.py) for one *)
(* stream: the life of a track through the tracked, lost and removed       *)
(* lists, and the detection each reported id is given to.                  *)
(*                                                                         *)
(* A step is one frame, BYTETracker.update.  Which boxes overlap is left   *)
(* open: each of the three associations may match any tracks with any      *)
(* detections of its stage, one to one.  Boxes and the Kalman filter are   *)
(* left out; a detection keeps its index in the frame and its confidence,  *)
(* as far as the thresholds tell it apart.                                 *)
(*                                                                         *)
(* A track is its id, and `tracks' the objects the three lists share.  The *)
(* counter of ids serves all the streams of the process.                   *)
(*                                                                         *)
(* A definition marked Faulty is used by no action: it is the neighbour's  *)
(* plausible bug, which one of the properties below has to catch.          *)
(***************************************************************************)
EXTENDS Integers, Sequences, FiniteSets, Functions

CONSTANTS
  Dets,       (* indices a detection can have in its frame                   *)
  MaxLost,    (* BYTETracker.max_time_lost                                   *)
  Keep,       (* how many removed tracks are remembered (1000)               *)
  MaxTracks,  (* bound: ids that are given away                              *)
  MaxFrame    (* bound: frames of the stream                                 *)

ASSUME TrackAssumption ==
  /\ IsFiniteSet(Dets) /\ Dets \subseteq Nat
  /\ MaxLost \in Nat \ {0} /\ MaxTracks \in Nat /\ MaxFrame \in Nat
  /\ Keep \in Nat /\ Keep >= MaxTracks

VARIABLES
  frame,    (* BYTETracker.frame_id                                          *)
  next,     (* STrack._count                                                 *)
  tracks,   (* the STrack of each id                                         *)
  tracked,  (* ids in tracked_stracks                                        *)
  lost,     (* ids in lost_stracks                                           *)
  removed,  (* ids in removed_stracks, in their order                        *)
  shown,    (* the detections of the last frame above low_thresh             *)
  gone      (* history: tracks that were removed, or dropped as duplicates   *)

vars == <<frame, next, tracks, tracked, lost, removed, shown, gone>>
-----------------------------------------------------------------------------
TrackId == 1 .. MaxTracks

(* A detection that may start a track (det_thresh), one for the first        *)
(* association (track_thresh), one for the second.                           *)
Grades == {"strong", "high", "low"}

NewTrack == [state |-> "New", live |-> FALSE, last |-> 0, start |-> 0, det |-> 0]

Init ==
  /\ frame = 0 /\ next = 0
  /\ tracks = [t \in TrackId |-> NewTrack]
  /\ tracked = {} /\ lost = {} /\ removed = << >>
  /\ shown = {} /\ gone = {}

(* The tentative tracks, seen in one frame only, and what the first          *)
(* association may match.                                                    *)
Unconfirmed == {t \in tracked : ~ tracks[t].live}
Pool == (tracked \ Unconfirmed) \union lost

(* linear_assignment: any one-to-one matching, as its gate allows.           *)
Matchings(ts, ds) == UNION {Injection(s, ds) : s \in SUBSET ts}

(* Matchings of different tracks in one (TLC's @@, which the provers do not  *)
(* expand).                                                                  *)
And(m, n) ==
  [t \in DOMAIN m \union DOMAIN n |-> IF t \in DOMAIN m THEN m[t] ELSE n[t]]

(* The next ids for new tracks, in the order of the detections.              *)
Births(S) ==
  {b \in Bijection(next + 1 .. next + Cardinality(S), S) :
     \A t, u \in DOMAIN b : t < u => b[t] < b[u]}

(* Faulty: every track is live at once. *)
HitAtOnce(t, det, now) ==
  [state |-> "Tracked", live |-> TRUE, last |-> now,
   start |-> IF t <= next THEN tracks[t].start ELSE now, det |-> det]

(* update, re_activate and activate.  A track is live at once if it starts   *)
(* in the first frame, otherwise when it is matched again.                   *)
Hit(t, det, now) ==
  [state |-> "Tracked", live |-> t <= next \/ now = 1,
   last |-> now, start |-> IF t <= next THEN tracks[t].start ELSE now, det |-> det]

(* Lost tracks that have not been seen for too long, given those matched in  *)
(* this frame.                                                               *)
Aged(hits, now) == {t \in lost \ hits : now - tracks[t].last > MaxLost}

(* Faulty: tracks that were not matched stay in the list. *)
StayAll(ts) == tracked
(* Tracks of the list that are still tracked after the matching.             *)
Stay(ts) == {t \in tracked : ts[t].state = "Tracked"}

(* Faulty: the tracks that were lost before are forgotten. *)
StillLostOnlyNew(now, missed) == missed \ Range(removed)
(* The merge of lost_stracks.  What is subtracted is removed_stracks before  *)
(* this frame's removals are appended, so a track that has aged out stays    *)
(* for one more frame, in which it can be matched again.                     *)
StillLost(now, missed) == ((lost \ now) \union missed) \ Range(removed)

(* remove_duplicate_stracks, given the pairs that overlap: of each pair the  *)
(* one with the longer life stays.                                           *)
Life(ts, t) == ts[t].last - ts[t].start
DupTracked(ts, same) == {pq[1] : pq \in {x \in same : Life(ts, x[1]) <= Life(ts, x[2])}}
DupLost(ts, same)    == {pq[2] : pq \in {x \in same : Life(ts, x[1]) > Life(ts, x[2])}}

(* The orders in which a frame's removals can be appended.                   *)
Orders(S) == Bijection(1 .. Cardinality(S), S)

(* Faulty: nothing is cut off. *)
Unbounded(s) == s
Newest(s) == IF Len(s) > Keep THEN SubSeq(s, Len(s) - Keep + 1, Len(s)) ELSE s
-----------------------------------------------------------------------------
(* What an association leaves to the second one, and what is left of the     *)
(* detections.                                                               *)
Coasting(m1) == {t \in Pool \ DOMAIN m1 : tracks[t].state = "Tracked"}
Left(ds, m) == ds \ Range(m)

(* The rest of update, given the detection of each track that was matched or *)
(* started and the tracks that only the second association missed: ageing,   *)
(* the merge of the lists and the removal of duplicates.                     *)
Merge(match, missed) ==
  LET hits  == DOMAIN match
      out   == (Unconfirmed \ hits) \union Aged(hits, frame')
      now   == Stay(tracks') \union hits
      still == StillLost(now, missed)
  IN /\ tracks' = [t \in TrackId |->
          CASE t \in hits   -> Hit(t, match[t], frame')
            [] t \in out    -> [tracks[t] EXCEPT !.state = "Removed"]
            [] t \in missed -> [tracks[t] EXCEPT !.state = "Lost"]
            [] OTHER        -> tracks[t]]
     /\ \E order \in Orders(out) : removed' = Newest(removed \o order)
     /\ \E same \in SUBSET (now \X still) :
          LET drop == DupTracked(tracks', same) \union DupLost(tracks', same) IN
          /\ tracked' = now \ DupTracked(tracks', same)
          /\ lost' = still \ DupLost(tracks', same)
          /\ gone' = gone \union out \union drop

(* update: the first association, the second one for tracks that were seen   *)
(* in the last frame, the third one for tentative tracks, and new tracks.    *)
Frame ==
  /\ frame < MaxFrame
  /\ frame' = frame + 1
  /\ \E ds \in SUBSET Dets : \E grade \in [ds -> Grades] :
       LET high   == {d \in ds : grade[d] # "low"}
           strong == {d \in ds : grade[d] = "strong"}
       IN \E m1 \in Matchings(Pool, high) :
          \E m2 \in Matchings(Coasting(m1), ds \ high) :
          \E m3 \in Matchings(Unconfirmed, Left(high, m1)) :
            LET new == Left(Left(strong, m1), m3) IN
            \E born \in Births(new) :
              /\ next + Cardinality(new) <= MaxTracks
              /\ next' = next + Cardinality(new)
              /\ Merge(And(And(m1, m2), And(m3, born)), Coasting(m1) \ DOMAIN m2)
              /\ shown' = ds

(* The tracker of another stream takes the next id.                          *)
Elsewhere ==
  /\ next < MaxTracks
  /\ next' = next + 1
  /\ UNCHANGED <<frame, tracks, tracked, lost, removed, shown, gone>>

Next == Frame \/ Elsewhere

Spec == Init /\ [][Next]_vars
-----------------------------------------------------------------------------
(* What update returns: the tracks whose ids the detections are given.       *)
Online == {t \in tracked : tracks[t].live}

(* The id TrackerEngine puts into each detection, -1 for none.  A detection  *)
(* of two tracks would get the id of either.                                 *)
gTrackId ==
  [d \in shown |-> IF \E t \in Online : tracks[t].det = d
                  THEN CHOOSE t \in Online : tracks[t].det = d ELSE -1]

(* Type correctness; the memory of removed tracks is bounded.                *)
TypeOK ==
  /\ frame \in 0 .. MaxFrame
  /\ next \in 0 .. MaxTracks
  /\ tracks \in [TrackId -> [state : {"New", "Tracked", "Lost", "Removed"},
                             live : BOOLEAN, last : Nat, start : Nat,
                             det : Dets \union {0}]]
  /\ tracked \subseteq 1 .. next
  /\ lost \subseteq 1 .. next
  /\ removed \in Seq(1 .. next) /\ Len(removed) <= Keep
  /\ shown \subseteq Dets
  /\ gone \subseteq 1 .. next

(* A reported id goes to the right person: every track that is tracked was   *)
(* matched in this very frame, with a detection of it, and no two tracks     *)
(* with the same one.  ByteTrackTracker.update writes ids[t.det_index]       *)
(* without a look at the age of the index.                                   *)
OneIdEach ==
  /\ \A t \in tracked : tracks[t].last = frame /\ tracks[t].det \in shown
  /\ \A t, u \in tracked : tracks[t].det = tracks[u].det => t = u
  /\ \A t \in Online : gTrackId[tracks[t].det] = t

(* A track is in one list: a track that was found again is not lost at the   *)
(* same time, so that no frame matches it twice.                             *)
OneList ==
  /\ tracked \intersect lost = {}
  /\ \A t \in tracked : tracks[t].state = "Tracked"
  /\ \A t \in lost : tracks[t].state \in {"Lost", "Removed"}

(* A person who is out of sight is remembered: a track that is neither       *)
(* removed nor a duplicate is in the list its state belongs to, and the lost *)
(* ones were seen at most MaxLost frames ago, or MaxLost + 1 if the last     *)
(* frame aged them out.                                                      *)
Remembered ==
  /\ \A t \in TrackId \ gone :
       /\ tracks[t].state = "Tracked" => t \in tracked
       /\ tracks[t].state = "Lost" => t \in lost
  /\ \A t \in lost :
       frame - tracks[t].last \in 1 .. IF tracks[t].state = "Lost" THEN MaxLost ELSE MaxLost + 1

(* What the lists are for: no track twice, and none lost out of them.        *)
ListsRight == OneList /\ Remembered

(* A box that shows up in a single frame gets no id: except in the first     *)
(* frame of the stream, an id is first reported in the frame after the one   *)
(* it was born in, so it was matched in two frames in a row.                 *)
TwoInARow ==
  [][\A t \in Online' : tracks'[t].start > 1 /\ ~ tracks[t].live
       => tracks[t].last = frame /\ t \in tracked]_vars
=============================================================================
