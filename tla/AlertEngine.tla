---------------------------- MODULE AlertEngine -----------------------------
(***************************************************************************)
(* The path from a tracked frame to an alert: the stream handler of the    *)
(* tracking service (tracking_service/main.py) drops stale frames and      *)
(* hands the others to AlertEngine.update (event_service), which keeps a   *)
(* suspicion state for each track, evaluates SustainedSuspicionRule, and   *)
(* applies the cooldown.                                                   *)
(*                                                                         *)
(* All of it runs on the capture stamp of the frame.  The inference        *)
(* workers put frames out of order and the cameras lag one another, so     *)
(* stamps go back and forth, and one engine with one pruning clock serves  *)
(* them all.  One handler processes frames at a time, as there is one      *)
(* stream from inference.  A stale frame is skipped without effect, so     *)
(* every frame here passed the test: it is at most MaxAge old.  How old it *)
(* grows afterwards does not matter, since only its stamp is used.         *)
(*                                                                         *)
(* Suspicion is counted in percent, rounded down.                          *)
(*                                                                         *)
(* A definition marked Faulty is used by no action: it is the neighbour's  *)
(* plausible bug, which one of the properties below has to catch.          *)
(***************************************************************************)
EXTENDS Integers

CONSTANTS
  Streams,
  Tracks,      (* pairs of a stream and a track id                           *)
  Signals,     (* class weight times confidence of a detection, in percent   *)
  Sustain,     (* SustainedSuspicionRule.sustain_ns                          *)
  Cooldown,    (* AlertEngine.cooldown_ns                                    *)
  Every,       (* AlertEngine.suppressed_every_ns                            *)
  Stale,       (* STALE_NS                                                   *)
  PruneEvery,  (* PRUNE_EVERY_NS                                             *)
  MaxAge,      (* TRACKING_MAX_AGE_MS                                        *)
  MaxTime      (* bound: when the clock stops                                *)

ASSUME AlertAssumption ==
  /\ Tracks \subseteq Streams \X Nat
  /\ Signals \subseteq 0 .. 100
  /\ Sustain \in Nat /\ Cooldown \in Nat \ {0} /\ Every \in Nat \ {0}
  /\ PruneEvery \in Nat /\ MaxTime \in Nat \ {0}
  /\ Stale \in Nat /\ MaxAge \in 0 .. Stale

VARIABLES
  clock,       (* the monotonic clock all the processes share                *)
  track,       (* SuspicionTracker._tracks                                   *)
  fired,       (* AlertEngine._fired                                         *)
  lastPrune,   (* AlertEngine._last_prune                                    *)
  lastNow,     (* history: the stamp of the frame processed last             *)
  calm,        (* history: the stamp of the last observation that left a
                  track unsuspicious                                         *)
  alerts       (* history: how many alerts a track had, when it had the last,
                  and how much evidence was saved for that one               *)

engine  == <<track, fired, lastPrune>>
history == <<lastNow, calm, alerts>>
vars    == <<clock, engine, history>>
-----------------------------------------------------------------------------
ALPHA    == 30
RAISE_AT == 35
CLEAR_AT == 15

(* Stamps are positive, so last = 0 stands for a track that is not known,    *)
(* and at = 0 for one that has no record.                                    *)
NoTrack  == [ewma |-> 0, raised |-> FALSE, since |-> 0, last |-> 0]
NoRecord == [at |-> 0, suppressed |-> 0]

Init ==
  /\ clock = 1
  /\ track = [k \in Tracks |-> NoTrack]
  /\ fired = [k \in Tracks |-> NoRecord]
  /\ lastPrune = 0 /\ lastNow = 0
  /\ calm = [k \in Tracks |-> 0]
  /\ alerts = [k \in Tracks |-> [count |-> 0, at |-> 0, evidence |-> 0]]

(* TrackState.observe: the average, and the hysteresis on it.                *)
(* Faulty: the old average is not weighted. *)
EwmaUnweighted(e, signal) == (ALPHA * signal) \div 100 + e
Ewma(e, signal) == (ALPHA * signal + (100 - ALPHA) * e) \div 100

Observe(s, signal, now) ==
  LET e      == Ewma(s.ewma, signal)
      raises == ~ s.raised /\ e >= RAISE_AT
      clears == s.raised /\ e <= CLEAR_AT IN
  [ewma   |-> e,
   raised |-> IF raises THEN TRUE ELSE IF clears THEN FALSE ELSE s.raised,
   since  |-> IF raises THEN now ELSE IF clears THEN 0 ELSE s.since,
   last   |-> now]

(* SustainedSuspicionRule.evaluate.                                          *)
Fires(s, now) == s.raised /\ now - s.since >= Sustain

Cooling(rec, now) == rec.at # 0 /\ now - rec.at < Cooldown
(* Faulty: evidence is saved for every frame. *)
EvidenceAlwaysDue(rec, now) == TRUE
EvidenceDue(rec, now) == now - rec.suppressed >= Every

(* Faulty: evidence prolongs the cooldown of the alert it belongs to. *)
EvidenceProlongs(rec, now) ==
  IF Cooling(rec, now)
  THEN IF EvidenceDue(rec, now) THEN [at |-> now, suppressed |-> now] ELSE rec
  ELSE [at |-> now, suppressed |-> now]

(* What a firing rule leaves in the record of its track.                     *)
Fire(rec, now) ==
  IF Cooling(rec, now)
  THEN IF EvidenceDue(rec, now) THEN [rec EXCEPT !.suppressed = now] ELSE rec
  ELSE [at |-> now, suppressed |-> now]

(* SuspicionTracker.prune and AlertEngine._prune_fired.                      *)
PruneTrack(s, now) == IF now - s.last > Stale THEN NoTrack ELSE s
(* Faulty: a record is dropped with the last evidence, not the alert. *)
PruneRecordBySuppressed(rec, now) ==
  IF now - rec.suppressed >= Every THEN NoRecord ELSE rec
PruneRecord(rec, now) == IF now - rec.at >= Cooldown THEN NoRecord ELSE rec

(* Faulty: the engine prunes only when a track could have become stale since. *)
PruneDueRarely(now) == now - lastPrune > PruneEvery + Stale
PruneDue(now) == now - lastPrune > PruneEvery
-----------------------------------------------------------------------------
Tick ==
  /\ clock < MaxTime
  /\ clock' = clock + 1
  /\ UNCHANGED <<engine, history>>

(* The instants a frame that is not stale can carry.  A frame without a      *)
(* stamp is never stale and is given the time of its processing.             *)
Stamps == {t \in 1 .. clock : clock - t <= MaxAge}

(* A frame of a stream: the tracks it shows, with the signal of each.        *)
Frames(stream) == UNION {[seen -> Signals] : seen \in SUBSET {k \in Tracks : k[1] = stream}}

(* The history of a track: an alert, a saved piece of evidence, or neither.  *)
Outcome(k, s, now) ==
  IF ~ Fires(s, now) THEN alerts[k]
  ELSE IF ~ Cooling(fired[k], now)
  THEN [count |-> alerts[k].count + 1, at |-> now, evidence |-> 0]
  ELSE IF EvidenceDue(fired[k], now)
  THEN [alerts[k] EXCEPT !.evidence = @ + 1]
  ELSE alerts[k]

(* One track in the loop of update.                                          *)
Observed(k, frame, now) ==
  IF k \in DOMAIN frame THEN Observe(track[k], frame[k], now) ELSE track[k]

Recorded(k, frame, now) ==
  IF k \in DOMAIN frame /\ Fires(Observed(k, frame, now), now)
  THEN Fire(fired[k], now) ELSE fired[k]

(* grpcStreamDetections past its stale test, and AlertEngine.update: the     *)
(* loop over the tracks of the frame, and then the pruning of all of them.   *)
Update(frame, now) ==
  /\ track' = [k \in Tracks |->
                 IF PruneDue(now) THEN PruneTrack(Observed(k, frame, now), now)
                                  ELSE Observed(k, frame, now)]
  /\ fired' = [k \in Tracks |->
                 IF PruneDue(now) THEN PruneRecord(Recorded(k, frame, now), now)
                                  ELSE Recorded(k, frame, now)]
  /\ lastPrune' = IF PruneDue(now) THEN now ELSE lastPrune
  /\ lastNow' = now
  /\ calm' = [k \in Tracks |->
                IF k \in DOMAIN frame /\ ~ Observed(k, frame, now).raised
                THEN now ELSE calm[k]]
  /\ alerts' = [k \in Tracks |->
                  IF k \in DOMAIN frame THEN Outcome(k, Observed(k, frame, now), now)
                                        ELSE alerts[k]]
  /\ UNCHANGED clock

Next ==
  \/ Tick
  \/ \E stream \in Streams : \E frame \in Frames(stream), now \in Stamps : Update(frame, now)

Spec == Init /\ [][Next]_vars
-----------------------------------------------------------------------------
States  == [ewma : 0 .. 100, raised : BOOLEAN, since : 0 .. MaxTime, last : 0 .. MaxTime]
Records == [at : 0 .. MaxTime, suppressed : 0 .. MaxTime]

TypeOK ==
  /\ clock \in 1 .. MaxTime
  /\ track \in [Tracks -> States]
  /\ fired \in [Tracks -> Records]
  /\ lastPrune \in 0 .. clock /\ lastNow \in 0 .. clock
  /\ calm \in [Tracks -> 0 .. MaxTime]
  /\ alerts \in [Tracks -> [count : Nat, at : 0 .. MaxTime, evidence : Nat]]

(* The cooldown of alert_engine.py, for whatever order frames come in and    *)
(* whichever streams share the engine: two alerts for one track are a        *)
(* cooldown apart, but for the age of a frame.  The age is needed: a frame   *)
(* of another stream may prune the record just before an older one arrives.  *)
CooldownKept ==
  [][\A k \in Tracks :
       alerts'[k].count # alerts[k].count /\ alerts[k].count > 0 =>
         alerts'[k].at - alerts[k].at >= Cooldown - MaxAge]_vars

(* "Fire when a track's suspicion has stayed raised for sustain_s": when an  *)
(* alert fires, the last observation that left the track calm is a sustain   *)
(* window old, but for the age of a frame.                                   *)
SustainKept ==
  [][\A k \in Tracks :
       alerts'[k].count # alerts[k].count =>
         /\ calm[k] > 0
         /\ alerts'[k].at - calm[k] >= Sustain - MaxAge]_vars

(* An alert comes neither too soon after the one before nor too soon after   *)
(* the track was calm.                                                       *)
OnTime == CooldownKept /\ SustainKept

(* "cooldown_s / suppressed_every_s records per suppressed window": what is  *)
(* saved in the cooldown of one alert is bounded.                            *)
EvidenceBounded ==
  \A k \in Tracks : alerts[k].evidence > 0 => alerts[k].evidence * Every < Cooldown

(* "a backlogged stream must alert like a healthy one": a track whose        *)
(* suspicion has been up for the sustain window has an alert that is not     *)
(* older than a cooldown, whatever was pruned meanwhile.                     *)
NoMissedAlert ==
  \A k \in Tracks : Fires(track[k], track[k].last) =>
    alerts[k].count > 0 /\ track[k].last - alerts[k].at < Cooldown

(* prune "bounds memory over long runs": behind a frame there is no track    *)
(* that was last seen long before it, and no record of an old alert, though  *)
(* pruning happens now and then and on the clock of any stream.              *)
Forgotten ==
  \A k \in Tracks :
    /\ track[k].last # 0 => lastNow - track[k].last <= Stale + PruneEvery
    /\ fired[k].at # 0 => lastNow - fired[k].at <= Cooldown + PruneEvery + MaxAge
=============================================================================
