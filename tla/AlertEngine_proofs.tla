------------------------- MODULE AlertEngine_proofs -------------------------
(***************************************************************************)
(* Proofs about AlertEngine, for any number of streams and tracks, any     *)
(* signals, and all lengths of the windows that AlertAssumption admits.    *)
(***************************************************************************)
EXTENDS AlertEngine, TLAPS

(* No instant that the engine holds is ahead of the clock.                   *)
PastInv ==
  \A k \in Tracks :
    /\ track[k].last <= clock /\ fired[k].at <= clock
    /\ calm[k] <= clock /\ alerts[k].at <= clock

(* A record is that of the latest alert of its track; if the track has no    *)
(* record, a cooldown went by since.                                         *)
RecordInv ==
  \A k \in Tracks :
    /\ fired[k].at # 0 => alerts[k].count > 0 /\ alerts[k].at = fired[k].at
    /\ fired[k].at = 0 /\ alerts[k].count > 0 => clock - alerts[k].at >= Cooldown

(* A track that is suspicious was seen calm before, and what is left of any  *)
(* suspicion in a track that is not raised stems from an observation.        *)
CalmInv ==
  \A k \in Tracks :
    /\ track[k].raised => calm[k] > 0 /\ track[k].since >= calm[k] - MaxAge
    /\ ~ track[k].raised /\ track[k].ewma # 0 => calm[k] > 0

(* Each piece of evidence took its share of the cooldown.                    *)
EvidenceInv ==
  \A k \in Tracks : fired[k].at # 0 =>
    alerts[k].evidence * Every <= fired[k].suppressed - fired[k].at

(* Nothing the engine holds was stale at the last pruning.                   *)
PruneInv ==
  /\ lastNow - lastPrune <= PruneEvery
  /\ \A k \in Tracks :
       /\ track[k].last # 0 => track[k].last >= lastPrune - Stale
       /\ fired[k].at # 0 => fired[k].at >= lastPrune - Cooldown - MaxAge

AlertInv ==
  /\ TypeOK
  /\ PastInv /\ RecordInv /\ CalmInv /\ EvidenceInv /\ PruneInv
  /\ EvidenceBounded /\ NoMissedAlert
-----------------------------------------------------------------------------
(* The average stays a percentage, and one observation does not raise a      *)
(* track that was never suspicious.                                          *)
LEMMA EwmaRange ==
  ASSUME NEW e \in 0 .. 100, NEW signal \in 0 .. 100
  PROVE  /\ Ewma(e, signal) \in 0 .. 100
         /\ e = 0 => Ewma(e, signal) < RAISE_AT
BY DEF Ewma, ALPHA, RAISE_AT

LEMMA ObserveType ==
  ASSUME NEW s \in States, NEW signal \in Signals, NEW now \in 1 .. MaxTime
  PROVE  /\ Observe(s, signal, now) \in States
         /\ Observe(s, signal, now).last = now
         /\ Observe(s, signal, now).raised =>
              \/ s.raised /\ Observe(s, signal, now).since = s.since
              \/ ~ s.raised /\ s.ewma # 0 /\ Observe(s, signal, now).since = now
<1> DEFINE e == Ewma(s.ewma, signal)
<1>1. s.ewma \in 0 .. 100 /\ s.raised \in BOOLEAN /\ s.since \in 0 .. MaxTime
  BY DEF States
<1>2. e \in 0 .. 100 /\ (s.ewma = 0 => e < RAISE_AT)
  BY <1>1, EwmaRange, AlertAssumption
<1> DEFINE o == Observe(s, signal, now)
<1> HIDE DEF e
<1>3. CASE ~ s.raised /\ e >= RAISE_AT
  <2>1. o = [ewma |-> e, raised |-> TRUE, since |-> now, last |-> now]
    BY <1>3 DEF Observe, e
  <2>2. s.ewma # 0
    BY <1>1, <1>2, <1>3 DEF RAISE_AT
  <2>3. now \in 0 .. MaxTime
    BY AlertAssumption
  <2>4. o \in States
    BY <1>2, <2>1, <2>3 DEF States
  <2>5. o.since = now /\ o.last = now
    BY <2>1
  <2> QED BY <1>3, <2>2, <2>4, <2>5
<1>4. CASE s.raised /\ e <= CLEAR_AT
  <2>1. o = [ewma |-> e, raised |-> FALSE, since |-> 0, last |-> now]
    BY <1>4 DEF Observe, e
  <2> QED BY <1>1, <1>2, <2>1, AlertAssumption DEF States
<1>5. CASE ~ (~ s.raised /\ e >= RAISE_AT) /\ ~ (s.raised /\ e <= CLEAR_AT)
  <2>1. o = [ewma |-> e, raised |-> s.raised, since |-> s.since, last |-> now]
    BY <1>5 DEF Observe, e
  <2> QED BY <1>1, <1>2, <2>1 DEF States
<1> QED BY <1>3, <1>4, <1>5

LEMMA StampType ==
  ASSUME TypeOK, NEW now \in Stamps
  PROVE  /\ now \in 1 .. MaxTime /\ now \in Nat
         /\ now <= clock /\ clock - now <= MaxAge
BY AlertAssumption DEF TypeOK, Stamps

LEMMA FrameType ==
  ASSUME NEW stream \in Streams, NEW frame \in Frames(stream)
  PROVE  /\ DOMAIN frame \subseteq Tracks
         /\ \A k \in DOMAIN frame : frame[k] \in Signals
BY DEF Frames
-----------------------------------------------------------------------------
LEMMA InitAlert == Init => AlertInv
<1> SUFFICES ASSUME Init PROVE AlertInv
  OBVIOUS
<1> USE AlertAssumption DEF Init, NoTrack, NoRecord
<1>1. TypeOK
  BY DEF TypeOK, States, Records
<1>2. PastInv /\ RecordInv /\ CalmInv /\ EvidenceInv /\ PruneInv
  BY DEF PastInv, RecordInv, CalmInv, EvidenceInv, PruneInv
<1>3. EvidenceBounded /\ NoMissedAlert
  BY DEF EvidenceBounded, NoMissedAlert, Fires
<1> QED BY <1>1, <1>2, <1>3 DEF AlertInv

LEMMA TickStep == AlertInv /\ Tick => AlertInv'
<1> SUFFICES ASSUME AlertInv, Tick PROVE AlertInv'
  OBVIOUS
<1> USE AlertAssumption
<1>1. /\ clock \in 1 .. MaxTime /\ clock' = clock + 1 /\ clock' \in 1 .. MaxTime
      /\ UNCHANGED <<track, fired, lastPrune, lastNow, calm, alerts>>
  BY DEF Tick, AlertInv, TypeOK, engine, history
<1>2. TypeOK'
  BY <1>1 DEF AlertInv, TypeOK
<1>3. /\ track \in [Tracks -> States] /\ fired \in [Tracks -> Records]
      /\ calm \in [Tracks -> 0 .. MaxTime]
      /\ alerts \in [Tracks -> [count : Nat, at : 0 .. MaxTime, evidence : Nat]]
  BY DEF AlertInv, TypeOK
<1>4. PastInv' /\ RecordInv'
  BY <1>1, <1>3 DEF AlertInv, PastInv, RecordInv, States, Records
<1>5. CalmInv' /\ EvidenceInv' /\ PruneInv' /\ EvidenceBounded' /\ NoMissedAlert'
  BY <1>1 DEF AlertInv, CalmInv, EvidenceInv, PruneInv, EvidenceBounded, NoMissedAlert, Fires
<1> QED BY <1>2, <1>4, <1>5 DEF AlertInv
-----------------------------------------------------------------------------
(* What a frame does to one track, before anything is pruned: its state...   *)
LEMMA ObservedFacts ==
  ASSUME AlertInv, NEW stream \in Streams, NEW frame \in Frames(stream),
         NEW now \in Stamps, NEW k \in Tracks, Update(frame, now)
  PROVE  /\ Observed(k, frame, now) \in States
         /\ k \in DOMAIN frame => Observed(k, frame, now).last = now
         /\ k \notin DOMAIN frame => Observed(k, frame, now) = track[k]
         /\ calm'[k] \in 0 .. clock
         /\ Observed(k, frame, now).raised =>
              calm'[k] > 0 /\ Observed(k, frame, now).since >= calm'[k] - MaxAge
         /\ ~ Observed(k, frame, now).raised /\ Observed(k, frame, now).ewma # 0 =>
              calm'[k] > 0
         /\ k \in DOMAIN frame /\ Observed(k, frame, now).raised =>
              /\ calm'[k] = calm[k]
              /\ calm[k] > 0
              /\ Observed(k, frame, now).since >= calm[k] - MaxAge
<1> USE AlertAssumption
<1> DEFINE o == Observed(k, frame, now)
<1>1. /\ now \in 1 .. MaxTime /\ now <= clock /\ clock - now <= MaxAge
      /\ clock \in 1 .. MaxTime
  BY StampType DEF AlertInv, TypeOK
<1>2. track[k] \in States /\ calm[k] \in 0 .. clock
  BY DEF AlertInv, TypeOK, PastInv
<1>3. /\ track[k].raised => calm[k] > 0 /\ track[k].since >= calm[k] - MaxAge
      /\ ~ track[k].raised /\ track[k].ewma # 0 => calm[k] > 0
  BY DEF AlertInv, CalmInv
<1>4. calm'[k] = IF k \in DOMAIN frame /\ ~ o.raised THEN now ELSE calm[k]
  BY DEF Update
<1>5. CASE k \notin DOMAIN frame
  <2>1. o = track[k] /\ calm'[k] = calm[k]
    BY <1>4, <1>5 DEF Observed
  <2> QED BY <1>2, <1>3, <1>5, <2>1
<1>6. CASE k \in DOMAIN frame
  <2>1. o = Observe(track[k], frame[k], now)
    BY <1>6 DEF Observed
  <2>2. frame[k] \in Signals
    BY <1>6, FrameType
  <2>3. /\ o \in States /\ o.last = now
        /\ o.raised => \/ track[k].raised /\ o.since = track[k].since
                       \/ ~ track[k].raised /\ track[k].ewma # 0 /\ o.since = now
    <3> DEFINE s == track[k]
               g == frame[k]
    <3>1. s \in States /\ g \in Signals /\ now \in 1 .. MaxTime
      BY <1>1, <1>2, <2>2
    <3>2. o = Observe(s, g, now)
      BY <2>1
    <3> HIDE DEF s, g, o
    <3>3. /\ Observe(s, g, now) \in States
          /\ Observe(s, g, now).last = now
          /\ Observe(s, g, now).raised =>
               \/ s.raised /\ Observe(s, g, now).since = s.since
               \/ ~ s.raised /\ s.ewma # 0 /\ Observe(s, g, now).since = now
      BY <3>1, ObserveType
    <3> QED BY <3>2, <3>3 DEF s
  <2> HIDE DEF o
  <2>4. CASE ~ o.raised
    <3>1. calm'[k] = now
      BY <1>4, <1>6, <2>4
    <3> QED BY <1>1, <1>6, <2>3, <2>4, <3>1 DEF o
  <2>5. CASE o.raised
    <3>1. calm'[k] = calm[k]
      BY <1>4, <2>5
    <3>2. calm[k] > 0 /\ o.since >= calm[k] - MaxAge
      BY <1>1, <1>2, <1>3, <2>3, <2>5
    <3> QED BY <1>2, <1>6, <2>3, <2>5, <3>1, <3>2 DEF o
  <2> QED BY <2>4, <2>5
<1> QED BY <1>5, <1>6

(* ... and its record, with the alerts it has had.                           *)
LEMMA RecordedFacts ==
  ASSUME AlertInv, NEW stream \in Streams, NEW frame \in Frames(stream),
         NEW now \in Stamps, NEW k \in Tracks, Update(frame, now)
  PROVE  LET r == Recorded(k, frame, now)
             o == Observed(k, frame, now)
             a == alerts'[k] IN
         /\ r \in Records /\ r.at <= clock /\ (r.at = fired[k].at \/ r.at = now)
         /\ a \in [count : Nat, at : 0 .. MaxTime, evidence : Nat] /\ a.at <= clock
         /\ r.at # 0 => /\ a.count > 0 /\ a.at = r.at
                        /\ a.evidence * Every <= r.suppressed - r.at
         /\ r.at = 0 /\ a.count > 0 => clock - a.at >= Cooldown
         /\ a.evidence > 0 => a.evidence * Every < Cooldown
         /\ Fires(o, o.last) => a.count > 0 /\ o.last - a.at < Cooldown
<1> USE AlertAssumption
<1> DEFINE r == Recorded(k, frame, now)
           o == Observed(k, frame, now)
           a == alerts'[k]
           b == alerts[k]
           f == fired[k]
<1>1. /\ now \in 1 .. MaxTime /\ now <= clock /\ clock - now <= MaxAge
      /\ clock \in 1 .. MaxTime
  BY StampType DEF AlertInv, TypeOK
<1>2. /\ f \in Records /\ b \in [count : Nat, at : 0 .. MaxTime, evidence : Nat]
      /\ f.at <= clock /\ b.at <= clock
  BY DEF AlertInv, TypeOK, PastInv
<1>3. /\ f.at # 0 => b.count > 0 /\ b.at = f.at
      /\ f.at = 0 /\ b.count > 0 => clock - b.at >= Cooldown
  BY DEF AlertInv, RecordInv
<1>4. /\ f.at # 0 => b.evidence * Every <= f.suppressed - f.at
      /\ b.evidence > 0 => b.evidence * Every < Cooldown
  BY DEF AlertInv, EvidenceInv, EvidenceBounded
<1>5. Fires(track[k], track[k].last) => b.count > 0 /\ track[k].last - b.at < Cooldown
  BY DEF AlertInv, NoMissedAlert
<1>6. a = IF k \in DOMAIN frame THEN Outcome(k, o, now) ELSE b
  BY DEF Update
<1>7. /\ k \in DOMAIN frame => o.last = now
      /\ k \notin DOMAIN frame => o = track[k]
  BY ObservedFacts
<1> HIDE DEF o
<1>8. CASE k \notin DOMAIN frame
  <2>1. r = f /\ a = b /\ o = track[k]
    BY <1>6, <1>7, <1>8 DEF Recorded
  <2> QED BY <1>2, <1>3, <1>4, <1>5, <2>1 DEF o
<1>9. CASE k \in DOMAIN frame /\ ~ Fires(o, now)
  <2>1. r = f /\ a = b /\ o.last = now
    BY <1>6, <1>7, <1>9 DEF Recorded, Outcome, o
  <2> QED BY <1>2, <1>3, <1>4, <1>9, <2>1 DEF o
<1>10. CASE k \in DOMAIN frame /\ Fires(o, now) /\ ~ Cooling(f, now)
  <2>1. r = [at |-> now, suppressed |-> now]
    BY <1>10 DEF Recorded, Fire, o
  <2>2. a = [count |-> b.count + 1, at |-> now, evidence |-> 0]
    BY <1>6, <1>10 DEF Outcome
  <2>3. o.last = now
    BY <1>7, <1>10
  <2>4. r \in Records /\ r.at = now /\ r.suppressed = now
    BY <1>1, <2>1 DEF Records
  <2>5. /\ a \in [count : Nat, at : 0 .. MaxTime, evidence : Nat]
        /\ a.count > 0 /\ a.at = now /\ a.evidence = 0
    BY <1>1, <1>2, <2>2
  <2> HIDE DEF r, a
  <2>6. a.evidence * Every = 0
    BY <2>5
  <2> QED BY <1>1, <2>3, <2>4, <2>5, <2>6 DEF o, r, a
<1>11. CASE k \in DOMAIN frame /\ Fires(o, now) /\ Cooling(f, now) /\ EvidenceDue(f, now)
  <2>1. r = [f EXCEPT !.suppressed = now]
    BY <1>11 DEF Recorded, Fire, o
  <2>2. a = [b EXCEPT !.evidence = @ + 1]
    BY <1>6, <1>11 DEF Outcome
  <2>3. o.last = now
    BY <1>7, <1>11
  <2>4. f.at \in 0 .. MaxTime /\ f.suppressed \in 0 .. MaxTime
    BY <1>2 DEF Records
  <2>5. r \in Records /\ r.at = f.at /\ r.suppressed = now
    BY <1>1, <1>2, <2>1 DEF Records
  <2>6. /\ a \in [count : Nat, at : 0 .. MaxTime, evidence : Nat]
        /\ a.count = b.count /\ a.at = b.at /\ a.evidence = b.evidence + 1
    BY <1>2, <2>2
  <2>7. f.at # 0 /\ now - f.at < Cooldown /\ now - f.suppressed >= Every
    BY <1>11 DEF Cooling, EvidenceDue
  <2>8. \A n \in Nat : (n + 1) * Every = n * Every + Every /\ n * Every \in Nat
    OBVIOUS
  <2>9. /\ a.evidence * Every = b.evidence * Every + Every
        /\ b.evidence * Every \in Nat
    BY <1>2, <2>6, <2>8
  <2> HIDE DEF r, a, b, f
  <2>10. a.evidence * Every <= r.suppressed - r.at /\ a.evidence * Every < Cooldown
    BY <1>1, <1>4, <2>4, <2>5, <2>7, <2>9
  <2>11. a.count > 0 /\ a.at = r.at
    BY <1>3, <2>5, <2>6, <2>7
  <2> QED BY <1>1, <1>2, <2>3, <2>4, <2>5, <2>6, <2>7, <2>10, <2>11 DEF o, r, a, f
<1>12. CASE k \in DOMAIN frame /\ Fires(o, now) /\ Cooling(f, now) /\ ~ EvidenceDue(f, now)
  <2>1. r = f /\ a = b /\ o.last = now
    BY <1>6, <1>7, <1>12 DEF Recorded, Fire, Outcome, o
  <2>2. f.at # 0 /\ now - f.at < Cooldown
    BY <1>12 DEF Cooling
  <2> QED BY <1>2, <1>3, <1>4, <2>1, <2>2 DEF o
<1> QED BY <1>8, <1>9, <1>10, <1>11, <1>12

(* What the pruning at the end of the frame leaves of them.                  *)
LEMMA PrunedFacts ==
  ASSUME AlertInv, NEW stream \in Streams, NEW frame \in Frames(stream),
         NEW now \in Stamps, NEW k \in Tracks, Update(frame, now)
  PROVE  /\ \/ track'[k] = Observed(k, frame, now) /\ (PruneDue(now) => now - track'[k].last <= Stale)
            \/ track'[k] = NoTrack
         /\ \/ fired'[k] = Recorded(k, frame, now) /\ (PruneDue(now) => now - fired'[k].at < Cooldown)
            \/ fired'[k] = NoRecord /\ now - Recorded(k, frame, now).at >= Cooldown
<1> DEFINE o == Observed(k, frame, now)
           r == Recorded(k, frame, now)
<1>1. /\ track'[k] = IF PruneDue(now) THEN PruneTrack(o, now) ELSE o
      /\ fired'[k] = IF PruneDue(now) THEN PruneRecord(r, now) ELSE r
  BY DEF Update
<1>2. now \in Nat /\ o.last \in Nat /\ r.at \in Nat
  <2>1. now \in Nat
    BY StampType DEF AlertInv
  <2>2. o \in States /\ r \in Records
    BY ObservedFacts, RecordedFacts
  <2> QED BY <2>1, <2>2, AlertAssumption DEF States, Records
<1> HIDE DEF o, r
<1>3. \/ track'[k] = o /\ (PruneDue(now) => now - o.last <= Stale)
      \/ track'[k] = NoTrack
  BY <1>1, <1>2, AlertAssumption DEF PruneTrack
<1>4. \/ fired'[k] = r /\ (PruneDue(now) => now - r.at < Cooldown)
      \/ fired'[k] = NoRecord /\ now - r.at >= Cooldown
  BY <1>1, <1>2, AlertAssumption DEF PruneRecord
<1> QED BY <1>3, <1>4 DEF o, r

LEMMA UpdateStep ==
  ASSUME AlertInv, NEW stream \in Streams, NEW frame \in Frames(stream),
         NEW now \in Stamps, Update(frame, now)
  PROVE  AlertInv'
<1> USE AlertAssumption
<1>1. /\ now \in 1 .. MaxTime /\ now <= clock /\ clock - now <= MaxAge
      /\ clock \in 1 .. MaxTime
  BY StampType DEF AlertInv, TypeOK
<1>2. /\ clock' = clock /\ lastNow' = now
      /\ lastPrune' = IF PruneDue(now) THEN now ELSE lastPrune
  BY DEF Update
<1>3. lastPrune \in 0 .. clock
  BY DEF AlertInv, TypeOK
<1>4. NoTrack \in States /\ NoRecord \in Records
  BY DEF NoTrack, NoRecord, States, Records
<1>5. TypeOK'
  <2>1. ASSUME NEW k \in Tracks
        PROVE  /\ track'[k] \in States /\ fired'[k] \in Records
               /\ calm'[k] \in 0 .. MaxTime
               /\ alerts'[k] \in [count : Nat, at : 0 .. MaxTime, evidence : Nat]
    <3>1. track'[k] \in States
      BY <1>4, ObservedFacts, PrunedFacts
    <3>2. fired'[k] \in Records
      BY <1>4, RecordedFacts, PrunedFacts
    <3>3. calm'[k] \in 0 .. clock
      BY ObservedFacts
    <3>4. alerts'[k] \in [count : Nat, at : 0 .. MaxTime, evidence : Nat]
      BY RecordedFacts
    <3> QED BY <1>1, <3>1, <3>2, <3>3, <3>4
  <2>2. /\ \E d : track' = [k \in Tracks |-> d[k]]
        /\ \E d : fired' = [k \in Tracks |-> d[k]]
        /\ \E d : calm' = [k \in Tracks |-> d[k]]
        /\ \E d : alerts' = [k \in Tracks |-> d[k]]
    <3>1. /\ track' = [k \in Tracks |-> track'[k]]
          /\ fired' = [k \in Tracks |-> fired'[k]]
          /\ calm' = [k \in Tracks |-> calm'[k]]
          /\ alerts' = [k \in Tracks |-> alerts'[k]]
      BY DEF Update
    <3> QED BY <3>1
  <2>3. /\ track' \in [Tracks -> States] /\ fired' \in [Tracks -> Records]
        /\ calm' \in [Tracks -> 0 .. MaxTime]
        /\ alerts' \in [Tracks -> [count : Nat, at : 0 .. MaxTime, evidence : Nat]]
    BY <2>1, <2>2
  <2>4. clock' \in 1 .. MaxTime /\ lastPrune' \in 0 .. clock' /\ lastNow' \in 0 .. clock'
    BY <1>1, <1>2, <1>3
  <2> QED BY <2>3, <2>4 DEF TypeOK
<1>6. PastInv'
  <2> SUFFICES ASSUME NEW k \in Tracks
               PROVE  /\ track'[k].last <= clock /\ fired'[k].at <= clock
                      /\ calm'[k] <= clock /\ alerts'[k].at <= clock
    BY <1>2 DEF PastInv
  <2>1. track[k].last <= clock
    BY DEF AlertInv, PastInv
  <2>2. Observed(k, frame, now).last <= clock
    BY <1>1, <2>1, ObservedFacts
  <2>3. track'[k].last <= clock
    BY <1>1, <2>2, PrunedFacts DEF NoTrack
  <2>4. fired'[k].at <= clock
    BY <1>1, RecordedFacts, PrunedFacts DEF NoRecord
  <2> QED BY <1>1, <2>3, <2>4, ObservedFacts, RecordedFacts
<1>7. RecordInv' /\ EvidenceInv' /\ EvidenceBounded'
  <2> SUFFICES ASSUME NEW k \in Tracks
               PROVE  /\ fired'[k].at # 0 =>
                           /\ alerts'[k].count > 0 /\ alerts'[k].at = fired'[k].at
                           /\ alerts'[k].evidence * Every <= fired'[k].suppressed - fired'[k].at
                      /\ fired'[k].at = 0 /\ alerts'[k].count > 0 =>
                           clock - alerts'[k].at >= Cooldown
                      /\ alerts'[k].evidence > 0 => alerts'[k].evidence * Every < Cooldown
    BY <1>2 DEF RecordInv, EvidenceInv, EvidenceBounded
  <2> DEFINE r == Recorded(k, frame, now)
             a == alerts'[k]
  <2>1. /\ r \in Records
        /\ a \in [count : Nat, at : 0 .. MaxTime, evidence : Nat]
        /\ r.at # 0 => /\ a.count > 0 /\ a.at = r.at
                       /\ a.evidence * Every <= r.suppressed - r.at
        /\ r.at = 0 /\ a.count > 0 => clock - a.at >= Cooldown
        /\ a.evidence > 0 => a.evidence * Every < Cooldown
    BY RecordedFacts
  <2> HIDE DEF r, a
  <2>2. CASE fired'[k] = r
    BY <2>1, <2>2 DEF a
  <2>3. CASE fired'[k] = NoRecord /\ now - r.at >= Cooldown
    <3>1. fired'[k].at = 0
      BY <2>3 DEF NoRecord
    <3>2. r.at \in Nat /\ a.at \in Nat
      BY <2>1 DEF Records
    <3>3. a.count > 0 => clock - a.at >= Cooldown
      BY <1>1, <2>1, <2>3, <3>2
    <3> QED BY <2>1, <3>1, <3>3 DEF a
  <2> QED BY <2>2, <2>3, PrunedFacts DEF r
<1>8. CalmInv'
  <2> SUFFICES ASSUME NEW k \in Tracks
               PROVE  /\ track'[k].raised =>
                           calm'[k] > 0 /\ track'[k].since >= calm'[k] - MaxAge
                      /\ ~ track'[k].raised /\ track'[k].ewma # 0 => calm'[k] > 0
    BY DEF CalmInv
  <2>1. CASE track'[k] = NoTrack
    BY <2>1 DEF NoTrack
  <2>2. CASE track'[k] = Observed(k, frame, now)
    BY <2>2, ObservedFacts
  <2> QED BY <2>1, <2>2, PrunedFacts
<1>9. PruneInv'
  <2>1. lastNow' - lastPrune' <= PruneEvery
    BY <1>1, <1>2, <1>3 DEF PruneDue
  <2> SUFFICES ASSUME NEW k \in Tracks
               PROVE  /\ track'[k].last # 0 => track'[k].last >= lastPrune' - Stale
                      /\ fired'[k].at # 0 => fired'[k].at >= lastPrune' - Cooldown - MaxAge
    BY <2>1 DEF PruneInv
  <2>2. /\ track[k].last # 0 => track[k].last >= lastPrune - Stale
        /\ fired[k].at # 0 => fired[k].at >= lastPrune - Cooldown - MaxAge
    BY DEF AlertInv, PruneInv
  <2>3. /\ track[k].last \in Nat /\ fired[k].at \in Nat
        /\ track'[k].last \in Nat /\ fired'[k].at \in Nat
    BY <1>5 DEF AlertInv, TypeOK, States, Records
  <2>4. track'[k].last # 0 /\ ~ PruneDue(now) =>
          track'[k].last = now \/ track'[k].last = track[k].last
    BY ObservedFacts, PrunedFacts DEF NoTrack
  <2>5. fired'[k].at # 0 /\ ~ PruneDue(now) =>
          fired'[k].at = now \/ fired'[k].at = fired[k].at
    BY RecordedFacts, PrunedFacts DEF NoRecord
  <2>6. PruneDue(now) => /\ track'[k].last # 0 => now - track'[k].last <= Stale
                         /\ fired'[k].at # 0 => now - fired'[k].at < Cooldown
    BY PrunedFacts DEF NoTrack, NoRecord
  <2>7. CASE PruneDue(now)
    BY <1>1, <1>2, <2>3, <2>6, <2>7
  <2>8. CASE ~ PruneDue(now)
    BY <1>1, <1>2, <1>3, <2>2, <2>3, <2>4, <2>5, <2>8
  <2> QED BY <2>7, <2>8
<1>10. NoMissedAlert'
  <2> SUFFICES ASSUME NEW k \in Tracks, Fires(track'[k], track'[k].last)
               PROVE  alerts'[k].count > 0 /\ track'[k].last - alerts'[k].at < Cooldown
    BY DEF NoMissedAlert, Fires
  <2>1. track'[k] = Observed(k, frame, now)
    BY PrunedFacts DEF Fires, NoTrack
  <2> QED BY <2>1, RecordedFacts
<1> QED BY <1>5, <1>6, <1>7, <1>8, <1>9, <1>10 DEF AlertInv

LEMMA AlertInvInductive == AlertInv /\ [Next]_vars => AlertInv'
<1> SUFFICES ASSUME AlertInv, [Next]_vars PROVE AlertInv'
  OBVIOUS
<1>1. CASE Tick
  BY <1>1, TickStep
<1>2. ASSUME NEW stream \in Streams, NEW frame \in Frames(stream), NEW now \in Stamps,
             Update(frame, now)
      PROVE  AlertInv'
  BY <1>2, UpdateStep
<1>3. CASE UNCHANGED vars
  BY <1>3 DEF vars, engine, history, AlertInv, TypeOK, PastInv, RecordInv, CalmInv,
              EvidenceInv, PruneInv, EvidenceBounded, NoMissedAlert, Fires
<1> QED BY <1>1, <1>2, <1>3 DEF Next

LEMMA AlertInvHolds == Spec => []AlertInv
BY InitAlert, AlertInvInductive, PTL DEF Spec
-----------------------------------------------------------------------------
(* Type correctness of the suspicion state and of the alert records.         *)
THEOREM TypeCorrect == Spec => []TypeOK
<1>1. AlertInv => TypeOK
  BY DEF AlertInv
<1> QED BY <1>1, AlertInvHolds, PTL

(* However many frames fall into the cooldown of an alert, and in whatever   *)
(* order their stamps come, the pieces of evidence saved for it times their  *)
(* period stay below the cooldown.                                           *)
THEOREM EvidenceBoundedHolds == Spec => []EvidenceBounded
<1>1. AlertInv => EvidenceBounded
  BY DEF AlertInv
<1> QED BY <1>1, AlertInvHolds, PTL

(* A track whose suspicion has stayed raised for the sustain window when it  *)
(* was last seen had an alert less than a cooldown before.                   *)
THEOREM NoMissedAlertHolds == Spec => []NoMissedAlert
<1>1. AlertInv => NoMissedAlert
  BY DEF AlertInv
<1> QED BY <1>1, AlertInvHolds, PTL

(* Pruning bounds the age of every track and of every alert record.          *)
THEOREM ForgottenHolds == Spec => []Forgotten
<1>1. AlertInv => Forgotten
  <2> SUFFICES ASSUME AlertInv, NEW k \in Tracks
               PROVE  /\ track[k].last # 0 => lastNow - track[k].last <= Stale + PruneEvery
                      /\ fired[k].at # 0 =>
                           lastNow - fired[k].at <= Cooldown + PruneEvery + MaxAge
    BY DEF Forgotten
  <2>1. /\ lastNow \in Nat /\ lastPrune \in Nat
        /\ track[k] \in States /\ fired[k] \in Records
    BY AlertAssumption DEF AlertInv, TypeOK
  <2>2. track[k].last \in Nat /\ fired[k].at \in Nat
    BY <2>1, AlertAssumption DEF States, Records
  <2>3. /\ lastNow - lastPrune <= PruneEvery
        /\ track[k].last # 0 => track[k].last >= lastPrune - Stale
        /\ fired[k].at # 0 => fired[k].at >= lastPrune - Cooldown - MaxAge
    BY DEF AlertInv, PruneInv
  <2> QED BY <2>1, <2>2, <2>3, AlertAssumption
<1> QED BY <1>1, AlertInvHolds, PTL

(* A step that alerts is the update of a frame that shows the track, when    *)
(* the rule fires and no cooldown is running.                                *)
LEMMA AlertStep ==
  ASSUME AlertInv, [Next]_vars, NEW k \in Tracks, alerts'[k].count # alerts[k].count
  PROVE  \E stream \in Streams : \E frame \in Frames(stream), now \in Stamps :
           /\ Update(frame, now) /\ k \in DOMAIN frame
           /\ Fires(Observed(k, frame, now), now) /\ ~ Cooling(fired[k], now)
           /\ alerts'[k].at = now
<1>0. alerts' # alerts
  OBVIOUS
<1> PICK stream \in Streams : \E frame \in Frames(stream), now \in Stamps : Update(frame, now)
  BY <1>0 DEF Next, Tick, vars, history
<1>1. PICK frame \in Frames(stream), now \in Stamps : Update(frame, now)
  OBVIOUS
<1>2. alerts'[k] = IF k \in DOMAIN frame THEN Outcome(k, Observed(k, frame, now), now)
                                          ELSE alerts[k]
  BY <1>1 DEF Update
<1>3. k \in DOMAIN frame /\ Outcome(k, Observed(k, frame, now), now).count # alerts[k].count
  BY <1>2
<1>4. alerts[k] \in [count : Nat, at : 0 .. MaxTime, evidence : Nat]
  BY DEF AlertInv, TypeOK
<1>5. [alerts[k] EXCEPT !.evidence = @ + 1].count = alerts[k].count
  BY <1>4
<1>6. Fires(Observed(k, frame, now), now) /\ ~ Cooling(fired[k], now)
  BY <1>3, <1>5 DEF Outcome
<1>7. alerts'[k].at = now
  BY <1>2, <1>3, <1>6 DEF Outcome
<1> QED BY <1>1, <1>3, <1>6, <1>7

(* Two alerts for one track are a cooldown apart but for the age of a frame, *)
(* whatever the order of the frames and the streams that share the engine.   *)
THEOREM CooldownKeptHolds == Spec => CooldownKept
<1> DEFINE Apart == \A k \in Tracks :
             alerts'[k].count # alerts[k].count /\ alerts[k].count > 0 =>
               alerts'[k].at - alerts[k].at >= Cooldown - MaxAge
<1>1. AlertInv /\ [Next]_vars => [Apart]_vars
  <2> SUFFICES ASSUME AlertInv, [Next]_vars, NEW k \in Tracks,
                      alerts'[k].count # alerts[k].count, alerts[k].count > 0
               PROVE  alerts'[k].at - alerts[k].at >= Cooldown - MaxAge
    OBVIOUS
  <2>1. PICK now \in Stamps : ~ Cooling(fired[k], now) /\ alerts'[k].at = now
    BY AlertStep
  <2>2. now \in Nat /\ now <= clock /\ clock - now <= MaxAge
    BY StampType DEF AlertInv
  <2>3. /\ alerts[k].at \in Nat /\ fired[k].at \in Nat /\ clock \in Nat
    BY AlertAssumption DEF AlertInv, TypeOK, Records
  <2>4. /\ fired[k].at # 0 => alerts[k].at = fired[k].at
        /\ fired[k].at = 0 => clock - alerts[k].at >= Cooldown
    BY DEF AlertInv, RecordInv
  <2>5. fired[k].at = 0 \/ now - fired[k].at >= Cooldown
    BY <2>1, <2>2, <2>3, AlertAssumption DEF Cooling
  <2> QED BY <2>1, <2>2, <2>3, <2>4, <2>5, AlertAssumption
<1> QED BY <1>1, AlertInvHolds, PTL DEF Spec, CooldownKept

(* When an alert fires, the last observation that left the track calm is a   *)
(* sustain window old but for the age of a frame.                            *)
THEOREM SustainKeptHolds == Spec => SustainKept
<1> DEFINE Sustained == \A k \in Tracks :
             alerts'[k].count # alerts[k].count =>
               /\ calm[k] > 0
               /\ alerts'[k].at - calm[k] >= Sustain - MaxAge
<1>1. AlertInv /\ [Next]_vars => [Sustained]_vars
  <2> SUFFICES ASSUME AlertInv, [Next]_vars, NEW k \in Tracks,
                      alerts'[k].count # alerts[k].count
               PROVE  calm[k] > 0 /\ alerts'[k].at - calm[k] >= Sustain - MaxAge
    OBVIOUS
  <2> PICK stream \in Streams : \E frame \in Frames(stream), now \in Stamps :
          /\ Update(frame, now) /\ k \in DOMAIN frame
          /\ Fires(Observed(k, frame, now), now) /\ alerts'[k].at = now
    BY AlertStep
  <2>1. PICK frame \in Frames(stream), now \in Stamps :
          /\ Update(frame, now) /\ k \in DOMAIN frame
          /\ Fires(Observed(k, frame, now), now) /\ alerts'[k].at = now
    OBVIOUS
  <2>2. now \in Nat
    BY StampType DEF AlertInv
  <2>3. /\ Observed(k, frame, now) \in States
        /\ Observed(k, frame, now).raised =>
             calm[k] > 0 /\ Observed(k, frame, now).since >= calm[k] - MaxAge
    BY <2>1, ObservedFacts
  <2>4. Observed(k, frame, now).raised /\ now - Observed(k, frame, now).since >= Sustain
    BY <2>1 DEF Fires
  <2>5. Observed(k, frame, now).since \in Nat /\ calm[k] \in Nat
    BY <2>3, AlertAssumption DEF States, AlertInv, TypeOK
  <2> QED BY <2>1, <2>2, <2>3, <2>4, <2>5, AlertAssumption
<1> QED BY <1>1, AlertInvHolds, PTL DEF Spec, SustainKept

(* An alert comes neither too soon after the one before nor too soon after   *)
(* the track was calm.                                                       *)
THEOREM OnTimeHolds == Spec => OnTime
BY CooldownKeptHolds, SustainKeptHolds DEF OnTime
=============================================================================
