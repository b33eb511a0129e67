--------------------------- MODULE Tracking_proofs ---------------------------
(***************************************************************************)
(* Proofs about the tracking service: the lists of its tracker             *)
(* (TrackLists), for any number of detections, frames and ids, any         *)
(* matchings, and any age at which lost tracks are removed; and the feed   *)
(* it publishes to the display (DetectionFeed), for any number of          *)
(* handlers, workers, slots, frames, restarts and faults.                  *)
(***************************************************************************)
EXTENDS TrackLists, DetectionFeed, FiniteSetTheorems, SequenceTheorems, TLAPS

(* What the lists know of tracks that left them: an id that was not given    *)
(* away is new, only live tracks are lost, and a track that has aged out is  *)
(* among the removed ones, which is why it leaves the lost list next time.   *)
MemoryInv ==
  /\ \A t \in TrackId : t > next => tracks[t].state = "New"
  /\ \A t \in lost : tracks[t].live
  /\ \A t \in lost : tracks[t].state = "Removed" => t \in Range(removed)
  /\ Range(removed) \subseteq gone

ListInv == TypeOK /\ OneIdEach /\ OneList /\ Remembered /\ MemoryInv

(* What the associations of a frame come to: the tracks that got a           *)
(* detection, each one of its own, and those the second association missed.  *)
Associated(ds, match, missed) ==
  /\ ds \subseteq Dets /\ shown' = ds
  /\ next' \in next .. MaxTracks
  /\ DOMAIN match \subseteq tracked \union lost \union (next + 1 .. next')
  /\ next + 1 .. next' \subseteq DOMAIN match
  /\ \A t \in DOMAIN match : match[t] \in ds
  /\ \A t, u \in DOMAIN match : match[t] = match[u] => t = u
  /\ missed \subseteq (tracked \ Unconfirmed) \ DOMAIN match
  /\ tracked \subseteq Unconfirmed \union missed \union DOMAIN match
-----------------------------------------------------------------------------
LEMMA InitLists == Init => ListInv
<1> SUFFICES ASSUME Init PROVE ListInv
  OBVIOUS
<1> USE TrackAssumption DEF Init, NewTrack
<1>1. TypeOK
  BY DEF TypeOK, TrackId
<1>2. Range(removed) = {}
  BY DEF Range
<1>3. OneIdEach /\ OneList /\ Remembered /\ MemoryInv
  BY <1>2 DEF OneIdEach, OneList, Remembered, MemoryInv, Online
<1> QED BY <1>1, <1>3 DEF ListInv

(* A matching gives each of its tracks a detection of its own.               *)
LEMMA MatchingFacts ==
  ASSUME NEW ts, NEW ds, NEW m \in Matchings(ts, ds)
  PROVE  /\ m \in [DOMAIN m -> ds]
         /\ DOMAIN m \subseteq ts
         /\ \A t, u \in DOMAIN m : m[t] = m[u] => t = u
BY DEF Matchings, Injection, IsInjective

(* The new tracks are the next ids, each with one of the detections left.    *)
LEMMA BirthFacts ==
  ASSUME TypeOK, NEW S, NEW born \in Births(S), Cardinality(S) \in Nat
  PROVE  /\ born \in [next + 1 .. next + Cardinality(S) -> S]
         /\ \A t, u \in DOMAIN born : born[t] = born[u] => t = u
BY DEF Births, Bijection, Injection, IsInjective

(* The detections of a frame that are left for new tracks can be counted.    *)
LEMMA CountDets == ASSUME NEW S, S \subseteq Dets PROVE Cardinality(S) \in Nat
BY TrackAssumption, FS_Subset, FS_CardinalityType

(* Frame is the associations and then the merge.                             *)
LEMMA FrameAssociates ==
  ASSUME ListInv, Frame
  PROVE  \E ds, match, missed : Associated(ds, match, missed) /\ Merge(match, missed)
<1> USE DEF ListInv
<1>0. PICK ds \in SUBSET Dets : \E grade \in [ds -> Grades] :
        LET high   == {d \in ds : grade[d] # "low"}
            strong == {d \in ds : grade[d] = "strong"}
        IN \E m1 \in Matchings(Pool, high) :
           \E m2 \in Matchings(Coasting(m1), ds \ high) :
           \E m3 \in Matchings(Unconfirmed, Left(high, m1)) :
             LET new == Left(Left(strong, m1), m3) IN
             \E born \in Births(new) :
               /\ next + Cardinality(new) <= MaxTracks
               /\ next' = next + Cardinality(new)
               /\ Merge(And(And(m1, m2), And(m3, born)), Coasting(m1) \ DOMAIN m2)
               /\ shown' = ds
  BY DEF Frame
<1>1. PICK grade \in [ds -> Grades] :
        LET high   == {d \in ds : grade[d] # "low"}
            strong == {d \in ds : grade[d] = "strong"}
        IN \E m1 \in Matchings(Pool, high) :
           \E m2 \in Matchings(Coasting(m1), ds \ high) :
           \E m3 \in Matchings(Unconfirmed, Left(high, m1)) :
             LET new == Left(Left(strong, m1), m3) IN
             \E born \in Births(new) :
               /\ next + Cardinality(new) <= MaxTracks
               /\ next' = next + Cardinality(new)
               /\ Merge(And(And(m1, m2), And(m3, born)), Coasting(m1) \ DOMAIN m2)
               /\ shown' = ds
  BY <1>0
<1> DEFINE high   == {d \in ds : grade[d] # "low"}
           strong == {d \in ds : grade[d] = "strong"}
<1>2. PICK m1, m2, m3, born :
        /\ m1 \in Matchings(Pool, high)
        /\ m2 \in Matchings(Coasting(m1), ds \ high)
        /\ m3 \in Matchings(Unconfirmed, Left(high, m1))
        /\ born \in Births(Left(Left(strong, m1), m3))
        /\ next + Cardinality(Left(Left(strong, m1), m3)) <= MaxTracks
        /\ next' = next + Cardinality(Left(Left(strong, m1), m3))
        /\ Merge(And(And(m1, m2), And(m3, born)), Coasting(m1) \ DOMAIN m2)
        /\ shown' = ds
  BY <1>1
<1> DEFINE new    == Left(Left(strong, m1), m3)
           match  == And(And(m1, m2), And(m3, born))
           missed == Coasting(m1) \ DOMAIN m2
<1>3. new \subseteq high /\ new \intersect Range(m1) = {} /\ new \intersect Range(m3) = {}
  BY DEF Left
<1>4. Cardinality(new) \in Nat
  BY <1>3, CountDets
<1>5. /\ m1 \in [DOMAIN m1 -> high] /\ DOMAIN m1 \subseteq Pool
      /\ \A t, u \in DOMAIN m1 : m1[t] = m1[u] => t = u
  BY <1>2, MatchingFacts
<1>6. /\ m2 \in [DOMAIN m2 -> ds \ high] /\ DOMAIN m2 \subseteq Coasting(m1)
      /\ \A t, u \in DOMAIN m2 : m2[t] = m2[u] => t = u
  BY <1>2, MatchingFacts
<1>7. /\ m3 \in [DOMAIN m3 -> Left(high, m1)] /\ DOMAIN m3 \subseteq Unconfirmed
      /\ \A t, u \in DOMAIN m3 : m3[t] = m3[u] => t = u
  BY <1>2, MatchingFacts
<1>8. /\ born \in [next + 1 .. next' -> new]
      /\ \A t, u \in DOMAIN born : born[t] = born[u] => t = u
  BY <1>2, <1>4, BirthFacts
<1>9. /\ DOMAIN match = DOMAIN m1 \union DOMAIN m2 \union DOMAIN m3 \union DOMAIN born
      /\ \A t \in DOMAIN match :
           match[t] = IF t \in DOMAIN m1 THEN m1[t] ELSE IF t \in DOMAIN m2 THEN m2[t]
                      ELSE IF t \in DOMAIN m3 THEN m3[t] ELSE born[t]
  BY DEF And
<1> HIDE DEF match
(* The four groups of tracks are apart, and so are their detections.         *)
<1>10. \A t \in DOMAIN match :
         \/ t \in DOMAIN m1 /\ match[t] = m1[t] /\ match[t] \in high \intersect Range(m1)
         \/ t \in DOMAIN m2 /\ match[t] = m2[t] /\ match[t] \in ds \ high
         \/ /\ t \in DOMAIN m3 /\ match[t] = m3[t]
            /\ match[t] \in (high \ Range(m1)) \intersect Range(m3)
         \/ /\ t \in DOMAIN born /\ match[t] = born[t]
            /\ match[t] \in high \ (Range(m1) \union Range(m3))
  <2>1. DOMAIN m1 \intersect DOMAIN m2 = {}
    BY <1>6 DEF Coasting
  <2>2. \A t \in DOMAIN m1 : m1[t] \in high \intersect Range(m1)
    BY <1>5 DEF Range
  <2>3. \A t \in DOMAIN m3 : m3[t] \in (high \ Range(m1)) \intersect Range(m3)
    BY <1>7 DEF Range, Left
  <2>4. \A t \in DOMAIN born : born[t] \in high \ (Range(m1) \union Range(m3))
    BY <1>3, <1>8
  <2> QED BY <2>1, <2>2, <2>3, <2>4, <1>6, <1>9
<1>11. \A t \in DOMAIN match : match[t] \in ds
  BY <1>10
<1>12. \A t, u \in DOMAIN match : match[t] = match[u] => t = u
  <2> SUFFICES ASSUME NEW t \in DOMAIN match, NEW u \in DOMAIN match, match[t] = match[u]
               PROVE  t = u
    OBVIOUS
  <2>1. CASE match[t] \in ds \ high
    BY <2>1, <1>6, <1>10
  <2>2. CASE match[t] \in high /\ match[t] \in Range(m1)
    BY <2>2, <1>5, <1>10
  <2>3. CASE match[t] \in high \ Range(m1) /\ match[t] \in Range(m3)
    BY <2>3, <1>7, <1>10
  <2>4. CASE match[t] \in high \ (Range(m1) \union Range(m3))
    BY <2>4, <1>8, <1>10
  <2> QED BY <2>1, <2>2, <2>3, <2>4, <1>11
<1>13. Coasting(m1) \subseteq (tracked \ Unconfirmed) \ DOMAIN m1
  BY DEF Coasting, Pool, OneList
<1>14. missed \subseteq (tracked \ Unconfirmed) \ DOMAIN match
  <2>1. \A t \in tracked : t \notin DOMAIN born
    BY <1>8, TrackAssumption DEF TypeOK
  <2> QED BY <2>1, <1>7, <1>9, <1>13
<1>15. tracked \subseteq Unconfirmed \union missed \union DOMAIN match
  BY <1>9 DEF Coasting, Pool, OneList
<1>16. next' \in next .. MaxTracks
  BY <1>2, <1>4, TrackAssumption DEF TypeOK
<1>17. DOMAIN match \subseteq tracked \union lost \union (next + 1 .. next')
  BY <1>5, <1>7, <1>8, <1>9, <1>13, <1>6 DEF Pool, Unconfirmed
<1>18. next + 1 .. next' \subseteq DOMAIN match
  BY <1>8, <1>9
<1>19. Merge(match, missed)
  BY <1>2 DEF match
<1> HIDE DEF missed
<1>20. Associated(ds, match, missed)
  BY <1>2, <1>11, <1>12, <1>14, <1>15, <1>16, <1>17, <1>18 DEF Associated
<1> QED BY <1>19, <1>20

(* What is appended to the removed tracks is a list of them that fits into   *)
(* the memory.                                                               *)
LEMMA OrderFacts ==
  ASSUME next \in 0 .. MaxTracks, NEW out, out \subseteq 1 .. next, NEW order \in Orders(out)
  PROVE  order \in Seq(out) /\ Len(order) <= Keep /\ Range(order) = out
<1>1. Cardinality(out) \in Nat /\ Cardinality(out) <= next
  <2>1. next \in Nat
    BY TrackAssumption
  <2>2. IsFiniteSet(1 .. next) /\ Cardinality(1 .. next) = next
    BY <2>1, FS_Interval
  <2>3. IsFiniteSet(out) /\ Cardinality(out) <= next
    BY <2>2, FS_Subset
  <2> QED BY <2>3, FS_CardinalityType
<1>2. /\ order \in [1 .. Cardinality(out) -> out]
      /\ \A t \in out : \E i \in 1 .. Cardinality(out) : order[i] = t
  BY DEF Orders, Bijection, Surjection, IsInjective
<1>3. order \in Seq(out) /\ Len(order) = Cardinality(out)
  BY <1>1, <1>2
<1>4. Len(order) <= Keep
  BY <1>1, <1>3, TrackAssumption
<1>5. Range(order) = out
  BY <1>2 DEF Range
<1> QED BY <1>3, <1>4, <1>5

(* Cutting the memory keeps what was appended last.                          *)
LEMMA NewestFacts ==
  ASSUME NEW S, NEW s \in Seq(S), NEW o \in Seq(S), Len(o) <= Keep
  PROVE  /\ Newest(s \o o) \in Seq(S)
         /\ Len(Newest(s \o o)) <= Keep
         /\ Range(o) \subseteq Range(Newest(s \o o))
         /\ Range(Newest(s \o o)) \subseteq Range(s) \union Range(o)
<1> DEFINE c == s \o o
           k == Len(c) - Keep
<1>1. /\ c \in Seq(S) /\ Len(c) = Len(s) + Len(o)
      /\ \A i \in 1 .. Len(c) : c[i] = IF i <= Len(s) THEN s[i] ELSE o[i - Len(s)]
  BY ConcatProperties
<1>2. Range(c) = Range(s) \union Range(o)
  <2>1. \A i \in 1 .. Len(s) : i \in 1 .. Len(c) /\ c[i] = s[i]
    BY <1>1
  <2>2. \A i \in 1 .. Len(o) : Len(s) + i \in 1 .. Len(c) /\ c[Len(s) + i] = o[i]
    BY <1>1
  <2>3. \A i \in 1 .. Len(c) : i \notin 1 .. Len(s) => i - Len(s) \in 1 .. Len(o)
    BY <1>1
  <2> HIDE DEF c
  <2>4. ASSUME NEW x \in Range(c) PROVE x \in Range(s) \union Range(o)
    <3>1. PICK i \in 1 .. Len(c) : x = c[i]
      BY <1>1, RangeEquality
    <3>2. CASE i <= Len(s)
      BY <1>1, <3>1, <3>2, RangeEquality
    <3>3. CASE ~ (i <= Len(s))
      <4>1. i \notin 1 .. Len(s)
        BY <3>3
      <4>2. i - Len(s) \in 1 .. Len(o) /\ x = o[i - Len(s)]
        BY <1>1, <2>3, <3>1, <3>3, <4>1
      <4> QED BY <4>2, RangeEquality
    <3> QED BY <3>2, <3>3
  <2>5. \A x : x \in Range(s) => x \in Range(c)
    BY <1>1, <2>1, RangeEquality
  <2>6. \A i \in 1 .. Len(o) : o[i] \in Range(c)
    BY <1>1, <2>2, RangeEquality
  <2>7. \A x : x \in Range(o) => x \in Range(c)
    BY <2>6, RangeEquality
  <2> QED BY <2>4, <2>5, <2>7
<1>3. CASE Len(c) <= Keep
  BY <1>1, <1>2, <1>3, TrackAssumption DEF Newest
<1>4. CASE Len(c) > Keep
  <2> DEFINE n == Newest(c)
  <2>1. n = SubSeq(c, k + 1, Len(c))
    BY <1>1, <1>4, TrackAssumption DEF Newest
  <2>2. k \in Nat /\ k <= Len(s) /\ Len(c) - k = Keep
    BY <1>1, <1>4, TrackAssumption
  <2>3. /\ n \in Seq(S) /\ Len(n) = Keep
        /\ \A i \in 1 .. Keep : n[i] = c[k + i]
    <3>1. \A i \in k + 1 .. Len(c) : c[i] \in S
      BY <1>1, <2>2
    <3> HIDE DEF c, k, n
    <3>2. /\ n \in Seq(S)
          /\ Len(n) = IF k + 1 <= Len(c) THEN Len(c) - (k + 1) + 1 ELSE 0
          /\ \A i \in 1 .. Len(c) - (k + 1) + 1 : n[i] = c[k + 1 + i - 1]
      BY <1>1, <2>1, <2>2, <3>1, SubSeqProperties
    <3> QED BY <1>1, <2>2, <3>2, TrackAssumption
  <2> HIDE DEF n, c, k
  <2>4. Range(n) \subseteq Range(c)
    <3>1. \A i \in 1 .. Keep : k + i \in 1 .. Len(c)
      BY <1>1, <2>2, TrackAssumption
    <3>2. ASSUME NEW x \in Range(n) PROVE x \in Range(c)
      <4>1. PICK i \in 1 .. Keep : x = n[i]
        BY <2>3, RangeEquality
      <4>2. k + i \in 1 .. Len(c) /\ x = c[k + i]
        BY <2>3, <3>1, <4>1
      <4> QED BY <1>1, <4>2, RangeEquality
    <3> QED BY <3>2
  <2>5. \A i \in 1 .. Len(o) : o[i] \in Range(n)
    <3> TAKE i \in 1 .. Len(o)
    <3>1. Len(s) + i - k \in 1 .. Keep
      BY <1>1, <2>2, TrackAssumption
    <3>2. n[Len(s) + i - k] = c[Len(s) + i]
      BY <1>1, <2>2, <2>3, <3>1
    <3>3. c[Len(s) + i] = o[i]
      BY <1>1
    <3> QED BY <2>3, <3>1, <3>2, <3>3, RangeEquality
  <2>6. Range(o) \subseteq Range(n)
    BY <2>5, RangeEquality
  <2> QED BY <1>2, <2>3, <2>4, <2>6, TrackAssumption DEF n, c
<1> QED BY <1>1, <1>3, <1>4, TrackAssumption
-----------------------------------------------------------------------------
(* The merge keeps the invariant, and leaves in the tracked list what was    *)
(* matched in this frame.                                                    *)
LEMMA MergeStep ==
  ASSUME ListInv, frame < MaxFrame, frame' = frame + 1,
         NEW ds, NEW match, NEW missed, Associated(ds, match, missed),
         Merge(match, missed)
  PROVE  /\ ListInv'
         /\ \A t \in tracked' : /\ t \in DOMAIN match /\ t \in TrackId
                               /\ tracks'[t] = Hit(t, match[t], frame')
<1> SUFFICES ASSUME TypeOK, OneIdEach, OneList, Remembered, MemoryInv
             PROVE  /\ ListInv'
                    /\ \A t \in tracked' : /\ t \in DOMAIN match /\ t \in TrackId
                                          /\ tracks'[t] = Hit(t, match[t], frame')
  BY DEF ListInv
<1> DEFINE hits  == DOMAIN match
           out   == (Unconfirmed \ hits) \union Aged(hits, frame')
           now   == Stay(tracks') \union hits
           still == StillLost(now, missed)
<1>1. /\ tracks' = [t \in TrackId |->
            CASE t \in hits   -> Hit(t, match[t], frame')
              [] t \in out    -> [tracks[t] EXCEPT !.state = "Removed"]
              [] t \in missed -> [tracks[t] EXCEPT !.state = "Lost"]
              [] OTHER        -> tracks[t]]
  BY DEF Merge
<1>20. PICK order \in Orders(out) : removed' = Newest(removed \o order)
  BY DEF Merge
<1>21. PICK same \in SUBSET (now \X still) :
        /\ tracked' = now \ DupTracked(tracks', same)
        /\ lost' = still \ DupLost(tracks', same)
        /\ gone' = gone \union out \union (DupTracked(tracks', same)
                                           \union DupLost(tracks', same))
  BY DEF Merge
<1>2. /\ next \in Nat /\ next' \in Nat /\ next <= next' /\ next' <= MaxTracks
      /\ frame \in Nat /\ frame' \in Nat
  BY TrackAssumption DEF TypeOK, Associated
<1>3. /\ tracked \subseteq 1 .. next /\ lost \subseteq 1 .. next
      /\ hits \subseteq 1 .. next' /\ 1 .. next \subseteq 1 .. next'
      /\ 1 .. next' \subseteq TrackId
  <2>1. tracked \subseteq 1 .. next /\ lost \subseteq 1 .. next
    BY DEF TypeOK
  <2>2. /\ 1 .. next \subseteq 1 .. next' /\ next + 1 .. next' \subseteq 1 .. next'
        /\ 1 .. next' \subseteq TrackId
    BY <1>2, TrackAssumption DEF TrackId
  <2> QED BY <2>1, <2>2 DEF Associated
<1>4. out \subseteq 1 .. next /\ missed \subseteq 1 .. next
  BY <1>3 DEF Unconfirmed, Aged, Associated
<1>5. /\ out \intersect hits = {} /\ missed \intersect hits = {}
      /\ missed \intersect out = {}
  BY DEF Unconfirmed, Aged, OneList, Associated
<1>6. \A t \in TrackId :
        /\ t \in hits => tracks'[t] = Hit(t, match[t], frame')
        /\ t \in out => tracks'[t] = [tracks[t] EXCEPT !.state = "Removed"]
        /\ t \in missed => tracks'[t] = [tracks[t] EXCEPT !.state = "Lost"]
        /\ t \notin hits \union out \union missed => tracks'[t] = tracks[t]
  BY <1>1, <1>5
<1>7. \A t \in TrackId :
        tracks[t] \in [state : {"New", "Tracked", "Lost", "Removed"}, live : BOOLEAN,
                       last : Nat, start : Nat, det : Dets \union {0}]
  BY DEF TypeOK
(* The state and the other fields of a track after the frame.                *)
<1>8. \A t \in TrackId :
        /\ t \in hits => /\ tracks'[t].state = "Tracked" /\ tracks'[t].last = frame'
                         /\ tracks'[t].det = match[t]
        /\ t \in out => tracks'[t].state = "Removed"
        /\ t \in missed => tracks'[t].state = "Lost"
        /\ t \notin hits \union out \union missed => tracks'[t].state = tracks[t].state
        /\ t \notin hits => tracks'[t].last = tracks[t].last /\ tracks'[t].live = tracks[t].live
  <2> HIDE DEF hits, out
  <2> TAKE t \in TrackId
  <2>1. CASE t \in hits
    <3>1. tracks'[t] = Hit(t, match[t], frame') /\ t \notin out /\ t \notin missed
      BY <2>1, <1>5, <1>6
    <3> QED BY <2>1, <3>1 DEF Hit
  <2>2. CASE t \in out
    BY <2>2, <1>5, <1>6, <1>7
  <2>3. CASE t \in missed
    BY <2>3, <1>5, <1>6, <1>7
  <2>4. CASE t \notin hits \union out \union missed
    BY <2>4, <1>6
  <2> QED BY <2>1, <2>2, <2>3, <2>4
<1>9. now = hits
  <2>1. \A t \in tracked \ hits : t \in out \union missed
    BY DEF Associated
  <2> QED BY <2>1, <1>3, <1>8 DEF Stay
<1>10. still = ((lost \ hits) \union missed) \ Range(removed)
  BY <1>9 DEF StillLost
<1> HIDE DEF now, still
<1>11. /\ DupTracked(tracks', same) \subseteq hits
       /\ DupLost(tracks', same) \subseteq still
  BY <1>9 DEF DupTracked, DupLost
<1>12. /\ tracked' \subseteq hits /\ lost' \subseteq still
       /\ still \subseteq 1 .. next /\ still \intersect hits = {}
  BY <1>21, <1>3, <1>4, <1>5, <1>9, <1>10
(* The memory of removed tracks.                                             *)
<1>13. /\ removed' \in Seq(1 .. next') /\ Len(removed') <= Keep
       /\ out \subseteq Range(removed')
       /\ Range(removed') \subseteq Range(removed) \union out
  <2>1. order \in Seq(out) /\ Len(order) <= Keep /\ Range(order) = out
    BY <1>4, OrderFacts DEF TypeOK
  <2>2. order \in Seq(1 .. next') /\ removed \in Seq(1 .. next')
    <3>1. out \subseteq 1 .. next' /\ 1 .. next \subseteq 1 .. next'
      BY <1>3, <1>4
    <3>2. removed \in Seq(1 .. next)
      BY DEF TypeOK
    <3> HIDE DEF out
    <3>3. \A S, T : S \subseteq T => Seq(S) \subseteq Seq(T)
      OBVIOUS
    <3> QED BY <2>1, <3>1, <3>2, <3>3
  <2> HIDE DEF out
  <2> QED BY <1>20, <2>1, <2>2, NewestFacts
<1> HIDE DEF out, hits
<1>14. TypeOK'
  <2>1. tracks' \in [TrackId -> [state : {"New", "Tracked", "Lost", "Removed"}, live : BOOLEAN,
                                 last : Nat, start : Nat, det : Dets \union {0}]]
    <3>1. ASSUME NEW t \in TrackId
          PROVE  tracks'[t] \in [state : {"New", "Tracked", "Lost", "Removed"}, live : BOOLEAN,
                                 last : Nat, start : Nat, det : Dets \union {0}]
      <4>1. CASE t \in hits
        <5>1. match[t] \in Dets
          BY <4>1 DEF hits, Associated
        <5>2. tracks'[t] = Hit(t, match[t], frame')
          BY <4>1, <1>6
        <5> QED BY <5>1, <5>2, <1>2, <1>7 DEF Hit
      <4>2. CASE t \notin hits
        <5>1. \/ tracks'[t] = [tracks[t] EXCEPT !.state = "Removed"]
              \/ tracks'[t] = [tracks[t] EXCEPT !.state = "Lost"]
              \/ tracks'[t] = tracks[t]
          BY <4>2, <1>6
        <5> QED BY <5>1, <1>7
      <4> QED BY <4>1, <4>2
    <3>2. DOMAIN tracks' = TrackId /\ tracks' = [t \in TrackId |-> tracks'[t]]
      BY <1>1
    <3> QED BY <3>1, <3>2
  <2>2. tracked' \subseteq 1 .. next' /\ lost' \subseteq 1 .. next' /\ gone' \subseteq 1 .. next'
    BY <1>21, <1>3, <1>4, <1>11, <1>12 DEF TypeOK
  <2>3. frame' \in 0 .. MaxFrame /\ next' \in 0 .. MaxTracks
    BY <1>2, TrackAssumption DEF TypeOK
  <2>4. shown' \subseteq Dets
    BY DEF Associated
  <2> QED BY <2>1, <2>2, <2>3, <2>4, <1>13 DEF TypeOK
<1>15. OneIdEach'
  <2>1. \A t \in tracked' : /\ tracks'[t].last = frame' /\ tracks'[t].det = match[t]
                            /\ match[t] \in shown'
    BY <1>3, <1>8, <1>12 DEF hits, Associated
  <2>2. \A t, u \in tracked' : tracks'[t].det = tracks'[u].det => t = u
    BY <2>1, <1>12 DEF hits, Associated
  <2>3. \A t \in Online' : gTrackId'[tracks'[t].det] = t
    <3> TAKE t \in Online'
    <3>1. t \in tracked' /\ tracks'[t].det \in shown'
      BY <2>1 DEF Online
    <3>2. \A u \in Online' : tracks'[u].det = tracks'[t].det => u = t
      BY <2>2, <3>1 DEF Online
    <3>3. (CHOOSE u \in Online' : tracks'[u].det = tracks'[t].det) = t
      BY <3>2
    <3> QED BY <3>1, <3>3 DEF gTrackId
  <2> QED BY <2>1, <2>2, <2>3 DEF OneIdEach
(* A track in the lost list is either new in it, or was lost before and not  *)
(* yet removed.                                                              *)
<1>16. \A t \in still :
         \/ t \in missed /\ tracks'[t].state = "Lost" /\ tracks[t].last = frame
         \/ /\ t \in lost /\ tracks[t].state = "Lost"
            /\ t \in out /\ tracks'[t].state = "Removed"
         \/ /\ t \in lost /\ tracks[t].state = "Lost"
            /\ frame' - tracks[t].last <= MaxLost /\ tracks'[t].state = "Lost"
  <2> SUFFICES ASSUME NEW t \in still
               PROVE  \/ t \in missed /\ tracks'[t].state = "Lost" /\ tracks[t].last = frame
                      \/ /\ t \in lost /\ tracks[t].state = "Lost"
                         /\ t \in out /\ tracks'[t].state = "Removed"
                      \/ /\ t \in lost /\ tracks[t].state = "Lost"
                         /\ frame' - tracks[t].last <= MaxLost /\ tracks'[t].state = "Lost"
    OBVIOUS
  <2>1. t \in TrackId
    BY <1>3, <1>12
  <2>2. CASE t \in missed
    BY <2>1, <2>2, <1>8 DEF OneIdEach, Associated
  <2>3. CASE t \in lost /\ t \notin missed
    <3>1. t \notin hits /\ tracks[t].state = "Lost"
      BY <2>3, <1>10, <1>12 DEF OneList, MemoryInv
    <3>2. CASE t \in out
      BY <2>1, <2>3, <3>1, <3>2, <1>8
    <3>3. CASE t \notin out
      <4>1. ~ (frame' - tracks[t].last > MaxLost)
        BY <2>3, <3>1, <3>3 DEF out, Aged
      <4>2. frame' - tracks[t].last <= MaxLost
        BY <2>1, <4>1, <1>2, <1>7, TrackAssumption
      <4> QED BY <2>1, <2>3, <3>1, <3>3, <4>2, <1>8
    <3> QED BY <3>2, <3>3
  <2> QED BY <2>2, <2>3, <1>10
<1>17. OneList'
  BY <1>3, <1>8, <1>12, <1>16 DEF OneList
<1>18. Remembered'
  <2>1. ASSUME NEW t \in TrackId, t \notin gone', tracks'[t].state = "Tracked"
        PROVE  t \in tracked'
    <3>1. t \notin gone /\ t \notin out
      BY <2>1, <1>21
    <3>2. CASE t \in hits
      BY <2>1, <3>2, <1>21, <1>9
    <3>3. CASE t \notin hits
      <4>1. t \in tracked
        BY <2>1, <3>1, <3>3, <1>8 DEF Remembered
      <4> QED BY <2>1, <3>1, <3>3, <4>1, <1>8 DEF Associated, out, hits
    <3> QED BY <3>2, <3>3
  <2>2. ASSUME NEW t \in TrackId, t \notin gone', tracks'[t].state = "Lost"
        PROVE  t \in lost'
    <3>1. t \notin gone /\ t \notin Range(removed) /\ t \notin out
      BY <2>2, <1>21 DEF MemoryInv
    <3>2. t \notin hits
      BY <2>2, <1>8
    <3>3. t \in missed \/ t \in lost
      BY <2>2, <3>1, <3>2, <1>8 DEF Remembered
    <3>4. t \in still
      BY <3>1, <3>2, <3>3, <1>10
    <3> QED BY <2>2, <3>4, <1>21
  <2>3. ASSUME NEW t \in lost'
        PROVE  frame' - tracks'[t].last \in
                 1 .. IF tracks'[t].state = "Lost" THEN MaxLost ELSE MaxLost + 1
    <3>1. t \in still /\ t \in TrackId /\ tracks'[t].last = tracks[t].last
      BY <1>3, <1>8, <1>12
    <3>2. tracks[t].last \in Nat
      BY <3>1, <1>7
    <3>3. CASE t \in missed /\ tracks'[t].state = "Lost" /\ tracks[t].last = frame
      BY <3>1, <3>3, <1>2, TrackAssumption
    <3>4. CASE /\ t \in lost /\ tracks[t].state = "Lost"
               /\ t \in out /\ tracks'[t].state = "Removed"
      BY <3>1, <3>2, <3>4, <1>2, TrackAssumption DEF Remembered
    <3>5. CASE /\ t \in lost /\ tracks[t].state = "Lost"
               /\ frame' - tracks[t].last <= MaxLost /\ tracks'[t].state = "Lost"
      BY <3>1, <3>2, <3>5, <1>2, TrackAssumption DEF Remembered
    <3> QED BY <3>1, <3>3, <3>4, <3>5, <1>16
  <2> QED BY <2>1, <2>2, <2>3 DEF Remembered
<1>19. MemoryInv'
  <2>1. \A t \in TrackId : t > next' => tracks'[t].state = "New"
    <3> TAKE t \in TrackId
    <3> HAVE t > next'
    <3>1. t \notin hits \union out \union missed /\ t > next
      BY <1>2, <1>3, <1>4 DEF TrackId
    <3> QED BY <3>1, <1>8 DEF MemoryInv
  <2>2. \A t \in lost' : tracks'[t].live
    <3> TAKE t \in lost'
    <3>1. t \in still /\ t \in TrackId /\ tracks'[t].live = tracks[t].live
      BY <1>3, <1>8, <1>12
    <3>2. tracks[t].live
      BY <3>1, <1>10 DEF MemoryInv, Unconfirmed, Associated
    <3> QED BY <3>1, <3>2
  <2>3. \A t \in lost' : tracks'[t].state = "Removed" => t \in Range(removed')
    BY <1>12, <1>13, <1>16
  <2>4. Range(removed') \subseteq gone'
    BY <1>21, <1>13 DEF MemoryInv
  <2>5. Range(removed)' = Range(removed')
    BY DEF Range
  <2> QED BY <2>1, <2>2, <2>3, <2>4, <2>5 DEF MemoryInv
<1>22. \A t \in tracked' : /\ t \in hits /\ t \in TrackId
                           /\ tracks'[t] = Hit(t, match[t], frame')
  BY <1>3, <1>6, <1>12
<1> QED BY <1>14, <1>15, <1>17, <1>18, <1>19, <1>22 DEF ListInv, hits

(* The tracker of another stream only takes an id that is new.               *)
LEMMA ElsewhereStep == ListInv /\ Elsewhere => ListInv'
<1> SUFFICES ASSUME TypeOK, OneIdEach, OneList, Remembered, MemoryInv, Elsewhere
             PROVE  ListInv'
  BY DEF ListInv
<1>1. next \in Nat /\ next' = next + 1 /\ next' \in 0 .. MaxTracks
  BY TrackAssumption DEF Elsewhere, TypeOK
<1>2. 1 .. next \subseteq 1 .. next'
  BY <1>1
<1>3. removed' \in Seq(1 .. next')
  <2>1. \A S, T : S \subseteq T => Seq(S) \subseteq Seq(T)
    OBVIOUS
  <2> QED BY <1>2, <2>1 DEF Elsewhere, TypeOK
<1>4. TypeOK'
  BY <1>1, <1>2, <1>3 DEF Elsewhere, TypeOK
<1>5. OneIdEach' /\ OneList' /\ Remembered'
  BY DEF Elsewhere, OneIdEach, OneList, Remembered, Online, gTrackId
<1>6. MemoryInv'
  BY <1>1 DEF Elsewhere, MemoryInv, TrackId
<1> QED BY <1>4, <1>5, <1>6 DEF ListInv

LEMMA NextStep == ListInv /\ [Next]_vars => ListInv'
<1> SUFFICES ASSUME ListInv, [Next]_vars PROVE ListInv'
  OBVIOUS
<1>1. CASE Frame
  <2>1. PICK ds, match, missed : Associated(ds, match, missed) /\ Merge(match, missed)
    BY <1>1, FrameAssociates
  <2>2. frame < MaxFrame /\ frame' = frame + 1
    BY <1>1 DEF Frame
  <2> QED BY <2>1, <2>2, MergeStep
<1>2. CASE Elsewhere
  BY <1>2, ElsewhereStep
<1>3. CASE UNCHANGED vars
  BY <1>3 DEF vars, ListInv, TypeOK, OneIdEach, OneList, Remembered, MemoryInv, Online, gTrackId
<1> QED BY <1>1, <1>2, <1>3 DEF Next
-----------------------------------------------------------------------------
THEOREM ListInvHolds == Spec => []ListInv
BY InitLists, NextStep, PTL DEF Spec

(* Every variable of the tracker keeps its type, and the memory of removed   *)
(* tracks its bound.                                                         *)
THEOREM TypeCorrect == Spec => []TypeOK
<1>1. ListInv => TypeOK
  BY DEF ListInv
<1> QED BY <1>1, ListInvHolds, PTL

(* No reported id is on a detection of another frame or of another track.    *)
THEOREM OneIdEachHolds == Spec => []OneIdEach
<1>1. ListInv => OneIdEach
  BY DEF ListInv
<1> QED BY <1>1, ListInvHolds, PTL

(* A track is never tracked and lost at the same time.                       *)
THEOREM OneListHolds == Spec => []OneList
<1>1. ListInv => OneList
  BY DEF ListInv
<1> QED BY <1>1, ListInvHolds, PTL

(* A track out of sight is remembered, and not for longer than it should.    *)
THEOREM RememberedHolds == Spec => []Remembered
<1>1. ListInv => Remembered
  BY DEF ListInv
<1> QED BY <1>1, ListInvHolds, PTL

(* An id that was not born in the first frame is reported only when it was   *)
(* matched in two frames in a row.                                           *)
THEOREM TwoInARowHolds == Spec => TwoInARow
<1> DEFINE A == \A t \in Online' : tracks'[t].start > 1 /\ ~ tracks[t].live
                  => tracks[t].last = frame /\ t \in tracked
<1>1. ASSUME ListInv, Frame, NEW t \in Online', tracks'[t].start > 1, ~ tracks[t].live
      PROVE  tracks[t].last = frame /\ t \in tracked
  <2> USE <1>1 DEF ListInv
  <2>1. PICK ds, match, missed : Associated(ds, match, missed) /\ Merge(match, missed)
    BY FrameAssociates
  <2>2. frame < MaxFrame /\ frame' = frame + 1
    BY DEF Frame
  <2>3. t \in DOMAIN match /\ t \in TrackId /\ tracks'[t] = Hit(t, match[t], frame')
    BY <2>1, <2>2, MergeStep DEF Online
  <2>4. t \notin lost
    BY DEF MemoryInv
  <2>5. t \notin next + 1 .. next'
    <3> SUFFICES ASSUME t \in next + 1 .. next' PROVE FALSE
      OBVIOUS
    <3>1. ~ (t <= next)
      BY TrackAssumption DEF TypeOK
    <3>2. tracks'[t].start = frame'
      BY <2>3, <3>1 DEF Hit
    <3>3. tracks'[t].live
      BY DEF Online
    <3>4. frame' = 1
      <4>1. Hit(t, match[t], frame').live = (t <= next \/ frame' = 1)
        BY DEF Hit
      <4>2. t <= next \/ frame' = 1
        BY <2>3, <3>3, <4>1, Zenon
      <4> QED BY <3>1, <4>2
    <3> QED BY <3>2, <3>4
  <2>6. t \in tracked
    BY <2>1, <2>3, <2>4, <2>5 DEF Associated
  <2> QED BY <2>6 DEF OneIdEach
<1>2. Elsewhere => A
  BY DEF Elsewhere, Online
<1>3. ListInv /\ [Next]_vars => [A]_vars
  BY <1>1, <1>2 DEF Next
<1> QED BY <1>3, ListInvHolds, PTL DEF Spec, TwoInARow

(* No track is in two lists, and none falls out of them that may come back.  *)
THEOREM ListsRightHolds == Spec => []ListsRight
<1>1. OneList /\ Remembered => ListsRight
  BY DEF ListsRight
<1> QED BY <1>1, OneListHolds, RememberedHolds, PTL
-----------------------------------------------------------------------------
(* DetectionFeed: who holds what.                                            *)

Making == {h \in Handlers : handler[h].pc = "make"}

(* What the types leave out: frames are counted from 1, a handler at a       *)
(* message has a frame and, where it needs one, a tracker; there are never   *)
(* more trackers than handlers that found none.                              *)
StepInv ==
  /\ camera.fid <= camera.total /\ (camera.pc # "idle" => camera.fid >= 1)
  /\ \A h \in Handlers :
       /\ Busy(h) => handler[h].frame \in Frames
       /\ handler[h].pc \in {"match", "ids"} => handler[h].tracker # 0
  /\ Cardinality(Making) + engine <= Cardinality(Handlers)
  /\ viewer \in [pc : {"watch", "read", "exact", "newest", "instead", "shown"},
                 rec : DataTypes, at : Nat, wrote : Nat, doubled : BOOLEAN,
                 latest : 0 .. MaxFrames, shown : Frames \union {NoFrame}]
  /\ viewer.pc \in {"exact", "newest", "instead", "shown"} => viewer.rec.kind = "record"
  /\ viewer.pc = "read" => name.final # NoFile

(* Only h had the file i in its hands.                                       *)
Alone(h, i) == \A g \in file[i].by : g = h

(* A file that one handler alone writes is empty until it is written, and    *)
(* whole from then on; the published one is whole or had two handlers.       *)
HeldWell(h) == handler[h].file # NoFile =>
  /\ h \in file[handler[h].file].by
  /\ handler[h].pc = "write" /\ Alone(h, handler[h].file) =>
       file[handler[h].file].data.kind = "empty"
  /\ handler[h].pc = "replace" /\ Alone(h, handler[h].file) =>
       file[handler[h].file].data.kind = "record"
  /\ name.tmp \notin {NoFile, handler[h].file} => h \notin file[name.tmp].by
  /\ handler[h].file = name.final => \E g \in file[name.final].by : g # h

WholeOrShared == name.final # NoFile =>
  \/ file[name.final].data.kind = "record"
  \/ \E g, h \in file[name.final].by : g # h

FileInv ==
  /\ \A h \in Handlers : HeldWell(h)
  /\ name.tmp # NoFile => file[name.tmp].by # {}
  /\ WholeOrShared

(* As long as no two handlers were at a message at a time.                   *)
OwnIdsInv == ~ overlapped =>
  /\ \A g, h \in Handlers : Busy(g) /\ Busy(h) => g = h
  /\ \A h \in Handlers : /\ handler[h].own
                         /\ handler[h].pc = "ids" =>
                              matched[handler[h].tracker] = handler[h].frame
  /\ \A i \in Files : file[i].data.own

(* A file is stamped when it is opened and when it is written, so whatever   *)
(* takes the published name is no older than what had it.                    *)
AgeInv ==
  /\ \A i \in Files : file[i].at <= clock
  /\ name.tmp # NoFile /\ name.final # NoFile =>
       file[name.final].at <= file[name.tmp].at \/ Doubled(name.final)
  /\ viewer.pc = "read" /\ ~ viewer.doubled =>
       /\ viewer.at <= clock /\ viewer.at <= file[name.final].at
       /\ name.tmp # NoFile => viewer.at <= file[name.tmp].at
-----------------------------------------------------------------------------
(* DetectionFeed: how old is what is shown.                                  *)

(* The frames that are in a slot, or on their way to the browser.            *)
Seen ==
  (results \union {slot[s] : s \in Slots} \union {handler[h].frame : h \in Handlers}
     \union {file[i].data.frame : i \in Files} \union {viewer.rec.frame}) \ {NoFrame}

(* The slot of frame n has no n of a life of ingest before e.                *)
NotBefore(e, n) ==
  n # 0 /\ slot[SlotOf(n)].fid = n => slot[SlotOf(n)].epoch >= e

Behind(f, e, n) == f \in cut \/ OlderOrSame(f, [epoch |-> e, fid |-> n])
Pending(f) == camera.pc = "latest" /\ f = Written

(* latest was stored in life e: all frames there are were published before,  *)
(* but for the one that is about to be stored and those that never were.     *)
StoredIn(e) ==
  /\ e = camera.epoch => latest <= camera.fid
  /\ NotBefore(e, latest)
  /\ \A f \in Seen : Pending(f) \/ Behind(f, e, latest)
  /\ At("newest") => Behind(viewer.rec.frame, e, latest)

SlotsInv ==
  /\ \A s \in Slots : slot[s] # NoFrame => SlotOf(slot[s].fid) = s
  /\ camera.pc = "latest" => slot[SlotOf(camera.fid)] = Written

SeenInv == \A f \in Seen : f.epoch <= camera.epoch /\ NotBefore(f.epoch, f.fid)

NewestInv == \E e \in 0 .. camera.epoch : StoredIn(e)

InsteadInv == At("instead") => \E e \in 0 .. camera.epoch :
  NotBefore(e, viewer.latest) /\ Behind(viewer.rec.frame, e, viewer.latest)

RingInv == SlotsInv /\ SeenInv /\ NewestInv /\ InsteadInv /\ ShownNotOlder
-----------------------------------------------------------------------------
LEMMA HandlersFinite ==
  /\ IsFiniteSet(Handlers) /\ Cardinality(Handlers) \in Nat
  /\ \A S : S \subseteq Handlers =>
       /\ IsFiniteSet(S) /\ Cardinality(S) \in Nat
       /\ Cardinality(S) <= Cardinality(Handlers)
<1>1. IsFiniteSet(Handlers) /\ Cardinality(Handlers) \in Nat
  BY FeedAssumption, FS_CardinalityType
<1>2. ASSUME NEW S, S \subseteq Handlers
      PROVE  /\ IsFiniteSet(S) /\ Cardinality(S) \in Nat
             /\ Cardinality(S) <= Cardinality(Handlers)
  <2>1. IsFiniteSet(S) /\ Cardinality(S) <= Cardinality(Handlers)
    BY <1>1, <1>2, FS_Subset
  <2> QED BY <2>1, FS_CardinalityType
<1> QED BY <1>1, <1>2

(* More than one handler had the file if two different ones did.             *)
LEMMA TwoOrMore ==
  ASSUME FeedTypeOK, NEW i \in Files
  PROVE  Doubled(i) <=> \E g, h \in file[i].by : g # h
<1> DEFINE S == file[i].by
<1>0. S \subseteq Handlers
  BY DEF FeedTypeOK, FileTypes
<1> HIDE DEF S
<1>1. IsFiniteSet(S) /\ Cardinality(S) \in Nat
  BY <1>0, HandlersFinite
<1>2. ASSUME NEW g \in S, NEW h \in S, g # h PROVE Cardinality(S) > 1
  <2>1. IsFiniteSet(S \ {g}) /\ Cardinality(S \ {g}) = Cardinality(S) - 1
    BY <1>1, FS_RemoveElement
  <2>2. S \ {g} # {}
    BY <1>2
  <2>3. Cardinality(S \ {g}) # 0 /\ Cardinality(S \ {g}) \in Nat
    BY <2>1, <2>2, FS_EmptySet, FS_CardinalityType
  <2> QED BY <1>1, <2>1, <2>3
<1>3. ASSUME Cardinality(S) > 1 PROVE \E g, h \in S : g # h
  <2>1. S # {}
    BY <1>1, <1>3, FS_EmptySet
  <2>2. PICK g \in S : TRUE
    BY <2>1
  <2>3. IsFiniteSet(S \ {g}) /\ Cardinality(S \ {g}) = Cardinality(S) - 1
    BY <1>1, FS_RemoveElement
  <2>4. S \ {g} # {}
    BY <1>1, <1>3, <2>3, FS_EmptySet
  <2> QED BY <2>4
<1> QED BY <1>2, <1>3 DEF Doubled, S

(* There are files enough: a handler that opens one finds a spare one.       *)
LEMMA SpareIsUnused ==
  ASSUME FeedTypeOK, NEW h \in Handlers, handler[h].file = NoFile, name.tmp = NoFile
  PROVE  Spare \in Files /\ Spare \notin Used(handler, name)
<1> DEFINE others == Handlers \ {h}
           f == [g \in others |-> handler[g].file]
           held == {handler[g].file : g \in others}
<1>1. /\ IsFiniteSet(others) /\ Cardinality(others) = Cardinality(Handlers) - 1
  BY HandlersFinite, FS_RemoveElement
<1>2. f \in Surjection(others, held)
  BY DEF Surjection
<1>3. IsFiniteSet(held) /\ Cardinality(held) <= Cardinality(Handlers) - 1
  BY <1>1, <1>2, FS_Surjection
<1>4. IsFiniteSet({name.final}) /\ Cardinality({name.final}) = 1
  BY FS_Singleton
<1> HIDE DEF others, f
<1>5. /\ IsFiniteSet(held \union {name.final})
      /\ Cardinality(held \union {name.final}) =
           Cardinality(held) + 1 - Cardinality(held \intersect {name.final})
  BY <1>3, <1>4, FS_Union
<1>6. Cardinality(held) \in Nat /\ Cardinality(held \intersect {name.final}) \in Nat
  BY <1>3, FS_Intersection, FS_CardinalityType
<1>7. IsFiniteSet(Files) /\ Cardinality(Files) = Cardinality(Handlers) + 2
  BY HandlersFinite, FS_Interval DEF Files
<1>8. Used(handler, name) \subseteq held \union {name.final} \union {NoFile}
  BY DEF Used, others
<1>9. \E i \in Files : i \notin Used(handler, name)
  <2> SUFFICES ASSUME \A i \in Files : i \in Used(handler, name) PROVE FALSE
    OBVIOUS
  <2>1. NoFile \notin Files
    BY DEF NoFile, Files
  <2>2. Files \subseteq held \union {name.final}
    BY <1>8, <2>1
  <2>3. Cardinality(Files) <= Cardinality(held \union {name.final})
    BY <1>5, <2>2, FS_Subset
  <2> QED BY <1>3, <1>5, <1>6, <1>7, <2>3, HandlersFinite
<1> QED BY <1>9 DEF Spare

LEMMA TargetIsNew ==
  ASSUME FeedTypeOK, NEW h \in Handlers, handler[h].pc = "alerts"
  PROVE  /\ Target \in Files /\ Target # NoFile /\ Target # name.final
         /\ name.tmp \in {NoFile, Target}
         /\ name.tmp = NoFile => \A g \in Handlers : handler[g].file # Target
<1>1. handler[h].file = NoFile /\ name.tmp \in Files \union {NoFile} /\ NoFile \notin Files
  BY DEF FeedTypeOK, NoFile, Files
<1>2. CASE name.tmp = NoFile
  <2>1. Spare \in Files /\ Spare \notin Used(handler, name)
    BY <1>1, <1>2, SpareIsUnused
  <2> QED BY <1>1, <1>2, <2>1 DEF Target, Used
<1>3. CASE name.tmp # NoFile
  BY <1>1, <1>3 DEF Target, FeedTypeOK
<1> QED BY <1>2, <1>3
-----------------------------------------------------------------------------
(* Where a step of handler h takes it.                                       *)
MovedTo(h, pc, f, tracker, own, i) ==
  /\ handler' \in [Handlers -> HandlerTypes]
  /\ \A g \in Handlers : g # h => handler'[g] = handler[g]
  /\ handler'[h].pc = pc /\ handler'[h].frame = f
  /\ handler'[h].tracker = tracker /\ handler'[h].own = own
  /\ handler'[h].file = i

Resting(h) == \E pc \in {"idle", "wait"} : MovedTo(h, pc, NoFrame, 0, TRUE, NoFile)

LEMMA FrameFacts ==
  /\ NoFrame \notin Frames
  /\ \A f \in Frames : f.epoch \in Nat /\ f.fid \in Nat /\ f.fid # 0 /\ f.fid <= MaxFrames
  /\ \A f \in Frames \union {NoFrame} :
       f.epoch \in 0 .. MaxEpoch /\ f.fid \in 0 .. MaxFrames /\ (f = NoFrame <=> f.fid = 0)
  /\ NoFile \notin Files
  /\ \A fid \in Nat : SlotOf(fid) \in Slots
<1>1. NoFrame.fid = 0 /\ NoFrame.epoch = 0
  BY DEF NoFrame
<1>2. \A f \in Frames : f.epoch \in 0 .. MaxEpoch /\ f.fid \in 1 .. MaxFrames
  BY DEF Frames
<1>3. NoFile \notin Files
  BY DEF NoFile, Files
<1>4. \A fid \in Nat : SlotOf(fid) \in Slots
  BY FeedAssumption DEF SlotOf, Slots
<1> QED BY <1>1, <1>2, <1>3, <1>4, FeedAssumption

LEMMA IdleTypes == Idle \in HandlerTypes /\ Waiting \in HandlerTypes
<1>1. 0 \in 0 .. Cardinality(Handlers)
  BY HandlersFinite
<1> QED BY <1>1 DEF Idle, Waiting, HandlerTypes

LEMMA Rests ==
  ASSUME FeedTypeOK, NEW h \in Handlers, NEW st \in {Idle, Waiting},
         handler' = [handler EXCEPT ![h] = st]
  PROVE  Resting(h)
<1>1. handler' \in [Handlers -> HandlerTypes] /\ handler'[h] = st
  BY IdleTypes DEF FeedTypeOK
<1>2. \A g \in Handlers : g # h => handler'[g] = handler[g]
  BY DEF FeedTypeOK
<1>3. /\ st.pc \in {"idle", "wait"} /\ st.frame = NoFrame /\ st.tracker = 0
      /\ st.own = TRUE /\ st.file = NoFile
  BY DEF Idle, Waiting
<1> QED BY <1>1, <1>2, <1>3 DEF Resting, MovedTo

LEMMA HandlerSteps ==
  ASSUME FeedTypeOK, StepInv, NEW h \in Handlers
  PROVE  /\ Connect(h) => Resting(h)
         /\ Receive(h) => \E f \in results :
              MovedTo(h, "tracker", f, handler[h].tracker, handler[h].own, handler[h].file)
         /\ GetTracker(h) =>
              MovedTo(h, IF engine = 0 THEN "make" ELSE "match",
                      handler[h].frame, engine, handler[h].own, handler[h].file)
         /\ MakeTracker(h) =>
              /\ engine + 1 <= Cardinality(Handlers)
              /\ MovedTo(h, "match", handler[h].frame, engine + 1, handler[h].own, handler[h].file)
         /\ Match(h) =>
              MovedTo(h, "ids", handler[h].frame, handler[h].tracker, handler[h].own,
                      handler[h].file)
         /\ TakeIds(h) =>
              MovedTo(h, "alerts", handler[h].frame, 0,
                      matched[handler[h].tracker] = handler[h].frame, handler[h].file)
         /\ OpenTmp(h) =>
              MovedTo(h, "write", handler[h].frame, handler[h].tracker, handler[h].own, Target)
         /\ Write(h) =>
              MovedTo(h, "replace", handler[h].frame, handler[h].tracker, handler[h].own,
                      handler[h].file)
         /\ AlertsFail(h) \/ Replace(h) \/ ReplaceFails(h) => Resting(h)
<1> DEFINE u == handler[h]
<1>1. /\ handler \in [Handlers -> HandlerTypes] /\ u \in HandlerTypes
      /\ results \subseteq Frames /\ engine \in 0 .. Cardinality(Handlers)
      /\ 0 \in 0 .. Cardinality(Handlers) /\ Cardinality(Handlers) \in Nat
  BY HandlersFinite DEF FeedTypeOK
<1>2. Connect(h) => Resting(h)
  BY Rests DEF Connect
<1>3. ASSUME Receive(h)
      PROVE  \E f \in results : MovedTo(h, "tracker", f, u.tracker, u.own, u.file)
  <2>1. PICK f \in results : handler' = [handler EXCEPT ![h].pc = "tracker", ![h].frame = f]
    BY <1>3 DEF Receive
  <2> QED BY <1>1, <2>1 DEF MovedTo, HandlerTypes
<1>4. GetTracker(h) =>
        MovedTo(h, IF engine = 0 THEN "make" ELSE "match", u.frame, engine, u.own, u.file)
  BY <1>1 DEF MovedTo, HandlerTypes, GetTracker
<1>5. ASSUME MakeTracker(h)
      PROVE  /\ engine + 1 <= Cardinality(Handlers)
             /\ MovedTo(h, "match", u.frame, engine + 1, u.own, u.file)
  <2>1. h \in Making /\ Making \subseteq Handlers
    BY <1>5 DEF MakeTracker, Making
  <2>2. Cardinality(Making) \in Nat /\ Cardinality(Making) # 0
    BY <2>1, HandlersFinite, FS_EmptySet
  <2>3. engine + 1 <= Cardinality(Handlers) /\ engine + 1 \in 0 .. Cardinality(Handlers)
    BY <1>1, <2>2 DEF StepInv
  <2> QED BY <1>1, <1>5, <2>3 DEF MovedTo, HandlerTypes, MakeTracker
<1>6. Match(h) => MovedTo(h, "ids", u.frame, u.tracker, u.own, u.file)
  BY <1>1 DEF MovedTo, HandlerTypes, Match
<1>7. ASSUME TakeIds(h)
      PROVE  MovedTo(h, "alerts", u.frame, 0, matched[u.tracker] = u.frame, u.file)
  <2>1. PICK o \in BOOLEAN : o = (matched[u.tracker] = u.frame)
    OBVIOUS
  <2>2. handler' = [handler EXCEPT ![h].own = o, ![h].tracker = 0, ![h].pc = "alerts"]
    BY <1>7, <2>1 DEF TakeIds
  <2>3. MovedTo(h, "alerts", u.frame, 0, o, u.file)
    BY <1>1, <2>2 DEF MovedTo, HandlerTypes
  <2> QED BY <2>1, <2>3
<1>8. ASSUME OpenTmp(h) PROVE MovedTo(h, "write", u.frame, u.tracker, u.own, Target)
  <2>1. PICK t \in Files : t = Target
    BY <1>8, TargetIsNew DEF OpenTmp
  <2>2. handler' = [handler EXCEPT ![h].pc = "write", ![h].file = t]
    BY <1>8, <2>1 DEF OpenTmp
  <2>3. MovedTo(h, "write", u.frame, u.tracker, u.own, t)
    BY <1>1, <2>2 DEF MovedTo, HandlerTypes
  <2> QED BY <2>1, <2>3
<1>9. Write(h) => MovedTo(h, "replace", u.frame, u.tracker, u.own, u.file)
  BY <1>1 DEF MovedTo, HandlerTypes, Write
<1>10. AlertsFail(h) \/ Replace(h) \/ ReplaceFails(h) => Resting(h)
  BY Rests DEF AlertsFail, Replace, ReplaceFails, Dies, Rest
<1> QED BY <1>2, <1>3, <1>4, <1>5, <1>6, <1>7, <1>8, <1>9, <1>10
-----------------------------------------------------------------------------
(* Types, part by part: the ring, the handlers, the files, the viewer.       *)
RingTyped ==
  /\ slot \in [Slots -> Frames \union {NoFrame}] /\ latest \in 0 .. MaxFrames
  /\ camera \in [epoch : 0 .. MaxEpoch, fid : 0 .. MaxFrames,
                 pc : {"idle", "write", "latest", "notify"}, total : 0 .. MaxFrames]
  /\ told \subseteq Frames /\ results \subseteq Frames /\ cut \subseteq Frames
  /\ camera.fid <= camera.total /\ (camera.pc # "idle" => camera.fid >= 1)

HandlersTyped ==
  /\ stream \in Handlers \union {None}
  /\ handler \in [Handlers -> HandlerTypes]
  /\ \A h \in Handlers :
       /\ handler[h].file # NoFile <=> handler[h].pc \in {"write", "replace"}
       /\ Busy(h) => handler[h].frame \in Frames
       /\ handler[h].pc \in {"match", "ids"} => handler[h].tracker # 0
  /\ engine \in 0 .. Cardinality(Handlers)
  /\ Cardinality(Making) + engine <= Cardinality(Handlers)
  /\ matched \in [1 .. Cardinality(Handlers) -> Frames \union {NoFrame, Mixed}]
  /\ faults \in 0 .. MaxFaults /\ overlapped \in BOOLEAN

FilesTyped ==
  /\ name \in [tmp : Files \union {NoFile}, final : Files \union {NoFile}]
  /\ name.tmp = name.final => name.tmp = NoFile
  /\ file \in [Files -> FileTypes] /\ clock \in Nat

ViewerTyped ==
  /\ viewer \in [pc : {"watch", "read", "exact", "newest", "instead", "shown"},
                 rec : DataTypes, at : Nat, wrote : Nat, doubled : BOOLEAN,
                 latest : 0 .. MaxFrames, shown : Frames \union {NoFrame}]
  /\ viewer.pc \in {"exact", "newest", "instead", "shown"} => viewer.rec.kind = "record"

Readable == viewer.pc = "read" => name.final # NoFile

FeedTyped == RingTyped /\ HandlersTyped /\ FilesTyped /\ ViewerTyped /\ Readable

LEMMA TypedParts ==
  /\ FeedTyped <=> FeedTypeOK /\ StepInv
  /\ FeedTyped' <=> FeedTypeOK' /\ StepInv'
<1>1. ViewerTyped => viewer.pc \in {"watch", "read", "exact", "newest", "instead", "shown"}
  BY DEF ViewerTyped
<1>2. ViewerTyped' => viewer'.pc \in {"watch", "read", "exact", "newest", "instead", "shown"}
  BY DEF ViewerTyped
<1>3. FeedTyped => FeedTypeOK /\ StepInv
  BY <1>1 DEF FeedTyped, RingTyped, HandlersTyped, FilesTyped, ViewerTyped, Readable,
         FeedTypeOK, StepInv
<1>4. FeedTypeOK /\ StepInv => FeedTyped
  BY DEF FeedTyped, RingTyped, HandlersTyped, FilesTyped, ViewerTyped, Readable,
         FeedTypeOK, StepInv
<1>5. FeedTyped' => FeedTypeOK' /\ StepInv'
  BY <1>2 DEF FeedTyped, RingTyped, HandlersTyped, FilesTyped, ViewerTyped, Readable,
         FeedTypeOK, StepInv
<1>6. FeedTypeOK' /\ StepInv' => FeedTyped'
  BY DEF FeedTyped, RingTyped, HandlersTyped, FilesTyped, ViewerTyped, Readable,
         FeedTypeOK, StepInv
<1> QED BY <1>3, <1>4, <1>5, <1>6

LEMMA WatchingTyped == ASSUME viewer' = Watching PROVE ViewerTyped' /\ Readable'
<1>1. /\ Empty \in DataTypes /\ 0 \in Nat /\ FALSE \in BOOLEAN
      /\ 0 \in 0 .. MaxFrames /\ NoFrame \in Frames \union {NoFrame}
  BY FeedAssumption DEF Empty, DataTypes
<1>2. Watching.pc = "watch"
  BY DEF Watching
<1>3. ViewerTyped'
  BY <1>1, <1>2 DEF Watching, ViewerTyped
<1> QED BY <1>2, <1>3 DEF Readable

LEMMA InitTyped == FeedInit => FeedTyped
<1> SUFFICES ASSUME FeedInit PROVE FeedTyped
  OBVIOUS
<1> USE DEF FeedInit
<1>0. 0 \in 0 .. MaxEpoch /\ 0 \in 0 .. MaxFrames /\ 0 \in 0 .. MaxFaults
  BY FeedAssumption
<1>1. RingTyped
  BY <1>0 DEF RingTyped
<1>2. HandlersTyped
  <2>1. /\ Idle.pc = "idle" /\ Idle.file = NoFile
    BY DEF Idle
  <2>2. Making = {}
    BY <2>1 DEF Making
  <2>3. Cardinality(Making) = 0
    BY <2>2, FS_EmptySet
  <2>4. 0 \in 0 .. Cardinality(Handlers)
    BY HandlersFinite
  <2>5. handler \in [Handlers -> HandlerTypes] /\ \A h \in Handlers : handler[h] = Idle
    BY IdleTypes
  <2>6. \A h \in Handlers : ~ Busy(h)
    BY <2>1, <2>5 DEF Busy
  <2>7. matched \in [1 .. Cardinality(Handlers) -> Frames \union {NoFrame, Mixed}]
    OBVIOUS
  <2>8. Cardinality(Making) + engine <= Cardinality(Handlers)
    BY <2>3, HandlersFinite
  <2> HIDE DEF FeedInit
  <2>9. /\ stream = None /\ engine = 0 /\ faults = 0 /\ overlapped = FALSE
    BY DEF FeedInit
  <2> QED BY <1>0, <2>1, <2>4, <2>5, <2>6, <2>7, <2>8, <2>9 DEF HandlersTyped
<1>3. FilesTyped
  <2>1. Unused \in FileTypes
    BY DEF Unused, FileTypes, Empty, DataTypes
  <2> QED BY <2>1 DEF FilesTyped
<1>4. ViewerTyped
  <2>1. /\ Empty \in DataTypes /\ 0 \in Nat /\ FALSE \in BOOLEAN
        /\ NoFrame \in Frames \union {NoFrame}
    BY DEF Empty, DataTypes
  <2>2. Watching.pc = "watch"
    BY DEF Watching
  <2> QED BY <1>0, <2>1, <2>2 DEF Watching, ViewerTyped
<1>5. Readable
  BY DEF Readable, Watching
<1> QED BY <1>1, <1>2, <1>3, <1>4, <1>5 DEF FeedTyped

(* The ring and what inference has of it.                                    *)
LEMMA RingTypes ==
  ASSUME RingTyped, Ingest \/ Infer
  PROVE  RingTyped' /\ UNCHANGED <<tracking, feed, viewer, faults>>
<1> USE FeedAssumption DEF RingTyped
<1>0. UNCHANGED <<tracking, feed, viewer, faults>>
  BY DEF Ingest, Infer, Withdraw, Publish, StoreLatest, Notify, RestartIngest
<1>1. camera.pc # "idle" => Written \in Frames
  BY DEF Written, Frames
<1>2. CASE Withdraw
  <2>1. /\ camera.fid + 1 \in 1 .. MaxFrames /\ camera.total + 1 \in 1 .. MaxFrames
        /\ camera.fid + 1 <= camera.total + 1
    BY <1>2 DEF Withdraw
  <2>2. /\ camera' \in [epoch : 0 .. MaxEpoch, fid : 0 .. MaxFrames,
                        pc : {"idle", "write", "latest", "notify"}, total : 0 .. MaxFrames]
        /\ camera'.fid = camera.fid + 1 /\ camera'.total = camera.total + 1
    <3>1. PICK n \in 0 .. MaxFrames, m \in 0 .. MaxFrames :
            n = camera.fid + 1 /\ m = camera.total + 1
      BY <2>1
    <3>2. camera' = [camera EXCEPT !.fid = n, !.total = m, !.pc = "write"]
      BY <1>2, <3>1 DEF Withdraw
    <3> QED BY <3>1, <3>2
  <2>3. slot' \in [Slots -> Frames \union {NoFrame}]
    BY <1>2 DEF Withdraw
  <2> QED BY <1>0, <1>2, <2>1, <2>2, <2>3 DEF Withdraw
<1>3. CASE Publish
  BY <1>0, <1>1, <1>3 DEF Publish
<1>4. CASE StoreLatest
  BY <1>0, <1>4 DEF StoreLatest, NewestId
<1>5. CASE Notify
  BY <1>0, <1>1, <1>5 DEF Notify
<1>6. CASE RestartIngest
  <2>1. camera.epoch + 1 \in 0 .. MaxEpoch /\ 0 \in 0 .. MaxFrames
    BY <1>6 DEF RestartIngest
  <2>2. /\ camera' \in [epoch : 0 .. MaxEpoch, fid : 0 .. MaxFrames,
                        pc : {"idle", "write", "latest", "notify"}, total : 0 .. MaxFrames]
        /\ camera'.fid = 0 /\ camera'.total = camera.total /\ camera'.pc = "idle"
    BY <1>6, <2>1 DEF RestartIngest
  <2>3. cut' \subseteq Frames
    BY <1>1, <1>6 DEF RestartIngest
  <2> QED BY <1>0, <1>6, <2>2, <2>3 DEF RestartIngest
<1>7. CASE Infer
  <2>1. PICK f \in told : /\ told' = told \ {f}
                          /\ \/ /\ slot[SlotOf(f.fid)].fid = f.fid
                                /\ results' = results \union {slot[SlotOf(f.fid)]}
                             \/ UNCHANGED results
    BY <1>7 DEF Infer
  <2>2. f \in Frames /\ SlotOf(f.fid) \in Slots
    BY <2>1, FrameFacts
  <2>3. slot[SlotOf(f.fid)].fid = f.fid => slot[SlotOf(f.fid)] \in Frames
    BY <2>2, FrameFacts
  <2>4. told' \subseteq Frames /\ results' \subseteq Frames
    BY <2>1, <2>3
  <2> QED BY <1>0, <1>7, <2>4 DEF Infer
<1> QED BY <1>0, <1>2, <1>3, <1>4, <1>5, <1>6, <1>7 DEF Ingest

(* The handlers.                                                             *)
LEMMA MovedTypes ==
  ASSUME HandlersTyped, NEW h \in Handlers, NEW pc, NEW f, NEW tracker, NEW own, NEW i,
         MovedTo(h, pc, f, tracker, own, i),
         i # NoFile <=> pc \in {"write", "replace"},
         pc \notin {"idle", "wait"} => f \in Frames,
         pc \in {"match", "ids"} => tracker # 0,
         stream' \in Handlers \union {None},
         matched' \in [1 .. Cardinality(Handlers) -> Frames \union {NoFrame, Mixed}],
         faults' \in 0 .. MaxFaults, overlapped' \in BOOLEAN,
         \/ engine' = engine /\ (pc = "make" => engine = 0)
         \/ engine' = engine + 1 /\ engine' <= Cardinality(Handlers)
            /\ handler[h].pc = "make" /\ pc # "make"
  PROVE  HandlersTyped'
<1> USE DEF HandlersTyped
<1>1. \A g \in Handlers :
        /\ handler'[g].file # NoFile <=> handler'[g].pc \in {"write", "replace"}
        /\ Busy(g)' => handler'[g].frame \in Frames
        /\ handler'[g].pc \in {"match", "ids"} => handler'[g].tracker # 0
  BY DEF MovedTo, Busy
<1>2. engine' \in 0 .. Cardinality(Handlers)
  BY HandlersFinite
<1>3. Cardinality(Making') + engine' <= Cardinality(Handlers)
  <2>1. Making' \subseteq Handlers /\ Making \subseteq Handlers
    BY DEF Making
  <2>2. /\ IsFiniteSet(Making) /\ Cardinality(Making) \in Nat
        /\ Cardinality(Making') \in Nat /\ Cardinality(Making') <= Cardinality(Handlers)
    BY <2>1, HandlersFinite
  <2>3. CASE engine' = engine /\ engine = 0
    BY <2>2, <2>3, HandlersFinite
  <2>4. CASE engine' = engine /\ pc # "make"
    <3>1. Making' \subseteq Making
      BY <2>4 DEF MovedTo, Making
    <3>2. Cardinality(Making') <= Cardinality(Making)
      BY <2>2, <3>1, FS_Subset
    <3> QED BY <2>2, <2>4, <3>2, HandlersFinite
  <2>5. CASE engine' = engine + 1 /\ handler[h].pc = "make" /\ pc # "make"
    <3>1. Making' = Making \ {h} /\ h \in Making
      BY <2>5 DEF MovedTo, Making
    <3>2. Cardinality(Making') = Cardinality(Making) - 1
      BY <2>2, <3>1, FS_RemoveElement
    <3> QED BY <2>2, <2>5, <3>2, HandlersFinite
  <2> QED BY <2>3, <2>4, <2>5
<1>4. handler' \in [Handlers -> HandlerTypes]
  BY DEF MovedTo
<1> QED BY <1>1, <1>2, <1>3, <1>4

LEMMA HandlersKept ==
  ASSUME HandlersTyped, UNCHANGED <<tracking, faults>>
  PROVE  HandlersTyped'
BY DEF HandlersTyped, Busy, Making, tracking

LEMMA HandlerTypesStep ==
  ASSUME FeedTyped, NEW h \in Handlers, Connect(h) \/ Handle(h) \/ AlertsFail(h)
  PROVE  HandlersTyped'
<1> DEFINE u == handler[h]
<1>0. FeedTypeOK /\ StepInv /\ HandlersTyped
  BY TypedParts DEF FeedTyped
<1>1. /\ u.file # NoFile <=> u.pc \in {"write", "replace"}
      /\ u.pc \notin {"idle", "wait"} => u.frame \in Frames
      /\ u.pc \in {"match", "ids"} => u.tracker # 0
      /\ engine \in 0 .. Cardinality(Handlers) /\ faults \in 0 .. MaxFaults
      /\ stream \in Handlers \union {None} /\ overlapped \in BOOLEAN
      /\ matched \in [1 .. Cardinality(Handlers) -> Frames \union {NoFrame, Mixed}]
  BY <1>0 DEF HandlersTyped, Busy
<1>2. CASE Connect(h) \/ Replace(h) \/ ReplaceFails(h) \/ AlertsFail(h)
  <2>1. PICK pc \in {"idle", "wait"} : MovedTo(h, pc, NoFrame, 0, TRUE, NoFile)
    BY <1>0, <1>2, HandlerSteps DEF Resting
  <2>2. UNCHANGED <<engine, matched, overlapped>> /\ stream' \in Handlers \union {None}
    BY <1>1, <1>2 DEF Connect, Replace, ReplaceFails, AlertsFail, Dies
  <2>3. faults' \in 0 .. MaxFaults
    <3>1. CASE faults' = faults
      BY <1>1, <3>1
    <3>2. CASE faults' = faults + 1 /\ faults < MaxFaults
      BY <1>1, <3>2, FeedAssumption
    <3> QED BY <1>2, <3>1, <3>2 DEF Connect, Replace, ReplaceFails, AlertsFail, Fallible
  <2> QED BY <1>0, <1>1, <2>1, <2>2, <2>3, MovedTypes
<1>3. CASE Receive(h)
  <2>1. PICK f \in results : MovedTo(h, "tracker", f, u.tracker, u.own, u.file)
    BY <1>0, <1>3, HandlerSteps
  <2>2. f \in Frames /\ u.file = NoFile
    BY <1>0, <1>1, <1>3, <2>1 DEF Receive, FeedTypeOK
  <2>3. UNCHANGED <<stream, engine, matched, faults>> /\ overlapped' \in BOOLEAN
    BY <1>1, <1>3 DEF Receive
  <2> QED BY <1>0, <1>1, <2>1, <2>2, <2>3, MovedTypes
<1>4. CASE GetTracker(h)
  <2>1. MovedTo(h, IF engine = 0 THEN "make" ELSE "match", u.frame, engine, u.own, u.file)
    BY <1>0, <1>4, HandlerSteps
  <2>2. UNCHANGED <<stream, engine, matched, faults, overlapped>> /\ u.pc = "tracker"
    BY <1>4 DEF GetTracker
  <2>3. CASE engine = 0
    <3>1. MovedTo(h, "make", u.frame, engine, u.own, u.file)
      BY <2>1, <2>3
    <3> QED BY <1>0, <1>1, <2>2, <2>3, <3>1, MovedTypes
  <2>4. CASE engine # 0
    <3>1. MovedTo(h, "match", u.frame, engine, u.own, u.file)
      BY <2>1, <2>4
    <3> QED BY <1>0, <1>1, <2>2, <2>4, <3>1, MovedTypes
  <2> QED BY <2>3, <2>4
<1>5. CASE MakeTracker(h)
  <2>1. /\ engine + 1 <= Cardinality(Handlers)
        /\ MovedTo(h, "match", u.frame, engine + 1, u.own, u.file)
    BY <1>0, <1>5, HandlerSteps
  <2>2. /\ UNCHANGED <<stream, matched, faults, overlapped>> /\ u.pc = "make"
        /\ engine' = engine + 1 /\ engine + 1 # 0
    BY <1>1, <1>5 DEF MakeTracker
  <2> QED BY <1>0, <1>1, <2>1, <2>2, MovedTypes
<1>6. CASE Match(h)
  <2>1. MovedTo(h, "ids", u.frame, u.tracker, u.own, u.file)
    BY <1>0, <1>6, HandlerSteps
  <2>2. UNCHANGED <<stream, engine, faults, overlapped>> /\ u.pc = "match"
    BY <1>6 DEF Match
  <2>3. matched' \in [1 .. Cardinality(Handlers) -> Frames \union {NoFrame, Mixed}]
    BY <1>1, <1>6, <2>2 DEF Match
  <2> QED BY <1>0, <1>1, <2>1, <2>2, <2>3, MovedTypes
<1>7. CASE TakeIds(h)
  <2>1. MovedTo(h, "alerts", u.frame, 0, matched[u.tracker] = u.frame, u.file)
    BY <1>0, <1>7, HandlerSteps
  <2>2. UNCHANGED <<stream, engine, matched, faults, overlapped>> /\ u.pc = "ids"
    BY <1>7 DEF TakeIds
  <2> QED BY <1>0, <1>1, <2>1, <2>2, MovedTypes
<1>8. CASE OpenTmp(h)
  <2>1. MovedTo(h, "write", u.frame, u.tracker, u.own, Target) /\ Target # NoFile
    BY <1>0, <1>8, HandlerSteps, TargetIsNew DEF OpenTmp
  <2>2. UNCHANGED <<stream, engine, matched, faults, overlapped>> /\ u.pc = "alerts"
    BY <1>8 DEF OpenTmp
  <2> QED BY <1>0, <1>1, <2>1, <2>2, MovedTypes
<1>9. CASE Write(h)
  <2>1. MovedTo(h, "replace", u.frame, u.tracker, u.own, u.file)
    BY <1>0, <1>9, HandlerSteps
  <2>2. UNCHANGED <<stream, engine, matched, faults, overlapped>> /\ u.pc = "write"
    BY <1>9 DEF Write
  <2> QED BY <1>0, <1>1, <2>1, <2>2, MovedTypes
<1> QED BY <1>2, <1>3, <1>4, <1>5, <1>6, <1>7, <1>8, <1>9 DEF Handle

(* All handlers at once, or the one whose stream breaks.                     *)
LEMMA FaultTypes ==
  ASSUME HandlersTyped, Break \/ Crash
  PROVE  HandlersTyped'
<1> USE DEF HandlersTyped
<1>1. faults' \in 0 .. MaxFaults /\ stream' = None /\ overlapped' \in BOOLEAN
  BY FeedAssumption DEF Break, Crash, Fallible
<1>2. CASE Break
  <2>1. PICK h \in Handlers : /\ h = stream
                              /\ handler' = [handler EXCEPT ![h] = IF Busy(h) THEN @ ELSE Idle]
    BY <1>2 DEF Break
  <2>2. UNCHANGED <<engine, matched>>
    BY <1>2 DEF Break
  <2>3. CASE Busy(h)
    <3>1. UNCHANGED handler
      BY <2>1, <2>3
    <3> QED BY <1>1, <2>2, <3>1 DEF Busy, Making
  <2>4. CASE ~ Busy(h)
    <3>1. handler' = [handler EXCEPT ![h] = Idle]
      BY <2>1, <2>4
    <3>2. /\ handler' \in [Handlers -> HandlerTypes] /\ handler'[h] = Idle
          /\ \A g \in Handlers : g # h => handler'[g] = handler[g]
      BY <3>1, IdleTypes
    <3>3. MovedTo(h, "idle", NoFrame, 0, TRUE, NoFile)
      BY <3>2 DEF Idle, MovedTo
    <3> QED BY <1>1, <2>2, <3>3, MovedTypes
  <2> QED BY <2>3, <2>4
<1>3. CASE Crash
  <2>1. handler' \in [Handlers -> HandlerTypes] /\ \A h \in Handlers : handler'[h] = Idle
    BY <1>3, IdleTypes DEF Crash
  <2>2. Idle.pc = "idle" /\ Idle.file = NoFile
    BY DEF Idle
  <2>3. Making' = {}
    BY <2>1, <2>2 DEF Making
  <2>4. Cardinality(Making') + engine' <= Cardinality(Handlers) /\ engine' = 0
    BY <1>3, <2>3, FS_EmptySet, HandlersFinite DEF Crash
  <2>5. matched' \in [1 .. Cardinality(Handlers) -> Frames \union {NoFrame, Mixed}]
    BY <1>3 DEF Crash
  <2> QED BY <1>1, <2>1, <2>2, <2>4, <2>5, HandlersFinite DEF Busy
<1> QED BY <1>2, <1>3

(* The files.                                                                *)
LEMMA UnusedTyped == Unused \in FileTypes
BY DEF Unused, FileTypes, Empty, DataTypes

LEMMA KeptFiles ==
  ASSUME NEW hs, NEW nm, NEW fs \in [Files -> FileTypes]
  PROVE  /\ Kept(hs, nm, fs) \in [Files -> FileTypes]
         /\ \A i \in Files : i \in Used(hs, nm) => Kept(hs, nm, fs)[i] = fs[i]
         /\ \A i \in Files : i \notin Used(hs, nm) => Kept(hs, nm, fs)[i] = Unused
BY UnusedTyped DEF Kept

LEMMA FileTypesStep ==
  ASSUME FeedTyped, NEW h \in Handlers, OpenTmp(h) \/ Write(h) \/ Replace(h) \/ ReplaceFails(h)
  PROVE  FilesTyped'
<1>0. FeedTypeOK /\ StepInv /\ FilesTyped
  BY TypedParts DEF FeedTyped
<1> USE DEF FilesTyped
<1>1. CASE OpenTmp(h)
  <2>1. PICK t \in Files : t = Target /\ t # name.final /\ t # NoFile
    BY <1>0, <1>1, TargetIsNew DEF OpenTmp
  <2>2. PICK b \in SUBSET Handlers : b = {h} \union Holding(t)
    BY DEF Holding
  <2>3. PICK r : r = [data |-> Empty, at |-> clock, by |-> b]
    OBVIOUS
  <2>4. r \in FileTypes
    BY <1>0, <2>3 DEF Empty, DataTypes, FileTypes
  <2>5. /\ name' = [name EXCEPT !.tmp = t] /\ file' = [file EXCEPT ![t] = r]
        /\ UNCHANGED clock
    BY <1>1, <2>1, <2>2, <2>3 DEF OpenTmp
  <2>6. /\ name' \in [tmp : Files \union {NoFile}, final : Files \union {NoFile}]
        /\ name'.tmp = t /\ name'.final = name.final
    BY <1>0, <2>5
  <2> QED BY <1>0, <2>1, <2>4, <2>5, <2>6
<1>2. CASE Write(h)
  <2>1. handler[h].file \in Files /\ handler[h].frame \in Frames /\ handler[h].own \in BOOLEAN
    BY <1>0, <1>2 DEF Write, FeedTypeOK, StepInv, Busy, HandlerTypes
  <2>2. PICK i \in Files : i = handler[h].file
    BY <2>1
  <2>3. Record(handler[h].frame, handler[h].own) \in DataTypes /\ Garbled \in DataTypes
    BY <2>1 DEF Record, Garbled, DataTypes
  <2>4. PICK d \in DataTypes : file' = [file EXCEPT ![i].data = d, ![i].at = clock + 1]
    BY <1>2, <2>2, <2>3 DEF Write
  <2>5. clock + 1 \in Nat /\ clock' = clock + 1 /\ UNCHANGED name
    BY <1>0, <1>2 DEF Write
  <2>6. file' \in [Files -> FileTypes]
    BY <1>0, <2>4, <2>5 DEF FileTypes
  <2> QED BY <1>0, <2>5, <2>6
<1>3. CASE Replace(h)
  <2>1. PICK t \in Files : t = name.tmp /\ t # NoFile
    BY <1>0, <1>3, FrameFacts DEF Replace
  <2>2. PICK b \in SUBSET Handlers : b = file[t].by \union {h}
    BY <1>0 DEF FileTypes
  <2>3. PICK fs : fs = [file EXCEPT ![t].by = b]
    OBVIOUS
  <2>4. fs \in [Files -> FileTypes]
    BY <1>0, <2>3 DEF FileTypes
  <2>5. /\ name' = [tmp |-> NoFile, final |-> t] /\ UNCHANGED clock
        /\ file' = Kept(handler', name', fs)
    BY <1>3, <2>1, <2>2, <2>3 DEF Replace
  <2>6. file' \in [Files -> FileTypes]
    BY <2>4, <2>5, KeptFiles
  <2> QED BY <1>0, <2>1, <2>5, <2>6
<1>4. CASE ReplaceFails(h)
  <2>1. file' = Kept(handler', name, file) /\ UNCHANGED <<name, clock>>
    BY <1>4 DEF ReplaceFails
  <2> QED BY <1>0, <2>1, KeptFiles
<1> QED BY <1>1, <1>2, <1>3, <1>4

(* The viewer.                                                               *)
LEMMA ViewerTypesStep ==
  ASSUME FeedTyped, Display
  PROVE  ViewerTyped' /\ Readable' /\ UNCHANGED <<ring, tracking, feed, faults>>
<1> USE DEF ViewerTyped
<1>0. /\ RingTyped /\ FilesTyped /\ ViewerTyped /\ Readable
      /\ UNCHANGED <<ring, tracking, feed, faults>>
  BY DEF FeedTyped, Display, Stat, Read, GetExact, GetNewestId, GetInstead, Draw
<1>1. \A fid \in Nat : slot[SlotOf(fid)] \in Frames \union {NoFrame}
  BY <1>0, FrameFacts DEF RingTyped
<1>2. CASE Stat
  <2>1. name.final \in Files
    BY <1>0, <1>2 DEF Stat, FilesTyped
  <2>2. PICK a \in Nat : a = file[name.final].at
    BY <1>0, <2>1 DEF FilesTyped, FileTypes
  <2>3. PICK d \in BOOLEAN : d = Doubled(name.final)
    <3>1. CASE Doubled(name.final)
      BY <3>1
    <3>2. CASE ~ Doubled(name.final)
      <4>1. Doubled(name.final) = FALSE
        BY <3>2 DEF Doubled
      <4> QED BY <4>1
    <3> QED BY <3>1, <3>2
  <2>4. viewer' = [viewer EXCEPT !.pc = "read", !.at = a, !.doubled = d] /\ UNCHANGED name
    BY <1>2, <2>2, <2>3 DEF Stat, feed
  <2>5. name.final # NoFile
    BY <1>2 DEF Stat
  <2>6. ViewerTyped'
    BY <1>0, <2>4
  <2> QED BY <1>0, <2>4, <2>5, <2>6 DEF Readable
<1>3. CASE Read
  <2>0. name.final \in Files
    BY <1>0, <1>3 DEF Read, At, Readable, FilesTyped
  <2>1. CASE file[name.final].data.kind = "record"
    <3>1. PICK d \in DataTypes, w \in Nat :
            d = file[name.final].data /\ w = file[name.final].at /\ d.kind = "record"
      BY <1>0, <2>0, <2>1 DEF FilesTyped, FileTypes
    <3>2. viewer' = [viewer EXCEPT !.pc = "exact", !.rec = d, !.wrote = w]
      BY <1>3, <2>1, <3>1 DEF Read
    <3>3. ViewerTyped' /\ viewer'.pc = "exact"
      BY <1>0, <3>1, <3>2
    <3> QED BY <1>0, <3>3 DEF Readable
  <2>2. CASE file[name.final].data.kind # "record"
    <3>1. viewer' = Watching
      BY <1>3, <2>2 DEF Read
    <3> QED BY <1>0, <3>1, WatchingTyped
  <2> QED BY <1>3, <2>1, <2>2 DEF Read
<1>4. ASSUME NEW fid \in Nat, viewer' = Shows(fid), viewer.rec.kind = "record"
      PROVE  ViewerTyped' /\ Readable'
  <2>1. PICK f \in Frames \union {NoFrame} : f = slot[SlotOf(fid)]
    BY <1>1
  <2>2. viewer' = [viewer EXCEPT !.pc = "shown", !.shown = f]
    BY <1>4, <2>1 DEF Shows
  <2>3. ViewerTyped' /\ viewer'.pc = "shown"
    BY <1>0, <1>4, <2>2
  <2> QED BY <1>0, <2>3 DEF Readable
<1>5. CASE GetExact
  <2>1. viewer.rec.kind = "record" /\ viewer.rec \in DataTypes
    BY <1>0, <1>5 DEF GetExact, At
  <2>2. viewer.rec.frame.fid \in Nat
    BY <2>1, FrameFacts DEF DataTypes
  <2>3. CASE Has(viewer.rec.frame.fid)
    BY <1>0, <1>4, <1>5, <2>1, <2>2, <2>3 DEF GetExact
  <2>4. CASE ~ Has(viewer.rec.frame.fid)
    <3>1. viewer' = [viewer EXCEPT !.pc = "newest"]
      BY <1>5, <2>4 DEF GetExact
    <3>2. ViewerTyped' /\ viewer'.pc = "newest"
      BY <1>0, <2>1, <3>1
    <3> QED BY <1>0, <3>2 DEF Readable
  <2> QED BY <2>3, <2>4
<1>6. CASE GetNewestId
  <2>1. viewer' = [viewer EXCEPT !.pc = "instead", !.latest = latest] /\ viewer.pc = "newest"
    BY <1>6 DEF GetNewestId, At
  <2>2. latest \in 0 .. MaxFrames
    BY <1>0 DEF RingTyped
  <2>3. ViewerTyped' /\ viewer'.pc = "instead"
    BY <1>0, <2>1, <2>2
  <2> QED BY <1>0, <2>3 DEF Readable
<1>7. CASE GetInstead
  <2>1. viewer.rec.kind = "record" /\ viewer.latest \in Nat
    BY <1>0, <1>7, FeedAssumption DEF GetInstead, At
  <2>2. CASE Has(viewer.latest)
    BY <1>0, <1>4, <1>7, <2>1, <2>2 DEF GetInstead
  <2>3. CASE ~ Has(viewer.latest)
    <3>1. viewer' = Watching
      BY <1>7, <2>3 DEF GetInstead
    <3> QED BY <1>0, <3>1, WatchingTyped
  <2> QED BY <2>2, <2>3
<1>8. CASE Draw
  <2>1. viewer' = Watching
    BY <1>8 DEF Draw
  <2> QED BY <1>0, <2>1, WatchingTyped
<1> QED BY <1>0, <1>2, <1>3, <1>5, <1>6, <1>7, <1>8 DEF Display

(* What a step does not touch keeps its type.                                *)
LEMMA PartsKept ==
  ASSUME FeedTyped
  PROVE  /\ UNCHANGED <<slot, latest, camera, told, results, cut>> => RingTyped'
         /\ UNCHANGED <<name, file, clock>> => FilesTyped'
         /\ UNCHANGED viewer => ViewerTyped'
         /\ UNCHANGED <<viewer, name>> => Readable'
BY DEF FeedTyped, RingTyped, FilesTyped, ViewerTyped, Readable

LEMMA TypedStep == FeedTyped /\ [FeedNext]_feedVars => FeedTyped'
<1> SUFFICES ASSUME FeedTyped, [FeedNext]_feedVars PROVE FeedTyped'
  OBVIOUS
<1> USE DEF FeedTyped
<1>1. CASE Ingest \/ Infer
  <2>1. RingTyped' /\ UNCHANGED <<tracking, feed, viewer, faults>>
    BY <1>1, RingTypes
  <2> QED BY <2>1, HandlersKept, PartsKept DEF feed
<1>2. CASE Break \/ Crash
  <2>1. HandlersTyped' /\ UNCHANGED <<ring, viewer, name, clock>>
    BY <1>2, FaultTypes DEF Break, Crash, feed
  <2>2. FilesTyped'
    <3>1. CASE Break
      BY <3>1, PartsKept DEF Break, feed
    <3>2. CASE Crash
      BY <2>1, <3>2, KeptFiles DEF Crash, FilesTyped
    <3> QED BY <1>2, <3>1, <3>2
  <2> QED BY <2>1, <2>2, PartsKept DEF ring
<1>3. CASE Display
  BY <1>3, ViewerTypesStep, HandlersKept, PartsKept DEF ring, feed
<1>4. ASSUME NEW h \in Handlers, Skip(h) PROVE FeedTyped'
  <2>1. /\ UNCHANGED <<slot, latest, camera, told, cut, tracking, feed, viewer, faults>>
        /\ results' \subseteq results
    BY <1>4 DEF Skip
  <2>2. RingTyped'
    BY <2>1 DEF RingTyped
  <2> QED BY <2>1, <2>2, HandlersKept, PartsKept DEF feed
<1>5. ASSUME NEW h \in Handlers, Connect(h) \/ Handle(h) \/ AlertsFail(h) PROVE FeedTyped'
  <2>1. HandlersTyped'
    BY <1>5, HandlerTypesStep
  <2>2. /\ UNCHANGED <<slot, latest, camera, told, cut, viewer>> /\ results' \subseteq results
    BY <1>5 DEF Connect, Handle, AlertsFail, Receive, GetTracker, MakeTracker, Match, TakeIds,
                OpenTmp, Write, Replace, ReplaceFails, ring
  <2>3. RingTyped' /\ ViewerTyped'
    BY <2>2, PartsKept DEF RingTyped
  <2>4. Readable'
    <3>1. CASE UNCHANGED name
      BY <2>2, <3>1, PartsKept
    <3>2. CASE OpenTmp(h)
      <4>1. name'.final = name.final
        BY <3>2 DEF OpenTmp, FilesTyped
      <4> QED BY <2>2, <4>1 DEF Readable
    <3>3. CASE Replace(h)
      BY <3>3 DEF Replace, Readable
    <3> QED BY <1>5, <3>1, <3>2, <3>3 DEF Connect, Handle, AlertsFail, Receive, GetTracker,
                 MakeTracker, Match, TakeIds, Write, ReplaceFails, feed
  <2>5. FilesTyped'
    <3>1. CASE OpenTmp(h) \/ Write(h) \/ Replace(h) \/ ReplaceFails(h)
      BY <3>1, FileTypesStep
    <3>2. CASE ~ (OpenTmp(h) \/ Write(h) \/ Replace(h) \/ ReplaceFails(h))
      <4>1. UNCHANGED <<name, file, clock>>
        BY <1>5, <3>2 DEF Connect, Handle, AlertsFail, Receive, GetTracker, MakeTracker, Match,
                          TakeIds, feed
      <4> QED BY <4>1, PartsKept
    <3> QED BY <3>1, <3>2
  <2> QED BY <2>1, <2>3, <2>4, <2>5
<1>6. CASE UNCHANGED feedVars
  BY <1>6, HandlersKept, PartsKept DEF feedVars, ring, feed
<1> QED BY <1>1, <1>2, <1>3, <1>4, <1>5, <1>6 DEF FeedNext

LEMMA FeedTypedHolds == FeedSpec => []FeedTyped
BY InitTyped, TypedStep, PTL DEF FeedSpec
-----------------------------------------------------------------------------
(* What the four steps that handle files do to them.                         *)
Opens(h, t) ==
  /\ t \in Files /\ t # NoFile /\ t # name.final /\ name.tmp \in {NoFile, t}
  /\ MovedTo(h, "write", handler[h].frame, handler[h].tracker, handler[h].own, t)
  /\ name'.tmp = t /\ name'.final = name.final
  /\ file'[t].data = Empty /\ file'[t].at = clock /\ file'[t].by = {h} \union Holding(t)
  /\ \A i \in Files : i # t => file'[i] = file[i]
  /\ clock' = clock

Writes(h, i) ==
  /\ i \in Files /\ i = handler[h].file /\ handler[h].pc = "write"
  /\ MovedTo(h, "replace", handler[h].frame, handler[h].tracker, handler[h].own, i)
  /\ file'[i].data \in {Record(handler[h].frame, handler[h].own), Garbled}
  /\ file[i].data = Empty => file'[i].data = Record(handler[h].frame, handler[h].own)
  /\ file'[i].at = clock + 1 /\ file'[i].by = file[i].by
  /\ \A j \in Files : j # i => file'[j] = file[j]
  /\ clock' = clock + 1 /\ name' = name

Keeps(hs, nm) ==
  \A i \in Files : IF i \in Used(hs, nm) THEN /\ file'[i].data = file[i].data
                                              /\ file'[i].at = file[i].at
                   ELSE file'[i] = Unused

Moves(h, t) ==
  /\ t \in Files /\ t = name.tmp /\ t # NoFile /\ handler[h].pc = "replace"
  /\ Resting(h) /\ name'.tmp = NoFile /\ name'.final = t
  /\ Keeps(handler', name') /\ file'[t].by = file[t].by \union {h}
  /\ \A i \in Files : i # t /\ i \in Used(handler', name') => file'[i].by = file[i].by
  /\ clock' = clock

Leaves ==
  /\ Keeps(handler', name)
  /\ \A i \in Files : i \in Used(handler', name) => file'[i].by = file[i].by
  /\ clock' = clock /\ name' = name

LEMMA OpenTmpEffect ==
  ASSUME FeedTyped, NEW h \in Handlers, OpenTmp(h)
  PROVE  Opens(h, Target)
<1>0. FeedTypeOK /\ StepInv
  BY TypedParts
<1>1. PICK t \in Files : t = Target
  BY <1>0, TargetIsNew DEF OpenTmp
<1>2. t # NoFile /\ t # name.final /\ name.tmp \in {NoFile, t}
  BY <1>0, <1>1, TargetIsNew DEF OpenTmp
<1>3. MovedTo(h, "write", handler[h].frame, handler[h].tracker, handler[h].own, t)
  BY <1>0, <1>1, HandlerSteps
<1>4. name' = [name EXCEPT !.tmp = t] /\ clock' = clock
  BY <1>1 DEF OpenTmp
<1>5. name'.tmp = t /\ name'.final = name.final
  BY <1>0, <1>4 DEF FeedTypeOK
<1>6. PICK r : r = [data |-> Empty, at |-> clock, by |-> {h} \union Holding(t)]
  OBVIOUS
<1>7. file' = [file EXCEPT ![t] = r]
  BY <1>1, <1>6 DEF OpenTmp
<1>8. file'[t] = r /\ \A i \in Files : i # t => file'[i] = file[i]
  BY <1>0, <1>7 DEF FeedTypeOK
<1>9. Opens(h, t)
  BY <1>2, <1>3, <1>4, <1>5, <1>6, <1>8 DEF Opens
<1> QED BY <1>1, <1>9

LEMMA WriteEffect ==
  ASSUME FeedTyped, NEW h \in Handlers, Write(h)
  PROVE  Writes(h, handler[h].file)
<1>0. FeedTypeOK /\ StepInv
  BY TypedParts
<1>1. PICK i \in Files : i = handler[h].file
  BY <1>0 DEF Write, FeedTypeOK, HandlerTypes
<1>2. MovedTo(h, "replace", handler[h].frame, handler[h].tracker, handler[h].own, i)
  BY <1>0, <1>1, HandlerSteps
<1>3. PICK d \in {Record(handler[h].frame, handler[h].own), Garbled} :
        /\ d = Garbled => file[i].data # Empty
        /\ file' = [file EXCEPT ![i].data = d, ![i].at = clock + 1]
  BY <1>1 DEF Write
<1>4. /\ file'[i].data = d /\ file'[i].at = clock + 1 /\ file'[i].by = file[i].by
      /\ \A j \in Files : j # i => file'[j] = file[j]
  BY <1>0, <1>3 DEF FeedTypeOK, FileTypes
<1>5. clock' = clock + 1 /\ name' = name /\ handler[h].pc = "write"
  BY DEF Write
<1>6. Writes(h, i)
  BY <1>1, <1>2, <1>3, <1>4, <1>5 DEF Writes
<1> QED BY <1>1, <1>6

LEMMA ReplaceEffect ==
  ASSUME FeedTyped, NEW h \in Handlers, Replace(h)
  PROVE  Moves(h, name.tmp)
<1>0. FeedTypeOK /\ StepInv
  BY TypedParts
<1>1. PICK t \in Files : t = name.tmp /\ t # NoFile
  BY <1>0 DEF Replace, FeedTypeOK
<1>2. Resting(h)
  BY <1>0, HandlerSteps
<1>3. PICK b : b = file[t].by \union {h}
  OBVIOUS
<1>4. PICK fs : fs = [file EXCEPT ![t].by = b]
  OBVIOUS
<1>5. /\ fs[t].data = file[t].data /\ fs[t].at = file[t].at /\ fs[t].by = b
      /\ \A i \in Files : i # t => fs[i] = file[i]
  BY <1>0, <1>4 DEF FeedTypeOK, FileTypes
<1>6. /\ name' = [tmp |-> NoFile, final |-> t] /\ clock' = clock
      /\ file' = Kept(handler', name', fs) /\ handler[h].pc = "replace"
  BY <1>1, <1>3, <1>4 DEF Replace
<1>7. \A i \in Files : file'[i] = IF i \in Used(handler', name') THEN fs[i] ELSE Unused
  BY <1>6 DEF Kept
<1>8. t \in Used(handler', name') /\ name'.tmp = NoFile /\ name'.final = t
  BY <1>6 DEF Used
<1>9. Moves(h, t)
  BY <1>1, <1>2, <1>3, <1>5, <1>6, <1>7, <1>8 DEF Moves, Keeps
<1> QED BY <1>1, <1>9

LEMMA LeavesEffect ==
  ASSUME FeedTyped, Crash \/ \E h \in Handlers : ReplaceFails(h)
  PROVE  Leaves
<1>1. file' = Kept(handler', name, file) /\ clock' = clock /\ name' = name
  BY DEF Crash, ReplaceFails
<1> QED BY <1>1 DEF Kept, Leaves, Keeps

(* Every other step leaves the files alone, and the handlers that hold them. *)
FilesLeft ==
  /\ UNCHANGED feed
  /\ \A g \in Handlers :
       handler'[g].file # NoFile => /\ handler'[g].file = handler[g].file
                                    /\ handler'[g].pc = handler[g].pc

LEMMA OthersLeave ==
  ASSUME FeedTyped, [FeedNext]_feedVars,
         ~ Crash,
         \A h \in Handlers : ~ (OpenTmp(h) \/ Write(h) \/ Replace(h) \/ ReplaceFails(h))
  PROVE  FilesLeft
<1>0. FeedTypeOK /\ StepInv
  BY TypedParts
<1>1. CASE Ingest \/ Infer \/ Display \/ UNCHANGED feedVars
  BY <1>1 DEF Ingest, Withdraw, Publish, StoreLatest, Notify, RestartIngest, Infer, Display,
              Stat, Read, GetExact, GetNewestId, GetInstead, Draw, feedVars, tracking, FilesLeft
<1>2. CASE Break
  <2>1. PICK h \in Handlers : /\ h = stream
                              /\ handler' = [handler EXCEPT ![h] = IF Busy(h) THEN @ ELSE Idle]
    BY <1>0, <1>2 DEF Break, FeedTypeOK
  <2>2. UNCHANGED feed
    BY <1>2 DEF Break
  <2>3. \A g \in Handlers : handler'[g] \in {handler[g], Idle}
    BY <1>0, <2>1 DEF FeedTypeOK
  <2> QED BY <2>2, <2>3 DEF FilesLeft, Idle
<1>3. ASSUME NEW h \in Handlers, Skip(h) PROVE FilesLeft
  BY <1>3 DEF Skip, tracking, FilesLeft
<1>4. ASSUME NEW h \in Handlers, Connect(h) \/ AlertsFail(h) PROVE FilesLeft
  <2>1. Resting(h) /\ UNCHANGED feed
    BY <1>0, <1>4, HandlerSteps DEF Connect, AlertsFail
  <2> QED BY <2>1 DEF Resting, MovedTo, FilesLeft
<1>5. ASSUME NEW h \in Handlers,
             Receive(h) \/ GetTracker(h) \/ MakeTracker(h) \/ Match(h) \/ TakeIds(h)
      PROVE  FilesLeft
  <2>1. handler[h].file = NoFile /\ UNCHANGED feed
    BY <1>0, <1>5 DEF Receive, GetTracker, MakeTracker, Match, TakeIds, FeedTypeOK
  <2>2. /\ handler'[h].file = handler[h].file
        /\ \A g \in Handlers : g # h => handler'[g] = handler[g]
    BY <1>0, <1>5, HandlerSteps, Zenon DEF MovedTo
  <2> QED BY <2>1, <2>2 DEF FilesLeft
<1> QED BY <1>1, <1>2, <1>3, <1>4, <1>5 DEF FeedNext, Handle
-----------------------------------------------------------------------------
(* A file is written whole, unless two handlers meet on it.                  *)
LEMMA FileInvInit == FeedInit => FileInv
BY DEF FeedInit, FileInv, HeldWell, WholeOrShared, Idle

LEMMA FileInvStep == FeedTyped /\ FileInv /\ [FeedNext]_feedVars => FileInv'
<1> SUFFICES ASSUME FeedTyped, FileInv, [FeedNext]_feedVars PROVE FileInv'
  OBVIOUS
<1>0. /\ FeedTypeOK /\ NoFile \notin Files
      /\ \A g \in Handlers : handler[g].file \in Files \union {NoFile}
      /\ \A i \in Files : i = NoFile \/ file[i].data \in DataTypes
      /\ \A g \in Handlers : handler[g].file # NoFile <=> handler[g].pc \in {"write", "replace"}
      /\ name.final \in Files \union {NoFile} /\ name.tmp \in Files \union {NoFile}
      /\ \A g \in Handlers : HeldWell(g)
      /\ name.tmp # NoFile => file[name.tmp].by # {}
      /\ WholeOrShared
  BY TypedParts, FrameFacts DEF FeedTypeOK, HandlerTypes, FileTypes, FileInv
<1>1. ASSUME NEW h \in Handlers, NEW t, Opens(h, t) PROVE FileInv'
  <2>1. /\ t \in Files /\ t # NoFile /\ t # name.final /\ name.tmp \in {NoFile, t}
        /\ name'.tmp = t /\ name'.final = name.final
        /\ file'[t].data = Empty /\ file'[t].by = {h} \union Holding(t)
        /\ \A i \in Files : i # t => file'[i] = file[i]
        /\ handler'[h].pc = "write" /\ handler'[h].file = t
        /\ \A g \in Handlers : g # h => handler'[g] = handler[g]
    BY <1>1 DEF Opens, MovedTo
  <2>2. ASSUME NEW g \in Handlers PROVE HeldWell(g)'
    <3>1. CASE g = h
      BY <2>1, <3>1 DEF HeldWell, Alone, Empty
    <3>2. CASE g # h /\ handler[g].file = t
      BY <2>1, <3>2 DEF HeldWell, Alone, Holding
    <3>3. CASE g # h /\ handler[g].file # t
      BY <1>0, <2>1, <3>3 DEF HeldWell, Alone, Holding
    <3> QED BY <3>1, <3>2, <3>3
  <2>3. WholeOrShared'
    BY <1>0, <2>1 DEF WholeOrShared
  <2>4. file'[name'.tmp].by # {}
    BY <2>1
  <2> QED BY <2>2, <2>3, <2>4 DEF FileInv
<1>2. ASSUME NEW h \in Handlers, NEW i, Writes(h, i) PROVE FileInv'
  <2>1. /\ i \in Files /\ i = handler[h].file /\ handler[h].pc = "write" /\ i # NoFile
        /\ handler'[h].pc = "replace" /\ handler'[h].file = i
        /\ \A g \in Handlers : g # h => handler'[g] = handler[g]
        /\ name' = name
        /\ \A j \in Files : file'[j].by = file[j].by /\ (j # i => file'[j] = file[j])
    BY <1>0, <1>2 DEF Writes, MovedTo
  <2>2. file[i].data.kind = "empty" => file'[i].data.kind = "record"
    <3>1. file[i].data.kind = "empty" => file[i].data = Empty
      BY <1>0, <2>1 DEF DataTypes, Empty
    <3> QED BY <1>2, <3>1 DEF Writes, Record
  <2>3. h \in file[i].by
    BY <1>0, <2>1 DEF HeldWell
  <2>4. ASSUME NEW g \in Handlers PROVE HeldWell(g)'
    <3>1. CASE g = h
      BY <1>0, <2>1, <2>2, <3>1 DEF HeldWell, Alone
    <3>2. CASE g # h /\ handler[g].file = i
      BY <1>0, <2>1, <2>3, <3>2 DEF HeldWell, Alone
    <3>3. CASE g # h /\ handler[g].file # i
      BY <1>0, <2>1, <2>4, <3>3 DEF HeldWell, Alone
    <3> QED BY <3>1, <3>2, <3>3
  <2>5. WholeOrShared'
    BY <1>0, <2>1, <2>3 DEF WholeOrShared, HeldWell
  <2>6. name'.tmp # NoFile => file'[name'.tmp].by # {}
    BY <1>0, <2>1 DEF WholeOrShared
  <2> QED BY <2>4, <2>5, <2>6 DEF FileInv
<1>3. ASSUME NEW h \in Handlers, NEW t, Moves(h, t) PROVE FileInv'
  <2>1. /\ t \in Files /\ t = name.tmp /\ t # NoFile /\ handler[h].pc = "replace"
        /\ name'.tmp = NoFile /\ name'.final = t /\ file'[t].by = file[t].by \union {h}
        /\ handler'[h].file = NoFile
        /\ \A g \in Handlers : g # h => handler'[g] = handler[g]
    BY <1>3 DEF Moves, Resting, MovedTo
  <2>2. ASSUME NEW j \in Files, j \in Used(handler', name')
        PROVE  /\ file'[j].data = file[j].data
               /\ file'[j].by = IF j = t THEN file[t].by \union {h} ELSE file[j].by
    BY <1>3, <2>1, <2>2 DEF Moves, Keeps
  <2>3. t \in Used(handler', name')
    BY <2>1 DEF Used
  <2>4. ASSUME NEW g \in Handlers PROVE HeldWell(g)'
    <3>0. SUFFICES ASSUME handler'[g].file # NoFile PROVE HeldWell(g)'
      BY DEF HeldWell
    <3>1. g # h /\ handler'[g] = handler[g]
      BY <2>1, <3>0
    <3>2. PICK j \in Files : j = handler[g].file
      BY <1>0, <3>0, <3>1
    <3>3. j \in Used(handler', name')
      BY <3>1, <3>2 DEF Used
    <3>4. /\ file'[j].data = file[j].data /\ file[j].by \subseteq file'[j].by
          /\ j = t => h \in file'[j].by
      BY <2>2, <3>3
    <3> QED BY <1>0, <2>1, <3>0, <3>1, <3>2, <3>4 DEF HeldWell, Alone
  <2>5. WholeOrShared'
    <3>1. CASE handler[h].file = t
      BY <1>0, <2>1, <2>2, <2>3, <3>1 DEF HeldWell, WholeOrShared, Alone
    <3>2. CASE handler[h].file # t
      <4>1. h \notin file[t].by /\ file[t].by # {}
        BY <1>0, <2>1, <3>2 DEF HeldWell
      <4> QED BY <2>1, <4>1 DEF WholeOrShared
    <3> QED BY <3>1, <3>2
  <2> QED BY <2>1, <2>4, <2>5 DEF FileInv
<1>4. ASSUME Leaves,
             \A g \in Handlers : handler'[g].file # NoFile => handler'[g] = handler[g]
      PROVE  FileInv'
  <2>1. name' = name
    BY <1>4 DEF Leaves
  <2>2. \A j \in Files : j \in Used(handler', name) =>
          file'[j].data = file[j].data /\ file'[j].by = file[j].by
    BY <1>4 DEF Leaves, Keeps
  <2>3. /\ name.tmp \in Used(handler', name) /\ name.final \in Used(handler', name)
        /\ \A g \in Handlers : handler'[g].file \in Used(handler', name)
    BY DEF Used
  <2>4. /\ name.tmp # NoFile => file'[name.tmp].by = file[name.tmp].by
        /\ name.final # NoFile => /\ file'[name.final].data = file[name.final].data
                                  /\ file'[name.final].by = file[name.final].by
    BY <1>0, <2>2, <2>3
  <2>5. ASSUME NEW g \in Handlers PROVE HeldWell(g)'
    <3>0. SUFFICES ASSUME handler'[g].file # NoFile PROVE HeldWell(g)'
      BY DEF HeldWell
    <3>1. /\ handler'[g] = handler[g]
          /\ file'[handler[g].file].data = file[handler[g].file].data
          /\ file'[handler[g].file].by = file[handler[g].file].by
      BY <1>0, <1>4, <2>2, <2>3, <3>0
    <3> QED BY <1>0, <2>1, <2>4, <3>0, <3>1 DEF HeldWell, Alone
  <2> QED BY <1>0, <2>1, <2>4, <2>5 DEF FileInv, WholeOrShared
<1>5. CASE FilesLeft
  BY <1>0, <1>5 DEF FilesLeft, feed, FileInv, HeldWell, WholeOrShared, Alone
<1>6. CASE Crash \/ \E h \in Handlers : ReplaceFails(h)
  <2>1. Leaves
    BY <1>6, LeavesEffect
  <2>2. \A g \in Handlers : handler'[g] \in {handler[g], Idle}
    BY <1>0, <1>6 DEF Crash, ReplaceFails, Dies, FeedTypeOK
  <2> QED BY <1>4, <2>1, <2>2 DEF Idle
<1>7. ASSUME NEW h \in Handlers, OpenTmp(h) \/ Write(h) \/ Replace(h) PROVE FileInv'
  BY <1>1, <1>2, <1>3, <1>7, OpenTmpEffect, WriteEffect, ReplaceEffect
<1> QED BY <1>5, <1>6, <1>7, OthersLeave

(* Two members of by that differ: then Doubled is true.                      *)
LEMMA FileInvWhole == FeedTyped /\ FileInv => FeedWhole
<1> SUFFICES ASSUME FeedTyped, FileInv, name.final # NoFile
             PROVE  file[name.final].data.kind = "record" \/ Doubled(name.final)
  BY DEF FeedWhole
<1>1. FeedTypeOK /\ name.final \in Files
  BY TypedParts DEF FeedTypeOK
<1>2. Doubled(name.final) <=> \E g, h \in file[name.final].by : g # h
  BY <1>1, TwoOrMore
<1> QED BY <1>2 DEF FileInv, WholeOrShared
-----------------------------------------------------------------------------
(* The ids in the records.                                                   *)
LEMMA OwnIdsInit == FeedInit => OwnIdsInv
BY DEF FeedInit, OwnIdsInv, Idle, Busy, Unused, Empty

LEMMA OwnIdsStep == FeedTyped /\ OwnIdsInv /\ [FeedNext]_feedVars => OwnIdsInv'
<1> SUFFICES ASSUME FeedTyped, OwnIdsInv, [FeedNext]_feedVars, ~ overlapped'
             PROVE  OwnIdsInv'
  BY DEF OwnIdsInv
<1>0. FeedTypeOK /\ StepInv /\ NoFile \notin Files
  BY TypedParts, FrameFacts
<1>1. ~ overlapped
  BY <1>0 DEF FeedTypeOK, FeedNext, Ingest, Withdraw, Publish, StoreLatest, Notify,
       RestartIngest, Infer, Break, Crash, Display, Stat, Read, GetExact, GetNewestId,
       GetInstead, Draw, Connect, Skip, Handle, Receive, GetTracker, MakeTracker, Match,
       TakeIds, OpenTmp, Write, Replace, ReplaceFails, AlertsFail, feedVars, tracking
<1>2. /\ \A g, h \in Handlers : Busy(g) /\ Busy(h) => g = h
      /\ \A h \in Handlers : /\ handler[h].own
                             /\ handler[h].pc = "ids" =>
                                  matched[handler[h].tracker] = handler[h].frame
      /\ \A i \in Files : file[i].data.own
  BY <1>1 DEF OwnIdsInv
(* The files. *)
<1>3. \A i \in Files : file'[i].data.own
  <2>1. ASSUME NEW h \in Handlers, OpenTmp(h) PROVE \A i \in Files : file'[i].data.own
    <3>1. Opens(h, Target)
      BY <2>1, OpenTmpEffect
    <3> QED BY <1>2, <3>1 DEF Opens, Empty
  <2>2. ASSUME NEW h \in Handlers, Write(h) PROVE \A i \in Files : file'[i].data.own
    <3>1. Writes(h, handler[h].file)
      BY <2>2, WriteEffect
    <3> QED BY <1>2, <3>1 DEF Writes, Record, Garbled
  <2>3. ASSUME NEW h \in Handlers, Replace(h) PROVE \A i \in Files : file'[i].data.own
    <3>1. Moves(h, name.tmp)
      BY <2>3, ReplaceEffect
    <3> QED BY <1>2, <3>1 DEF Moves, Keeps, Unused, Empty
  <2>4. CASE Crash \/ \E h \in Handlers : ReplaceFails(h)
    <3>1. Leaves
      BY <2>4, LeavesEffect
    <3> QED BY <1>2, <3>1 DEF Leaves, Keeps, Unused, Empty
  <2>5. CASE FilesLeft
    BY <1>2, <2>5 DEF FilesLeft, feed
  <2> QED BY <2>1, <2>2, <2>3, <2>4, <2>5, OthersLeave
(* The handlers: when one of them moves from one step of its message to the  *)
(* next, no other one is at a message.                                       *)
<1>4. ASSUME NEW h \in Handlers, Busy(h),
             \A g \in Handlers : g # h => handler'[g] = handler[g],
             handler'[h].own,
             handler'[h].pc = "ids" => matched'[handler'[h].tracker] = handler'[h].frame
      PROVE  OwnIdsInv'
  <2>1. \A g \in Handlers : g # h => ~ Busy(g)
    BY <1>2, <1>4
  <2>2. \A g \in Handlers : g # h => handler'[g].pc # "ids" /\ ~ Busy(g)'
    BY <1>4, <2>1 DEF Busy
  <2> QED BY <1>2, <1>3, <1>4, <2>2 DEF OwnIdsInv
<1>5. ASSUME NEW h \in Handlers, Resting(h) \/ UNCHANGED handler, UNCHANGED matched
      PROVE  OwnIdsInv'
  <2>1. \A g \in Handlers :
          /\ handler'[g].own
          /\ handler'[g].pc = "ids" => /\ handler'[g].tracker = handler[g].tracker
                                       /\ handler'[g].frame = handler[g].frame
                                       /\ handler[g].pc = "ids"
          /\ Busy(g)' => Busy(g)
    BY <1>2, <1>5 DEF Resting, MovedTo, Busy
  <2> QED BY <1>2, <1>3, <1>5, <2>1 DEF OwnIdsInv
<1>6. CASE Ingest \/ Infer \/ Display \/ UNCHANGED feedVars
  <2>1. UNCHANGED <<handler, matched>>
    BY <1>6 DEF Ingest, Withdraw, Publish, StoreLatest, Notify, RestartIngest, Infer, Display,
                Stat, Read, GetExact, GetNewestId, GetInstead, Draw, feedVars, tracking
  <2> QED BY <1>5, <2>1, FeedAssumption
<1>7. CASE Break
  <2>1. PICK h \in Handlers : /\ h = stream
                              /\ handler' = [handler EXCEPT ![h] = IF Busy(h) THEN @ ELSE Idle]
    BY <1>0, <1>7 DEF Break, FeedTypeOK
  <2>2. UNCHANGED matched
    BY <1>7 DEF Break
  <2>3. CASE Busy(h)
    <3>1. UNCHANGED handler
      BY <1>0, <2>1, <2>3 DEF FeedTypeOK
    <3> QED BY <1>5, <2>2, <3>1
  <2>4. CASE ~ Busy(h)
    <3>1. handler' = [handler EXCEPT ![h] = Idle]
      BY <2>1, <2>4
    <3>2. Resting(h)
      BY <1>0, <3>1, Rests
    <3> QED BY <1>5, <2>2, <3>2
  <2> QED BY <2>3, <2>4
<1>8. CASE Crash
  <2>1. \A h \in Handlers : handler'[h] = Idle
    BY <1>8 DEF Crash
  <2>2. Idle.pc = "idle" /\ Idle.own
    BY DEF Idle
  <2> QED BY <1>3, <2>1, <2>2 DEF OwnIdsInv, Busy
<1>9. ASSUME NEW h \in Handlers,
             Connect(h) \/ Skip(h) \/ AlertsFail(h) \/ Replace(h) \/ ReplaceFails(h)
      PROVE  OwnIdsInv'
  <2>1. UNCHANGED matched /\ (Skip(h) => UNCHANGED handler)
    BY <1>9 DEF Connect, Skip, AlertsFail, Replace, ReplaceFails, tracking
  <2>2. Resting(h) \/ UNCHANGED handler
    BY <1>0, <1>9, <2>1, HandlerSteps
  <2> QED BY <1>5, <2>1, <2>2
<1>10. ASSUME NEW h \in Handlers, Receive(h) PROVE OwnIdsInv'
  <2>1. UNCHANGED matched /\ \A g \in Handlers : ~ Busy(g)
    BY <1>0, <1>10 DEF Receive, FeedTypeOK
  <2>2. /\ \A g \in Handlers : g # h => handler'[g] = handler[g]
        /\ handler'[h].pc = "tracker" /\ handler'[h].own = handler[h].own
    BY <1>0, <1>10, HandlerSteps DEF MovedTo
  <2>3. \A g \in Handlers : g # h => handler'[g].pc # "ids" /\ ~ Busy(g)'
    BY <2>1, <2>2 DEF Busy
  <2> QED BY <1>2, <1>3, <2>2, <2>3 DEF OwnIdsInv
<1>11. ASSUME NEW h \in Handlers, GetTracker(h) \/ MakeTracker(h) \/ OpenTmp(h) \/ Write(h)
       PROVE  OwnIdsInv'
  <2>1. /\ \A g \in Handlers : g # h => handler'[g] = handler[g]
        /\ handler'[h].pc \in {"make", "match", "write", "replace"}
        /\ handler'[h].own = handler[h].own
    BY <1>0, <1>11, HandlerSteps, Zenon DEF MovedTo
  <2>2. Busy(h)
    BY <1>11 DEF GetTracker, MakeTracker, OpenTmp, Write, Busy
  <2> QED BY <1>2, <1>4, <2>1, <2>2
<1>12. ASSUME NEW h \in Handlers, Match(h) PROVE OwnIdsInv'
  <2>1. /\ \A g \in Handlers : g # h => handler'[g] = handler[g]
        /\ handler'[h].own = handler[h].own /\ handler'[h].tracker = handler[h].tracker
        /\ handler'[h].frame = handler[h].frame
    BY <1>0, <1>12, HandlerSteps DEF MovedTo
  <2>2. Busy(h) /\ handler[h].pc = "match"
    BY <1>12 DEF Match, Busy
  <2>3. ~ Sharing(h)
    <3>1. \A g \in Handlers \ {h} : handler[g].pc # "ids"
      BY <1>2, <2>2 DEF Busy
    <3> QED BY <3>1 DEF Sharing
  <2>4. handler[h].tracker \in 1 .. Cardinality(Handlers)
    BY <1>0, <2>2, HandlersFinite DEF FeedTypeOK, HandlerTypes, StepInv
  <2>5. matched'[handler[h].tracker] = handler[h].frame
    BY <1>0, <1>12, <2>3, <2>4 DEF Match, FeedTypeOK
  <2> QED BY <1>2, <1>4, <2>1, <2>2, <2>5
<1>13. ASSUME NEW h \in Handlers, TakeIds(h) PROVE OwnIdsInv'
  <2>1. /\ \A g \in Handlers : g # h => handler'[g] = handler[g]
        /\ handler'[h].own = (matched[handler[h].tracker] = handler[h].frame)
        /\ handler'[h].pc = "alerts"
    BY <1>0, <1>13, HandlerSteps DEF MovedTo
  <2>2. Busy(h) /\ handler[h].pc = "ids"
    BY <1>13 DEF TakeIds, Busy
  <2>3. handler'[h].own
    BY <1>2, <2>1, <2>2
  <2> QED BY <1>4, <2>1, <2>2, <2>3
<1> QED BY <1>6, <1>7, <1>8, <1>9, <1>10, <1>11, <1>12, <1>13 DEF FeedNext, Handle

LEMMA OwnIdsHold == OwnIdsInv => OwnIds
BY DEF OwnIdsInv, OwnIds
-----------------------------------------------------------------------------
(* The ages.                                                                 *)
LEMMA AgeInit == FeedInit => AgeInv /\ AgeHonest
<1> SUFFICES ASSUME FeedInit PROVE AgeInv /\ AgeHonest
  OBVIOUS
<1>1. /\ name.tmp = NoFile /\ viewer.pc = "watch"
      /\ \A i \in Files : file[i].at = 0 /\ clock = 0
  BY DEF FeedInit, Watching, Unused
<1> QED BY <1>1 DEF AgeInv, AgeHonest

LEMMA AgeStep ==
  FeedTyped /\ FileInv /\ AgeInv /\ AgeHonest /\ [FeedNext]_feedVars => AgeInv' /\ AgeHonest'
<1> SUFFICES ASSUME FeedTyped, FileInv, AgeInv, AgeHonest, [FeedNext]_feedVars
             PROVE  AgeInv' /\ AgeHonest'
  OBVIOUS
<1>0. /\ FeedTypeOK /\ NoFile \notin Files /\ clock \in Nat
      /\ \A i \in Files : file[i].at \in Nat
      /\ name.final \in Files \union {NoFile} /\ name.tmp \in Files \union {NoFile}
      /\ viewer.at \in Nat
      /\ viewer.pc = "read" => name.final # NoFile
  BY TypedParts, FrameFacts DEF FeedTypeOK, FileTypes, StepInv
(* The files change and the viewer waits. *)
<1>1. ASSUME NEW h \in Handlers, NEW t, Opens(h, t), UNCHANGED viewer
      PROVE  AgeInv' /\ AgeHonest'
  <2>1. /\ t \in Files /\ t # NoFile /\ t # name.final /\ clock' = clock
        /\ name'.tmp = t /\ name'.final = name.final /\ file'[t].at = clock
        /\ \A i \in Files : i # t => file'[i] = file[i]
    BY <1>1 DEF Opens
  <2>2. \A i \in Files : file'[i].at <= clock'
    BY <1>0, <2>1 DEF AgeInv
  <2>3. name'.final # NoFile => file'[name'.final].at <= file'[name'.tmp].at
    BY <1>0, <2>1 DEF AgeInv
  <2>4. viewer'.pc = "read" /\ ~ viewer'.doubled =>
          /\ viewer'.at <= clock' /\ viewer'.at <= file'[name'.final].at
          /\ viewer'.at <= file'[name'.tmp].at
    BY <1>0, <1>1, <2>1 DEF AgeInv
  <2> QED BY <1>1, <2>2, <2>3, <2>4 DEF AgeInv, AgeHonest
<1>2. ASSUME NEW h \in Handlers, NEW i, Writes(h, i), UNCHANGED viewer
      PROVE  AgeInv' /\ AgeHonest'
  <2>1. /\ i \in Files /\ i = handler[h].file /\ name' = name /\ clock' = clock + 1
        /\ file'[i].at = clock + 1
        /\ \A j \in Files : file'[j].by = file[j].by /\ (j # i => file'[j] = file[j])
    BY <1>2 DEF Writes
  <2>2. \A j \in Files : file'[j].at <= clock' /\ file[j].at <= file'[j].at
    BY <1>0, <2>1 DEF AgeInv
  <2>3. i = name.final => Doubled(name.final)'
    <3>1. ASSUME i = name.final PROVE Doubled(name.final)
      <4>1. h \in file[i].by /\ \E k \in file[i].by : k # h
        <5>1. HeldWell(h) /\ handler[h].file = name.final /\ name.final # NoFile
          BY <1>0, <2>1, <3>1 DEF FileInv
        <5> QED BY <2>1, <3>1, <5>1 DEF HeldWell
      <4> QED BY <1>0, <2>1, <3>1, <4>1, TwoOrMore
    <3> QED BY <2>1, <3>1 DEF Doubled
  <2>4. name.final # NoFile /\ Doubled(name.final) => Doubled(name.final)'
    BY <1>0, <2>1 DEF Doubled
  <2>5. name.tmp # NoFile /\ name.final # NoFile =>
          file'[name.final].at <= file'[name.tmp].at \/ Doubled(name.final)'
    <3>1. CASE i = name.final
      BY <2>3, <3>1
    <3>2. CASE i # name.final
      BY <1>0, <2>1, <2>2, <2>4, <3>2 DEF AgeInv
    <3> QED BY <3>1, <3>2
  <2>6. viewer'.pc = "read" /\ ~ viewer'.doubled =>
          /\ viewer'.at <= clock' /\ viewer'.at <= file'[name.final].at
          /\ name.tmp # NoFile => viewer'.at <= file'[name.tmp].at
    BY <1>0, <1>2, <2>1, <2>2 DEF AgeInv
  <2> QED BY <1>2, <2>1, <2>2, <2>5, <2>6 DEF AgeInv, AgeHonest
<1>3. ASSUME NEW h \in Handlers, NEW t, Moves(h, t), UNCHANGED viewer
      PROVE  AgeInv' /\ AgeHonest'
  <2>1. /\ t \in Files /\ t = name.tmp /\ t # NoFile /\ clock' = clock
        /\ name'.tmp = NoFile /\ name'.final = t
    BY <1>3 DEF Moves
  <2>2. \A i \in Files : file'[i].at <= clock'
    BY <1>0, <1>3, <2>1 DEF Moves, Keeps, Unused, AgeInv
  <2>3. file'[t].at = file[t].at
    <3>1. t \in Used(handler', name')
      BY <2>1 DEF Used
    <3> QED BY <1>3, <2>1, <3>1 DEF Moves, Keeps
  <2> QED BY <1>0, <1>3, <2>1, <2>2, <2>3 DEF AgeInv, AgeHonest
<1>4. ASSUME Leaves, UNCHANGED viewer PROVE AgeInv' /\ AgeHonest'
  <2>1. name' = name /\ clock' = clock
    BY <1>4 DEF Leaves
  <2>2. \A i \in Files : file'[i].at <= clock'
    BY <1>0, <1>4, <2>1 DEF Leaves, Keeps, Unused, AgeInv
  <2>3. ASSUME NEW i \in {name.tmp, name.final}, i # NoFile
        PROVE  file'[i].at = file[i].at /\ file'[i].by = file[i].by
    <3>1. i \in Used(handler', name) /\ i \in Files
      BY <1>0, <2>3 DEF Used
    <3> QED BY <1>4, <3>1 DEF Leaves, Keeps
  <2>4. name.final # NoFile /\ Doubled(name.final) => Doubled(name.final)'
    BY <2>1, <2>3 DEF Doubled
  <2> QED BY <1>0, <1>4, <2>1, <2>2, <2>3, <2>4 DEF AgeInv, AgeHonest
(* The files are as they were. *)
<1>5. ASSUME UNCHANGED feed, viewer'.pc = "watch" \/ UNCHANGED viewer
      PROVE  AgeInv' /\ AgeHonest'
  <2>1. UNCHANGED <<name, file, clock>>
    BY <1>5 DEF feed
  <2> QED BY <1>5, <2>1 DEF AgeInv, AgeHonest, Doubled
<1>6. CASE Stat
  <2>1. UNCHANGED <<name, file, clock>> /\ name.final # NoFile
    BY <1>6 DEF Stat, feed
  <2>2. /\ viewer'.pc = "read" /\ viewer'.at = file[name.final].at
        /\ ~ viewer'.doubled => ~ Doubled(name.final)
    <3>1. viewer' = [viewer EXCEPT !.pc = "read", !.at = file[name.final].at,
                                   !.doubled = Doubled(name.final)]
      BY <1>6 DEF Stat
    <3>2. PICK d : d = Doubled(name.final)
      OBVIOUS
    <3>3. PICK v : v = [viewer EXCEPT !.pc = "read", !.at = file[name.final].at, !.doubled = d]
      OBVIOUS
    <3>4. v.pc = "read" /\ v.at = file[name.final].at /\ v.doubled = d
      BY TypedParts, <3>3 DEF StepInv
    <3> QED BY <3>1, <3>2, <3>3, <3>4
  <2> QED BY <1>0, <2>1, <2>2 DEF AgeInv, AgeHonest, Doubled
<1>7. CASE Read
  <2>1. UNCHANGED <<name, file, clock>> /\ viewer.pc = "read"
    BY <1>7 DEF Read, feed, At
  <2>2. \/ viewer'.pc = "watch"
        \/ /\ viewer'.pc = "exact" /\ viewer'.wrote = file[name.final].at
           /\ viewer'.at = viewer.at /\ viewer'.doubled = viewer.doubled
    BY TypedParts, <1>7 DEF Read, StepInv, Watching
  <2> QED BY <1>0, <2>1, <2>2 DEF AgeInv, AgeHonest, Doubled
<1>8. CASE GetExact \/ GetNewestId \/ GetInstead \/ Draw
  <2>1. UNCHANGED feed
    BY <1>8 DEF GetExact, GetNewestId, GetInstead, Draw
  <2>2. \/ viewer'.pc = "watch"
        \/ /\ viewer.pc \in {"exact", "newest", "instead", "shown"}
           /\ viewer'.pc \in {"newest", "instead", "shown"} /\ viewer'.wrote = viewer.wrote
           /\ viewer'.at = viewer.at /\ viewer'.doubled = viewer.doubled
    <3>1. PICK fr, n : \/ viewer' = Watching
                       \/ /\ viewer.pc \in {"exact", "newest", "instead"}
                          /\ \/ viewer' = [viewer EXCEPT !.pc = "shown", !.shown = fr]
                             \/ viewer' = [viewer EXCEPT !.pc = "newest"]
                             \/ viewer' = [viewer EXCEPT !.pc = "instead", !.latest = n]
      BY <1>8 DEF GetExact, GetNewestId, GetInstead, Draw, Shows, At
    <3>2. CASE viewer' = Watching
      BY <3>2 DEF Watching
    <3>3. CASE viewer' # Watching
      BY TypedParts, <3>1, <3>3 DEF StepInv
    <3> QED BY <3>2, <3>3
  <2> QED BY <1>5, <2>1, <2>2 DEF AgeInv, AgeHonest, Doubled, feed
<1>9. ASSUME NEW h \in Handlers, OpenTmp(h) \/ Write(h) \/ Replace(h)
      PROVE  AgeInv' /\ AgeHonest'
  <2>1. UNCHANGED viewer
    BY <1>9 DEF OpenTmp, Write, Replace
  <2> QED BY <1>1, <1>2, <1>3, <1>9, <2>1, OpenTmpEffect, WriteEffect, ReplaceEffect
<1>10. CASE Crash \/ \E h \in Handlers : ReplaceFails(h)
  <2>1. UNCHANGED viewer
    BY <1>10 DEF Crash, ReplaceFails
  <2> QED BY <1>4, <1>10, <2>1, LeavesEffect
<1>11. CASE FilesLeft /\ ~ Display
  <2>1. UNCHANGED viewer
    BY <1>11 DEF FeedNext, Ingest, Withdraw, Publish, StoreLatest, Notify, RestartIngest, Infer,
         Break, Crash, Connect, Skip, Handle, Receive, GetTracker, MakeTracker, Match,
         TakeIds, OpenTmp, Write, Replace, ReplaceFails, AlertsFail, feedVars
  <2> QED BY <1>5, <1>11, <2>1 DEF FilesLeft
<1> QED BY <1>6, <1>7, <1>8, <1>9, <1>10, <1>11, OthersLeave DEF Display
-----------------------------------------------------------------------------
(* The frames on their way.                                                  *)
LEMMA SeenIn ==
  /\ \A f : f \in Seen <=>
       /\ f # NoFrame
       /\ \/ f \in results \/ f = viewer.rec.frame
          \/ \E s \in Slots : f = slot[s]
          \/ \E h \in Handlers : f = handler[h].frame
          \/ \E i \in Files : f = file[i].data.frame
  /\ \A f : f \in Seen' <=>
       /\ f # NoFrame
       /\ \/ f \in results' \/ f = viewer'.rec.frame
          \/ \E s \in Slots : f = slot'[s]
          \/ \E h \in Handlers : f = handler'[h].frame
          \/ \E i \in Files : f = file'[i].data.frame
BY DEF Seen

LEMMA SeenFrames == FeedTyped => Seen \subseteq Frames
<1> SUFFICES ASSUME FeedTyped, NEW f \in Seen PROVE f \in Frames
  OBVIOUS
<1>1. \A d \in DataTypes : d.frame \in Frames \union {NoFrame}
  BY DEF DataTypes
<1>2. /\ results \subseteq Frames /\ viewer.rec \in DataTypes
      /\ \A s \in Slots : slot[s] \in Frames \union {NoFrame}
      /\ \A h \in Handlers : handler[h].frame \in Frames \union {NoFrame}
      /\ \A i \in Files : file[i].data \in DataTypes
  BY DEF FeedTyped, RingTyped, HandlersTyped, FilesTyped, ViewerTyped, HandlerTypes, FileTypes
<1> QED BY <1>1, <1>2, SeenIn

(* What the handlers have at hand they received.                             *)
LEMMA HandlerFrames ==
  ASSUME FeedTyped, [FeedNext]_feedVars, NEW g \in Handlers
  PROVE  handler'[g].frame \in Seen \union {NoFrame}
<1>0. FeedTypeOK /\ StepInv /\ results \subseteq Seen
      /\ \A h \in Handlers : handler[h].frame \in Seen \union {NoFrame}
  BY TypedParts, FrameFacts, SeenIn DEF FeedTypeOK
<1>1. CASE UNCHANGED handler
  BY <1>0, <1>1
<1>2. CASE Break \/ Crash
  <2>1. handler'[g] \in {handler[g], Idle}
    BY <1>0, <1>2 DEF Break, Crash, FeedTypeOK
  <2> QED BY <1>0, <2>1 DEF Idle
<1>3. ASSUME NEW h \in Handlers, Connect(h) \/ AlertsFail(h) \/ Replace(h) \/ ReplaceFails(h)
      PROVE  handler'[g].frame \in Seen \union {NoFrame}
  <2>1. Resting(h)
    BY <1>0, <1>3, HandlerSteps
  <2> QED BY <1>0, <2>1 DEF Resting, MovedTo
<1>4. ASSUME NEW h \in Handlers, Receive(h)
      PROVE  handler'[g].frame \in Seen \union {NoFrame}
  <2>1. \E f \in results : handler'[h].frame = f
    BY <1>0, <1>4, HandlerSteps DEF MovedTo
  <2>2. \A k \in Handlers : k # h => handler'[k] = handler[k]
    BY <1>0, <1>4, HandlerSteps DEF MovedTo
  <2> QED BY <1>0, <2>1, <2>2
<1>5. ASSUME NEW h \in Handlers,
             GetTracker(h) \/ MakeTracker(h) \/ Match(h) \/ TakeIds(h) \/ OpenTmp(h) \/ Write(h)
      PROVE  handler'[g].frame \in Seen \union {NoFrame}
  <2>1. /\ handler'[h].frame = handler[h].frame
        /\ \A k \in Handlers : k # h => handler'[k] = handler[k]
    BY <1>0, <1>5, HandlerSteps, Zenon DEF MovedTo
  <2> QED BY <1>0, <2>1
<1>6. CASE Ingest \/ Infer \/ Display \/ UNCHANGED feedVars \/ \E h \in Handlers : Skip(h)
  <2>1. UNCHANGED handler
    BY <1>6 DEF Ingest, Withdraw, Publish, StoreLatest, Notify, RestartIngest, Infer, Display,
                Stat, Read, GetExact, GetNewestId, GetInstead, Draw, Skip, feedVars, tracking
  <2> QED BY <1>1, <2>1
<1> QED BY <1>2, <1>3, <1>4, <1>5, <1>6 DEF FeedNext, Handle

(* What is in the files a handler had at hand.                               *)
LEMMA FileFrames ==
  ASSUME FeedTyped, [FeedNext]_feedVars, NEW i \in Files
  PROVE  file'[i].data.frame \in Seen \union {NoFrame}
<1>0. /\ \A j \in Files : file[j].data.frame \in Seen \union {NoFrame}
      /\ \A h \in Handlers : handler[h].frame \in Seen \union {NoFrame}
  BY SeenIn
<1>1. ASSUME NEW h \in Handlers, OpenTmp(h)
      PROVE  file'[i].data.frame \in Seen \union {NoFrame}
  <2>1. Opens(h, Target)
    BY <1>1, OpenTmpEffect
  <2> QED BY <1>0, <2>1 DEF Opens, Empty
<1>2. ASSUME NEW h \in Handlers, Write(h)
      PROVE  file'[i].data.frame \in Seen \union {NoFrame}
  <2>1. Writes(h, handler[h].file)
    BY <1>2, WriteEffect
  <2> QED BY <1>0, <2>1 DEF Writes, Record, Garbled
<1>3. ASSUME NEW h \in Handlers, Replace(h)
      PROVE  file'[i].data.frame \in Seen \union {NoFrame}
  <2>1. Moves(h, name.tmp)
    BY <1>3, ReplaceEffect
  <2> QED BY <1>0, <2>1 DEF Moves, Keeps, Unused, Empty
<1>4. CASE Crash \/ \E h \in Handlers : ReplaceFails(h)
  <2>1. Leaves
    BY <1>4, LeavesEffect
  <2> QED BY <1>0, <2>1 DEF Leaves, Keeps, Unused, Empty
<1>5. CASE FilesLeft
  BY <1>0, <1>5 DEF FilesLeft, feed
<1> QED BY <1>1, <1>2, <1>3, <1>4, <1>5, OthersLeave

(* What the viewer does, field by field.                                     *)
ViewerStays ==
  /\ viewer'.pc = viewer.pc /\ viewer'.rec = viewer.rec
  /\ viewer'.latest = viewer.latest /\ viewer'.shown = viewer.shown

ViewerLooks ==
  /\ viewer'.pc \in {"watch", "read", "exact"}
  /\ viewer'.rec.frame \in Seen \union {NoFrame}

ViewerAsks(from, to) == viewer.pc = from /\ viewer'.pc = to /\ viewer'.rec = viewer.rec

LEMMA ViewerSteps ==
  ASSUME FeedTyped, [FeedNext]_feedVars
  PROVE  \/ ViewerStays /\ ~ Display
         \/ ViewerStays /\ UNCHANGED <<slot, latest, camera, cut>>
         \/ /\ UNCHANGED <<slot, latest, camera, cut>>
            /\ \/ ViewerLooks
               \/ /\ ViewerAsks("exact", "newest") /\ ~ Has(viewer.rec.frame.fid)
               \/ /\ ViewerAsks("exact", "shown") /\ Has(viewer.rec.frame.fid)
                  /\ viewer'.shown = slot[SlotOf(viewer.rec.frame.fid)]
               \/ /\ ViewerAsks("newest", "instead") /\ viewer'.latest = latest
               \/ /\ ViewerAsks("instead", "shown") /\ Has(viewer.latest)
                  /\ viewer'.shown = slot[SlotOf(viewer.latest)]
<1> DEFINE v == viewer
<1>0. /\ v \in [pc : {"watch", "read", "exact", "newest", "instead", "shown"},
                rec : DataTypes, at : Nat, wrote : Nat, doubled : BOOLEAN,
                latest : 0 .. MaxFrames, shown : Frames \union {NoFrame}]
      /\ v.pc = "read" => name.final \in Files
      /\ name.final # NoFile => name.final \in Files
  BY DEF FeedTyped, ViewerTyped, Readable, FilesTyped
<1>1. CASE ~ Display
  <2>1. UNCHANGED viewer
    BY <1>1 DEF FeedNext, Ingest, Withdraw, Publish, StoreLatest, Notify, RestartIngest, Infer,
         Break, Crash, Connect, Skip, Handle, Receive, GetTracker, MakeTracker, Match,
         TakeIds, OpenTmp, Write, Replace, ReplaceFails, AlertsFail, feedVars
  <2> QED BY <1>1, <2>1 DEF ViewerStays
<1>2. Watching.pc = "watch" /\ Watching.rec.frame = NoFrame
  BY DEF Watching, Empty
<1>3. Display => UNCHANGED <<slot, latest, camera, cut>>
  BY DEF Display, Stat, Read, GetExact, GetNewestId, GetInstead, Draw, ring
<1>4. viewer.rec.frame \in Seen \union {NoFrame}
  BY SeenIn
<1>5. CASE Stat
  <2>1. PICK a, d : viewer' = [viewer EXCEPT !.pc = "read", !.at = a, !.doubled = d]
    BY <1>5 DEF Stat
  <2>2. viewer'.pc = "read" /\ viewer'.rec = viewer.rec
    BY <1>0, <2>1
  <2> QED BY <1>3, <1>4, <1>5, <2>2 DEF ViewerLooks, Display
<1>6. CASE Read
  <2>1. file[name.final].data.frame \in Seen \union {NoFrame}
    BY <1>0, <1>6, SeenIn DEF Read, At
  <2>2. PICK d, w : /\ \/ viewer' = [viewer EXCEPT !.pc = "exact", !.rec = d, !.wrote = w]
                       \/ viewer' = Watching
                    /\ d = file[name.final].data
    BY <1>6 DEF Read
  <2>3. CASE viewer' = [viewer EXCEPT !.pc = "exact", !.rec = d, !.wrote = w]
    <3>1. viewer'.pc = "exact" /\ viewer'.rec = d
      BY <1>0, <2>3
    <3> QED BY <1>3, <1>6, <2>1, <2>2, <3>1 DEF ViewerLooks, Display
  <2> QED BY <1>2, <1>3, <1>6, <2>2, <2>3 DEF ViewerLooks, Display
<1>7. CASE Draw
  <2>1. viewer' = Watching
    BY <1>7 DEF Draw
  <2> QED BY <1>2, <1>3, <1>7, <2>1 DEF ViewerLooks, Display
<1>8. ASSUME NEW n, viewer' = Shows(n), NEW from \in {"exact", "instead"}, viewer.pc = from
      PROVE  ViewerAsks(from, "shown") /\ viewer'.shown = slot[SlotOf(n)]
  <2>1. PICK f : f = slot[SlotOf(n)]
    OBVIOUS
  <2>2. viewer' = [viewer EXCEPT !.pc = "shown", !.shown = f]
    BY <1>8, <2>1 DEF Shows
  <2>3. viewer'.pc = "shown" /\ viewer'.shown = f /\ viewer'.rec = viewer.rec
    BY <1>0, <2>2
  <2> QED BY <1>8, <2>1, <2>3 DEF ViewerAsks
<1>9. CASE GetExact
  <2>1. viewer.pc = "exact"
    BY <1>9 DEF GetExact, At
  <2>2. CASE Has(viewer.rec.frame.fid)
    <3>1. viewer' = Shows(viewer.rec.frame.fid)
      BY <1>9, <2>2 DEF GetExact
    <3> QED BY <1>3, <1>8, <1>9, <2>1, <2>2, <3>1 DEF Display
  <2>3. CASE ~ Has(viewer.rec.frame.fid)
    <3>1. viewer' = [viewer EXCEPT !.pc = "newest"]
      BY <1>9, <2>3 DEF GetExact
    <3>2. ViewerAsks("exact", "newest")
      BY <1>0, <2>1, <3>1 DEF ViewerAsks
    <3> QED BY <1>3, <1>9, <2>3, <3>2 DEF Display
  <2> QED BY <2>2, <2>3
<1>10. CASE GetNewestId
  <2>1. viewer.pc = "newest" /\ viewer' = [viewer EXCEPT !.pc = "instead", !.latest = latest]
    BY <1>10 DEF GetNewestId, At
  <2>2. ViewerAsks("newest", "instead") /\ viewer'.latest = latest
    BY <1>0, <2>1 DEF ViewerAsks
  <2> QED BY <1>3, <1>10, <2>2 DEF Display
<1>11. CASE GetInstead
  <2>1. viewer.pc = "instead"
    BY <1>11 DEF GetInstead, At
  <2>2. CASE Has(viewer.latest)
    <3>1. viewer' = Shows(viewer.latest)
      BY <1>11, <2>2 DEF GetInstead
    <3> QED BY <1>3, <1>8, <1>11, <2>1, <2>2, <3>1 DEF Display
  <2>3. CASE ~ Has(viewer.latest)
    <3>1. viewer' = Watching
      BY <1>11, <2>3 DEF GetInstead
    <3> QED BY <1>2, <1>3, <1>11, <3>1 DEF ViewerLooks, Display
  <2> QED BY <2>2, <2>3
<1> QED BY <1>1, <1>5, <1>6, <1>7, <1>9, <1>10, <1>11 DEF Display

(* A frame comes into sight in its slot.                                     *)
LEMMA SeenStep ==
  ASSUME FeedTyped, [FeedNext]_feedVars
  PROVE  /\ ~ Publish => Seen' \subseteq Seen
         /\ Publish => Seen' \subseteq Seen \union {Written}
<1>1. \A h \in Handlers : handler'[h].frame \in Seen \union {NoFrame}
  BY HandlerFrames
<1>2. \A i \in Files : file'[i].data.frame \in Seen \union {NoFrame}
  BY FileFrames
<1>3. viewer'.rec.frame \in Seen \union {NoFrame}
  BY ViewerSteps, SeenIn DEF ViewerStays, ViewerLooks, ViewerAsks
<1>4. \A s \in Slots : slot[s] \in Seen \union {NoFrame}
  BY SeenIn
<1>5. results \subseteq Seen
  BY SeenIn, FrameFacts DEF FeedTyped, RingTyped
<1>6. results' \subseteq Seen
  <2>1. CASE Infer
    <3>1. PICK f \in told :
            LET g == slot[SlotOf(f.fid)] IN
              \/ g.fid = f.fid /\ results' = results \union {g}
              \/ UNCHANGED results
      BY <2>1 DEF Infer
    <3>2. f \in Frames /\ f.fid # 0 /\ SlotOf(f.fid) \in Slots
      BY FrameFacts DEF FeedTyped, RingTyped
    <3>3. slot[SlotOf(f.fid)].fid = f.fid => slot[SlotOf(f.fid)] \in Seen
      BY <1>4, <3>2, FrameFacts
    <3> QED BY <1>5, <3>1, <3>3
  <2>2. CASE ~ Infer
    <3>1. results' \subseteq results
      BY <2>2 DEF FeedNext, Ingest, Withdraw, Publish, StoreLatest, Notify, RestartIngest,
         Break, Crash, Connect, Skip, Handle, Receive, GetTracker, MakeTracker, Match,
         TakeIds, OpenTmp, Write, Replace, ReplaceFails, AlertsFail, Display, Stat, Read,
         GetExact, GetNewestId, GetInstead, Draw, feedVars, ring
    <3> QED BY <1>5, <3>1
  <2> QED BY <2>1, <2>2
<1>7. \A s \in Slots : slot'[s] \in Seen \union {NoFrame} \/ (Publish /\ slot'[s] = Written)
  <2>1. CASE Withdraw \/ Publish
    BY <1>4, <2>1 DEF FeedTyped, RingTyped, Withdraw, Publish
  <2>2. CASE ~ (Withdraw \/ Publish)
    <3>1. UNCHANGED slot
      BY <2>2 DEF FeedNext, Ingest, StoreLatest, Notify, RestartIngest, Infer,
         Break, Crash, Connect, Skip, Handle, Receive, GetTracker, MakeTracker, Match,
         TakeIds, OpenTmp, Write, Replace, ReplaceFails, AlertsFail, Display, Stat, Read,
         GetExact, GetNewestId, GetInstead, Draw, feedVars, ring
    <3> QED BY <1>4, <3>1
  <2> QED BY <2>1, <2>2
<1>8. ASSUME NEW f \in Seen' PROVE f \in Seen \/ (Publish /\ f = Written)
  BY <1>1, <1>2, <1>3, <1>6, <1>7, <1>8, SeenIn
<1> QED BY <1>8

(* A slot only ever loses its frame, or gets one of the life of ingest.      *)
LEMMA NotBeforeKept ==
  ASSUME FeedTyped, [FeedNext]_feedVars, NEW e \in 0 .. camera.epoch, NEW n \in Nat,
         NotBefore(e, n)
  PROVE  NotBefore(e, n)'
<1>0. /\ SlotOf(n) \in Slots /\ NoFrame.fid = 0 /\ Written.epoch = camera.epoch
      /\ slot \in [Slots -> Frames \union {NoFrame}] /\ camera.epoch \in Nat
  BY FrameFacts DEF NoFrame, Written, FeedTyped, RingTyped
<1>1. slot'[SlotOf(n)] \in {slot[SlotOf(n)], NoFrame, Written}
  <2>1. CASE Withdraw \/ Publish
    BY <1>0, <2>1 DEF Withdraw, Publish
  <2>2. CASE ~ (Withdraw \/ Publish)
    <3>1. UNCHANGED slot
      BY <2>2 DEF FeedNext, Ingest, StoreLatest, Notify, RestartIngest, Infer,
         Break, Crash, Connect, Skip, Handle, Receive, GetTracker, MakeTracker, Match,
         TakeIds, OpenTmp, Write, Replace, ReplaceFails, AlertsFail, Display, Stat, Read,
         GetExact, GetNewestId, GetInstead, Draw, feedVars, ring
    <3> QED BY <3>1
  <2> QED BY <2>1, <2>2
<1>2. n # 0 => NoFrame.fid # n
  BY <1>0
<1> QED BY <1>0, <1>1, <1>2 DEF NotBefore

LEMMA CameraSteps ==
  ASSUME FeedTyped
  PROVE  /\ Withdraw => /\ camera'.epoch = camera.epoch /\ camera'.fid = camera.fid + 1
                        /\ camera.pc = "idle" /\ camera'.pc = "write"
         /\ Publish => /\ camera'.epoch = camera.epoch /\ camera'.fid = camera.fid
                       /\ camera.pc = "write" /\ camera'.pc = "latest"
                       /\ slot'[SlotOf(camera.fid)] = Written
                       /\ camera.fid \in Nat \ {0} /\ Written' = Written
         /\ StoreLatest => /\ camera'.epoch = camera.epoch /\ camera'.fid = camera.fid
                           /\ camera.pc = "latest" /\ camera'.pc = "notify"
         /\ Notify => /\ camera'.epoch = camera.epoch /\ camera'.fid = camera.fid
                      /\ camera.pc = "notify" /\ camera'.pc = "idle"
         /\ RestartIngest => /\ camera'.epoch = camera.epoch + 1 /\ camera'.fid = 0
                             /\ camera'.pc = "idle"
<1>1. /\ camera \in [epoch : 0 .. MaxEpoch, fid : 0 .. MaxFrames,
                     pc : {"idle", "write", "latest", "notify"}, total : 0 .. MaxFrames]
      /\ slot \in [Slots -> Frames \union {NoFrame}]
      /\ camera.pc # "idle" => camera.fid >= 1
  BY DEF FeedTyped, RingTyped
<1>2. camera.fid \in Nat /\ SlotOf(camera.fid) \in Slots
  BY <1>1, FrameFacts, FeedAssumption
<1>3. Publish => /\ camera'.epoch = camera.epoch /\ camera'.fid = camera.fid
                 /\ camera.pc = "write" /\ camera'.pc = "latest"
  BY <1>1 DEF Publish
<1>4. Publish => slot'[SlotOf(camera.fid)] = Written
  BY <1>1, <1>2 DEF Publish
<1>5. Publish => Written' = Written
  BY <1>3 DEF Written
<1>6. Withdraw => /\ camera'.epoch = camera.epoch /\ camera'.fid = camera.fid + 1
                  /\ camera.pc = "idle" /\ camera'.pc = "write"
  BY <1>1 DEF Withdraw
<1>7. StoreLatest => /\ camera'.epoch = camera.epoch /\ camera'.fid = camera.fid
                     /\ camera.pc = "latest" /\ camera'.pc = "notify"
  BY <1>1 DEF StoreLatest
<1>8. Notify => /\ camera'.epoch = camera.epoch /\ camera'.fid = camera.fid
                /\ camera.pc = "notify" /\ camera'.pc = "idle"
  BY <1>1 DEF Notify
<1>9. RestartIngest => /\ camera'.epoch = camera.epoch + 1 /\ camera'.fid = 0
                       /\ camera'.pc = "idle"
  BY <1>1 DEF RestartIngest
<1> QED BY <1>1, <1>2, <1>3, <1>4, <1>5, <1>6, <1>7, <1>8, <1>9
-----------------------------------------------------------------------------
(* The picture is not older than its boxes.                                  *)
RingLeft == UNCHANGED <<slot, latest, camera, cut>>

LEMMA RingActions ==
  ASSUME FeedTyped, [FeedNext]_feedVars
  PROVE  RingLeft \/ Withdraw \/ Publish \/ StoreLatest \/ Notify \/ RestartIngest
BY DEF FeedNext, Ingest, Infer, Break, Crash, Connect, Skip, Handle, Receive, GetTracker,
   MakeTracker, Match, TakeIds, OpenTmp, Write, Replace, ReplaceFails, AlertsFail, Display, Stat,
   Read, GetExact, GetNewestId, GetInstead, Draw, feedVars, ring, RingLeft

LEMMA RingFacts ==
  ASSUME FeedTyped
  PROVE  /\ camera.epoch \in Nat /\ camera.fid \in Nat /\ latest \in Nat /\ viewer.latest \in Nat
         /\ \A f \in Seen : f.epoch \in Nat /\ f.fid \in Nat /\ f.fid # 0
         /\ viewer.pc \in {"exact", "newest", "instead", "shown"} => viewer.rec.frame \in Seen
         /\ Written.epoch = camera.epoch /\ Written.fid = camera.fid
         /\ camera.fid >= 1 \/ camera.pc = "idle"
         /\ \A n \in Nat : slot[SlotOf(n)] \in Frames \union {NoFrame}
         /\ \A n \in Nat : n # 0 /\ slot[SlotOf(n)].fid = n => slot[SlotOf(n)] \in Seen
<1>1. \A f \in Seen : f \in Frames
  BY SeenFrames
<1>2. viewer.pc \in {"exact", "newest", "instead", "shown"} => viewer.rec.frame \in Frames
  BY DEF FeedTyped, ViewerTyped, DataTypes
<1>3. viewer.pc \in {"exact", "newest", "instead", "shown"} => viewer.rec.frame \in Seen
  BY <1>2, FrameFacts, SeenIn
<1>4. Written.epoch = camera.epoch /\ Written.fid = camera.fid
  BY DEF Written
<1>5. \A n \in Nat : slot[SlotOf(n)] \in Frames \union {NoFrame} /\ SlotOf(n) \in Slots
  BY FrameFacts DEF FeedTyped, RingTyped
<1>6. \A n \in Nat : n # 0 /\ slot[SlotOf(n)].fid = n => slot[SlotOf(n)] \in Seen
  BY <1>5, FrameFacts, SeenIn
<1>7. /\ camera.epoch \in Nat /\ camera.fid \in Nat /\ latest \in Nat /\ viewer.latest \in Nat
      /\ camera.fid >= 1 \/ camera.pc = "idle"
  BY FeedAssumption DEF FeedTyped, RingTyped, ViewerTyped
<1> QED BY <1>1, <1>3, <1>4, <1>5, <1>6, <1>7, FrameFacts

LEMMA SlotsStep ==
  ASSUME FeedTyped, SlotsInv, [FeedNext]_feedVars
  PROVE  SlotsInv'
<1>1. CASE RingLeft
  BY <1>1 DEF RingLeft, SlotsInv, Written
<1>2. CASE Withdraw
  <2>1. \A s \in Slots : slot'[s] = slot[s] \/ slot'[s] = NoFrame
    BY <1>2 DEF Withdraw, FeedTyped, RingTyped
  <2> QED BY <1>2, <2>1, CameraSteps DEF SlotsInv
<1>3. CASE Publish
  <2>1. \A s \in Slots : slot'[s] = slot[s] \/ (slot'[s] = Written /\ s = SlotOf(camera.fid))
    BY <1>3 DEF Publish, FeedTyped, RingTyped
  <2> QED BY <1>3, <2>1, CameraSteps, RingFacts DEF SlotsInv
<1>4. CASE StoreLatest \/ Notify \/ RestartIngest
  <2>1. slot' = slot /\ camera'.pc # "latest"
    BY <1>4, CameraSteps DEF StoreLatest, Notify, RestartIngest
  <2> QED BY <2>1 DEF SlotsInv
<1> QED BY <1>1, <1>2, <1>3, <1>4, RingActions

LEMMA EpochGrows ==
  ASSUME FeedTyped, [FeedNext]_feedVars
  PROVE  /\ camera.epoch <= camera'.epoch /\ camera'.epoch \in Nat /\ cut \subseteq cut'
         /\ camera'.epoch = camera.epoch \/ RestartIngest
         /\ camera'.epoch = camera.epoch => camera.fid <= camera'.fid /\ camera'.fid \in Nat
         /\ ~ RestartIngest => cut' = cut
<1>1. camera.epoch \in Nat /\ camera.fid \in Nat
  BY RingFacts
<1>2. CASE RingLeft
  BY <1>1, <1>2 DEF RingLeft
<1>3. CASE Withdraw \/ Publish \/ StoreLatest \/ Notify
  BY <1>1, <1>3, CameraSteps DEF Withdraw, Publish, StoreLatest, Notify
<1>4. CASE RestartIngest
  BY <1>1, <1>4, CameraSteps DEF RestartIngest
<1> QED BY <1>2, <1>3, <1>4, RingActions

LEMMA SeenInvStep ==
  ASSUME FeedTyped, SeenInv, [FeedNext]_feedVars
  PROVE  SeenInv'
<1> SUFFICES ASSUME NEW f \in Seen'
             PROVE  f.epoch <= camera'.epoch /\ NotBefore(f.epoch, f.fid)'
  BY DEF SeenInv
<1>0. camera.epoch \in Nat /\ camera'.epoch \in Nat /\ camera.epoch <= camera'.epoch
  BY RingFacts, EpochGrows
<1>1. CASE f \in Seen
  <2>1. f.epoch \in 0 .. camera.epoch /\ f.fid \in Nat /\ NotBefore(f.epoch, f.fid)
    BY <1>0, <1>1, RingFacts DEF SeenInv
  <2> QED BY <1>0, <2>1, NotBeforeKept
<1>2. CASE f \notin Seen
  <2>1. Publish /\ f = Written
    BY <1>2, SeenStep
  <2>2. f.epoch = camera.epoch /\ f.fid = camera.fid /\ slot'[SlotOf(f.fid)] = f
    BY <2>1, RingFacts, CameraSteps
  <2> QED BY <1>0, <2>2 DEF NotBefore
<1> QED BY <1>1, <1>2

(* Behind what was stored before is behind what is stored now.               *)
LEMMA BehindNewest ==
  ASSUME FeedTyped, StoreLatest, NEW e \in 0 .. camera.epoch, StoredIn(e),
         NEW f \in Seen, Behind(f, e, latest)
  PROVE  Behind(f, camera.epoch, camera.fid)
<1>1. /\ camera.epoch \in Nat /\ camera.fid \in Nat /\ latest \in Nat
      /\ f.epoch \in Nat /\ f.fid \in Nat
  BY RingFacts
<1>2. e = camera.epoch => latest <= camera.fid
  BY DEF StoredIn
<1> QED BY <1>1, <1>2 DEF Behind, OlderOrSame

LEMMA NewestInvStep ==
  ASSUME FeedTyped, SlotsInv, NewestInv, [FeedNext]_feedVars
  PROVE  NewestInv'
<1>0. PICK e \in 0 .. camera.epoch : StoredIn(e)
  BY DEF NewestInv
<1>1. /\ camera.epoch \in Nat /\ camera.fid \in Nat /\ latest \in Nat
      /\ camera'.epoch \in Nat /\ camera.epoch <= camera'.epoch
      /\ e \in 0 .. camera'.epoch /\ cut \subseteq cut'
  BY RingFacts, EpochGrows
<1>2. \A f : Behind(f, e, latest) => f \in cut' \/ OlderOrSame(f, [epoch |-> e, fid |-> latest])
  BY <1>1 DEF Behind
(* What the viewer asks the newest for was seen before, in its own slot.     *)
<1>3. At("newest")' =>
        /\ viewer'.rec.frame \in Seen
        /\ \/ At("newest") /\ viewer'.rec = viewer.rec
           \/ RingLeft /\ ~ Pending(viewer'.rec.frame)
  <2>1. SUFFICES ASSUME viewer'.pc = "newest"
                 PROVE  /\ viewer'.rec.frame \in Seen
                        /\ \/ At("newest") /\ viewer'.rec = viewer.rec
                           \/ RingLeft /\ ~ Pending(viewer'.rec.frame)
    BY DEF At
  <2>2. CASE ViewerStays
    BY <2>1, <2>2, RingFacts DEF ViewerStays, At
  <2>3. CASE ~ ViewerStays
    <3>1. /\ viewer.pc = "exact" /\ viewer'.rec = viewer.rec /\ RingLeft
          /\ ~ Has(viewer.rec.frame.fid)
      BY <2>1, <2>3, ViewerSteps DEF ViewerLooks, ViewerAsks, RingLeft
    <3>2. viewer.rec.frame \in Seen /\ viewer.rec.frame.fid # 0
      BY <3>1, RingFacts
    <3>3. ~ Pending(viewer.rec.frame)
      BY <3>1, <3>2, RingFacts DEF Pending, Has, SlotsInv
    <3> QED BY <3>1, <3>2, <3>3
  <2> QED BY <2>2, <2>3
<1>4. CASE StoreLatest
  <2>1. /\ latest' = camera.fid /\ camera'.epoch = camera.epoch /\ camera'.fid = camera.fid
        /\ camera.pc = "latest" /\ slot' = slot /\ cut' = cut /\ UNCHANGED viewer
    BY <1>4, CameraSteps DEF StoreLatest, NewestId
  <2>2. NotBefore(camera.epoch, camera.fid)
    BY <1>1, <2>1, RingFacts DEF SlotsInv, NotBefore
  <2>3. \A f \in Seen : Pending(f) => Behind(f, camera.epoch, camera.fid)
    BY <1>1, RingFacts DEF Pending, Behind, OlderOrSame
  <2>4. \A f \in Seen : Behind(f, camera.epoch, camera.fid)
    BY <1>0, <1>4, <2>3, BehindNewest DEF StoredIn
  <2>5. Seen' \subseteq Seen
    BY <1>4, <2>1, CameraSteps, SeenStep
  <2>6. At("newest") => Behind(viewer.rec.frame, camera.epoch, camera.fid)
    BY <2>4, RingFacts DEF At
  <2>7. PICK d \in Nat, n \in Nat : d = camera.epoch /\ n = camera.fid
    BY <1>1
  <2>8. latest' = n /\ camera'.epoch = d /\ camera'.fid = n
    BY <2>1, <2>7
  <2>9. NotBefore(d, latest)'
    BY <2>1, <2>2, <2>7, <2>8 DEF NotBefore
  <2>10. \A f \in Seen' : Behind(f, d, latest)'
    BY <2>1, <2>4, <2>5, <2>7, <2>8 DEF Behind
  <2>11. At("newest")' => Behind(viewer.rec.frame, d, latest)'
    BY <2>1, <2>6, <2>7, <2>8 DEF Behind, At
  <2>12. StoredIn(d)'
    BY <2>8, <2>9, <2>10, <2>11 DEF StoredIn
  <2> QED BY <2>8, <2>12 DEF NewestInv
<1>5. CASE ~ StoreLatest
  <2>1. latest' = latest
    BY <1>5, RingActions DEF RingLeft, Withdraw, Publish, Notify, RestartIngest
  <2>2. e = camera'.epoch => latest' <= camera'.fid
    <3>1. e = camera'.epoch => camera'.epoch = camera.epoch
      BY <1>0, <1>1
    <3> QED BY <1>0, <1>1, <2>1, <3>1, EpochGrows DEF StoredIn
  <2>3. NotBefore(e, latest)'
    <3>1. PICK n \in Nat : n = latest
      BY <1>1
    <3>2. NotBefore(e, n)'
      BY <1>0, <3>1, NotBeforeKept DEF StoredIn
    <3> QED BY <2>1, <3>1, <3>2 DEF NotBefore
  <2>4. ASSUME NEW f \in Seen' PROVE Pending(f)' \/ Behind(f, e, latest)'
    <3>1. CASE Publish
      <4>1. camera.pc # "latest" /\ camera'.pc = "latest" /\ Written' = Written
        BY <3>1, CameraSteps
      <4>2. f = Written \/ Behind(f, e, latest)
        BY <1>0, <2>4, <3>1, <4>1, SeenStep DEF StoredIn, Pending
      <4> QED BY <1>2, <2>1, <4>1, <4>2 DEF Pending, Behind
    <3>2. CASE ~ Publish
      <4>1. Pending(f) \/ Behind(f, e, latest)
        BY <1>0, <2>4, <3>2, SeenStep DEF StoredIn
      <4>2. Pending(f) => Pending(f)' \/ f \in cut'
        <5>1. CASE RingLeft
          BY <5>1 DEF RingLeft, Pending, Written
        <5>2. CASE RestartIngest
          BY <5>2 DEF RestartIngest, Pending
        <5> QED BY <1>5, <3>2, <5>1, <5>2, RingActions, CameraSteps DEF Pending
      <4> QED BY <1>2, <2>1, <4>1, <4>2 DEF Behind
    <3> QED BY <3>1, <3>2
  <2>5. At("newest")' => Behind(viewer.rec.frame, e, latest)'
    <3>1. ASSUME At("newest")' PROVE Behind(viewer'.rec.frame, e, latest)
      BY <1>0, <1>3, <3>1 DEF StoredIn
    <3> QED BY <1>2, <2>1, <3>1 DEF Behind
  <2>6. StoredIn(e)'
    BY <2>2, <2>3, <2>4, <2>5 DEF StoredIn
  <2> QED BY <1>1, <2>6 DEF NewestInv
<1> QED BY <1>4, <1>5

LEMMA InsteadInvStep ==
  ASSUME FeedTyped, NewestInv, InsteadInv, [FeedNext]_feedVars
  PROVE  InsteadInv'
<1> SUFFICES ASSUME viewer'.pc = "instead" PROVE InsteadInv'
  BY DEF InsteadInv, At
<1>1. /\ camera.epoch \in Nat /\ camera'.epoch \in Nat /\ camera.epoch <= camera'.epoch
      /\ cut \subseteq cut'
  BY RingFacts, EpochGrows
<1>2. PICK n \in Nat, e \in 0 .. camera.epoch :
        n = viewer'.latest /\ NotBefore(e, n) /\ Behind(viewer'.rec.frame, e, n)
  <2>1. CASE ViewerStays
    <3>1. viewer.pc = "instead" /\ viewer'.latest = viewer.latest /\ viewer'.rec = viewer.rec
      BY <2>1 DEF ViewerStays
    <3> QED BY <3>1, RingFacts DEF InsteadInv, At
  <2>2. CASE ~ ViewerStays
    <3>1. viewer.pc = "newest" /\ viewer'.latest = latest /\ viewer'.rec = viewer.rec
      BY <2>2, ViewerSteps DEF ViewerLooks, ViewerAsks
    <3> QED BY <3>1, RingFacts DEF NewestInv, StoredIn, At
  <2> QED BY <2>1, <2>2
<1>3. NotBefore(e, n)'
  BY <1>2, NotBeforeKept
<1>4. PICK f : f = viewer'.rec.frame
  OBVIOUS
<1>6. Behind(f, e, n)'
  BY <1>1, <1>2, <1>4 DEF Behind
<1>5. e \in 0 .. camera'.epoch
  BY <1>1
<1> QED BY <1>2, <1>3, <1>4, <1>5, <1>6 DEF InsteadInv, NotBefore, Behind

LEMMA ShownStep ==
  ASSUME FeedTyped, SeenInv, InsteadInv, ShownNotOlder, [FeedNext]_feedVars
  PROVE  ShownNotOlder'
<1> SUFFICES ASSUME viewer'.pc = "shown"
             PROVE  \/ OlderOrSame(viewer'.rec.frame, viewer'.shown)
                    \/ /\ viewer'.rec.frame \in cut'
                       /\ viewer'.shown.fid # viewer'.rec.frame.fid
  BY DEF ShownNotOlder, At, OlderOrSame
<1>1. CASE ViewerStays
  <2>1. /\ viewer.pc = "shown" /\ viewer'.rec = viewer.rec /\ viewer'.shown = viewer.shown
        /\ cut \subseteq cut'
    BY <1>1, EpochGrows DEF ViewerStays
  <2> QED BY <2>1 DEF ShownNotOlder, At
<1>2. CASE ~ ViewerStays
  <2>1. PICK n \in Nat :
          /\ viewer'.rec = viewer.rec /\ viewer'.shown = slot[SlotOf(n)] /\ Has(n) /\ RingLeft
          /\ viewer.rec.frame \in Seen
          /\ \/ viewer.pc = "exact" /\ n = viewer.rec.frame.fid
             \/ viewer.pc = "instead" /\ n = viewer.latest
    BY <1>2, ViewerSteps, RingFacts DEF ViewerLooks, ViewerAsks, RingLeft
  <2>2. PICK f \in Seen, g \in Frames :
          /\ f = viewer'.rec.frame /\ g = viewer'.shown /\ g.fid = n /\ n # 0
          /\ g = slot[SlotOf(n)]
    BY <2>1, RingFacts, FrameFacts DEF Has
  <2>3. /\ f.epoch \in Nat /\ f.fid \in Nat /\ g.epoch \in Nat /\ g.fid \in Nat
        /\ NotBefore(f.epoch, f.fid)
    BY <2>2, RingFacts, FrameFacts DEF SeenInv
  <2>4. f.fid = n => OlderOrSame(f, g)
    BY <2>2, <2>3 DEF NotBefore, OlderOrSame
  <2>5. CASE viewer.pc = "exact"
    BY <2>1, <2>2, <2>4, <2>5
  <2>6. CASE viewer.pc = "instead"
    <3>1. PICK e \in 0 .. camera.epoch : NotBefore(e, n) /\ Behind(f, e, n)
      BY <2>1, <2>2, <2>6 DEF InsteadInv, At
    <3>2. g.epoch >= e
      BY <2>2, <3>1 DEF NotBefore
    <3>3. OlderOrSame(f, [epoch |-> e, fid |-> n]) => OlderOrSame(f, g)
      BY <2>2, <2>3, <3>1, <3>2, RingFacts DEF OlderOrSame
    <3> QED BY <2>1, <2>2, <2>4, <3>1, <3>3 DEF Behind, RingLeft
  <2> QED BY <2>1, <2>5, <2>6
<1> QED BY <1>1, <1>2
-----------------------------------------------------------------------------
LEMMA RingInit == FeedInit => RingInv
<1> SUFFICES ASSUME FeedInit PROVE RingInv
  OBVIOUS
<1>1. /\ camera.epoch = 0 /\ camera.fid = 0 /\ camera.pc = "idle" /\ latest = 0
      /\ viewer.pc = "watch" /\ viewer.rec.frame = NoFrame
      /\ results = {} /\ \A s \in Slots : slot[s] = NoFrame
      /\ \A h \in Handlers : handler[h].frame = NoFrame
      /\ \A i \in Files : file[i].data.frame = NoFrame
  BY DEF FeedInit, Watching, Idle, Unused, Empty
<1>2. Seen = {}
  BY <1>1, SeenIn
<1>3. StoredIn(0)
  BY <1>1, <1>2 DEF StoredIn, NotBefore, At
<1> QED BY <1>1, <1>2, <1>3
        DEF RingInv, SlotsInv, SeenInv, NewestInv, InsteadInv, ShownNotOlder, At

LEMMA RingStep == FeedTyped /\ RingInv /\ [FeedNext]_feedVars => RingInv'
BY SlotsStep, SeenInvStep, NewestInvStep, InsteadInvStep, ShownStep DEF RingInv
-----------------------------------------------------------------------------
(* Every variable keeps its type.                                            *)
THEOREM FeedTypeCorrect == FeedSpec => []FeedTypeOK
<1>1. FeedTyped => FeedTypeOK
  BY TypedParts
<1> QED BY <1>1, FeedTypedHolds, PTL

(* The picture a browser gets is never older than the frame its boxes were   *)
(* found on, whoever is restarted and however the messages are reordered,    *)
(* but for a frame whose ingest was killed before it counted it: what        *)
(* FrameJoiner.render_bgr takes from the ring, or takes instead.             *)
THEOREM ShownNotOlderHolds == FeedSpec => []ShownNotOlder
<1>1. RingInv => ShownNotOlder
  BY DEF RingInv
<1> QED BY <1>1, FeedTypedHolds, RingInit, RingStep, PTL DEF FeedSpec

LEMMA FileInvHolds == FeedSpec => []FileInv
BY FeedTypedHolds, FileInvInit, FileInvStep, PTL DEF FeedSpec

(* FrameJoiner._feed never shows an age that is less than that of the boxes, *)
(* although it takes the age first and the record after, unless two handlers *)
(* had handled the file.                                                     *)
THEOREM AgeHonestHolds == FeedSpec => []AgeHonest
BY FeedTypedHolds, FileInvHolds, AgeInit, AgeStep, PTL DEF FeedSpec

(* The published file is a whole record with its own ids, unless two         *)
(* handlers met: DetectionPublisher.publish against os.replace of another.   *)
THEOREM FeedRightHolds == FeedSpec => []FeedRight
<1>1. FeedSpec => []OwnIdsInv
  BY FeedTypedHolds, OwnIdsInit, OwnIdsStep, PTL DEF FeedSpec
<1>2. FeedTyped /\ FileInv /\ OwnIdsInv => FeedRight
  BY FileInvWhole, OwnIdsHold DEF FeedRight
<1> QED BY <1>1, <1>2, FeedTypedHolds, FileInvHolds, PTL
-----------------------------------------------------------------------------
(* DetectionFeed: its ring is the store that FrameRing implements.           *)

(* The store as its writer sees it: no call of getFrame takes longer than    *)
(* the step that reads.                                                      *)
NoCalls == [r \in {} |-> NoFrame]

Store == INSTANCE FrameStore WITH Readers <- {}, MaxFrame <- MaxFrames, call <- NoCalls

(* The slot that is being written is withdrawn.                              *)
WithdrawnInv == camera.pc = "write" => slot[SlotOf(camera.fid)] = NoFrame

LEMMA RingMoves ==
  ASSUME FeedTypeOK, [FeedNext]_feedVars, ~ Withdraw, ~ Publish
  PROVE  /\ slot' = slot
         /\ camera'.pc = "write" => camera.pc = "write" /\ camera'.fid = camera.fid
<1>1. CASE StoreLatest \/ Notify \/ RestartIngest
  BY <1>1 DEF StoreLatest, Notify, RestartIngest, FeedTypeOK
<1>2. CASE UNCHANGED <<slot, camera>>
  BY <1>2
<1>3. ASSUME NEW h \in Handlers, Connect(h) \/ Skip(h) \/ Handle(h) \/ AlertsFail(h)
      PROVE  UNCHANGED <<slot, camera>>
  BY <1>3 DEF Connect, Skip, AlertsFail, Handle, Receive, GetTracker, MakeTracker, Match,
              TakeIds, OpenTmp, Write, Replace, ReplaceFails, ring
<1>4. CASE Infer \/ Break \/ Crash \/ Display
  BY <1>2, <1>4 DEF Infer, Break, Crash, Display, Stat, Read, GetExact, GetNewestId,
                    GetInstead, Draw, ring
<1>5. CASE UNCHANGED feedVars
  BY <1>2, <1>5 DEF feedVars, ring
<1> QED BY <1>1, <1>2, <1>3, <1>4, <1>5 DEF FeedNext, Ingest

LEMMA WithdrawnStep == FeedTypeOK /\ WithdrawnInv /\ [FeedNext]_feedVars => WithdrawnInv'
<1> SUFFICES ASSUME FeedTypeOK, WithdrawnInv, [FeedNext]_feedVars PROVE WithdrawnInv'
  OBVIOUS
<1>1. CASE Withdraw
  <2>1. camera'.fid = camera.fid + 1 /\ SlotOf(camera.fid + 1) \in Slots
    BY <1>1, FeedAssumption DEF Withdraw, FeedTypeOK, SlotOf, Slots
  <2> QED BY <1>1, <2>1 DEF Withdraw, FeedTypeOK, WithdrawnInv
<1>2. CASE Publish
  BY <1>2 DEF Publish, FeedTypeOK, WithdrawnInv
<1>3. CASE ~ Withdraw /\ ~ Publish
  BY <1>3, RingMoves DEF WithdrawnInv
<1> QED BY <1>1, <1>2, <1>3

LEMMA StoreStep ==
  FeedTyped /\ WithdrawnInv /\ [FeedNext]_feedVars => [Store!Next]_(Store!vars)
<1> SUFFICES ASSUME FeedTyped, WithdrawnInv, [FeedNext]_feedVars
             PROVE  [Store!Next]_(Store!vars)
  OBVIOUS
<1>0. FeedTypeOK /\ StepInv
  BY TypedParts
<1>1. CASE Withdraw
  <2>1. SlotOf(camera.fid + 1) \in Store!Slots
    BY <1>0, FeedAssumption DEF FeedTypeOK, SlotOf, Store!Slots
  <2>2. Store!MarkAbsent(SlotOf(camera.fid + 1)) = NoCalls
    BY DEF Store!MarkAbsent, NoCalls
  <2>3. NoCalls' = NoCalls
    BY DEF NoCalls
  <2>4. Store!Withdraw(SlotOf(camera.fid + 1))
    BY <1>1, <2>2, <2>3 DEF Withdraw, Store!Withdraw, Store!NoFrame, NoFrame
  <2> QED BY <2>1, <2>4 DEF Store!Next
<1>2. CASE Publish
  <2>1. Written \in Store!Frames
    BY <1>0, <1>2 DEF Publish, FeedTypeOK, StepInv, Written, Store!Frames
  <2>2. Written.fid = camera.fid /\ NoCalls' = NoCalls
    BY DEF Written, NoCalls
  <2>3. Store!Publish(Written)
    BY <1>2, <2>2 DEF Publish, WithdrawnInv, Store!Publish, Store!SlotOf, SlotOf,
                      Store!NoFrame, NoFrame
  <2> QED BY <2>1, <2>3 DEF Store!Next
<1>3. CASE ~ Withdraw /\ ~ Publish
  <2>1. slot' = slot /\ NoCalls' = NoCalls
    BY <1>0, <1>3, RingMoves DEF NoCalls
  <2> QED BY <2>1 DEF Store!vars
<1> QED BY <1>1, <1>2, <1>3

(* Ingest does nothing to the ring of the feed, in any of its lives, that    *)
(* the store does not allow to the writer of writeFrame: a frame appears     *)
(* only in the slot it belongs to, and only after that slot was withdrawn.   *)
THEOREM RingIsStore == FeedSpec => Store!Spec
<1>1. FeedInit => Store!Init
  BY DEF FeedInit, Store!Init, Store!NoFrame, NoFrame, Store!Slots, Slots, NoCalls
<1>2. FeedInit => WithdrawnInv
  BY DEF FeedInit, WithdrawnInv
<1>3. FeedTyped => FeedTypeOK
  BY TypedParts
<1>4. FeedSpec => []WithdrawnInv
  BY <1>2, <1>3, WithdrawnStep, FeedTypedHolds, PTL DEF FeedSpec
<1> QED BY <1>1, <1>4, StoreStep, FeedTypedHolds, PTL DEF FeedSpec, Store!Spec
=============================================================================
