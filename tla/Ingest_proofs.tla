---------------------------- MODULE Ingest_proofs ----------------------------
(***************************************************************************)
(* Proofs about the ingest process: its table of streams in the shared     *)
(* segment (StreamTable), for any number of streams, rows, writers and     *)
(* readers, and any number of crashes; and its cameras, admin calls and    *)
(* shutdown (IngestAdmin), for any number of ids, urls, handlers and       *)
(* reader threads.                                                         *)
(***************************************************************************)
EXTENDS StreamTable, IngestAdmin, FiniteSetTheorems, TLAPS

Claiming(t) == wpc[t] \in {"fill", "publish"}

(* A writer has reserved the row it fills, for itself; the row it writes a   *)
(* frame to is published under its stream.                                   *)
HoldInv ==
  /\ \A t \in Writers :
       /\ wpc[t] # "idle" => wcam[t] \in Cameras
       /\ Claiming(t) => state[wrow[t]] = RESERVED
       /\ wpc[t] = "publish" => id[wrow[t]] = Stored[wcam[t]]
       /\ wpc[t] = "write" => /\ state[wrow[t]] = READY
                              /\ id[wrow[t]] \in {wcam[t], Stored[wcam[t]]}
  /\ \A t, u \in Writers : Claiming(t) /\ Claiming(u) /\ t # u => wrow[t] # wrow[u]

(* A stream that is not doubled has one writer.                              *)
SingleInv ==
  \A t, u \in Writers :
    wpc[t] # "idle" /\ wpc[u] # "idle" /\ t # u /\ wcam[t] = wcam[u] => wcam[t] \in Doubled

(* The rows the only writer of a stream has passed are not the stream's.     *)
PassedInv ==
  \A t \in Writers : wpc[t] # "idle" /\ wcam[t] \notin Doubled =>
    /\ wpc[t] = "find" => \A i \in Row : i < wrow[t] => ~ Registered(i, wcam[t])
    /\ wpc[t] \in {"reserve", "fill", "publish"} => \A i \in Row : ~ Registered(i, wcam[t])

(* A reader's stream that had a row when the call began has one ahead.       *)
AheadInv ==
  \A r \in Readers :
    /\ rpc[r] = "scan" /\ listed[r] => \E i \in Row : i >= rrow[r] /\ Registered(i, rcam[r])
    /\ rpc[r] = "unknown" => ~ listed[r]

TableInv == TypeOK /\ HoldInv /\ AheadInv

(* Every id fits into stream_id.                                             *)
Fits == \A s \in Cameras : Stored[s] = s
-----------------------------------------------------------------------------
LEMMA RowFacts == /\ 1 \in Row /\ Rows \in Row
                  /\ \A i \in Row : i # Rows => i + 1 \in Row
BY TableAssumption DEF Row

LEMMA InitTable == Init => TableInv
<1> SUFFICES ASSUME Init PROVE TableInv
  OBVIOUS
<1> USE TableAssumption, RowFacts DEF Init
<1>1. TypeOK
  BY DEF TypeOK, FREE, RESERVED, READY
<1>2. HoldInv /\ AheadInv
  BY DEF HoldInv, AheadInv, Claiming
<1> QED BY <1>1, <1>2 DEF TableInv

(* Type correctness, one action after the other.                             *)
LEMMA TypeStep == TypeOK /\ HoldInv /\ [Next]_vars => TypeOK'
<1> SUFFICES ASSUME TypeOK, HoldInv, [Next]_vars PROVE TypeOK'
  OBVIOUS
<1> USE TableAssumption, RowFacts DEF TypeOK, table, writers, readers
<1>1. ASSUME NEW t \in Writers, NEW s \in Cameras, Write(t, s) PROVE TypeOK'
  BY <1>1 DEF Write, FirstRow
<1>2. ASSUME NEW t \in Writers, Find(t) PROVE TypeOK'
  BY <1>2 DEF Find
<1>3. ASSUME NEW t \in Writers, Reserve(t) PROVE TypeOK'
  BY <1>3 DEF Reserve, LastRow
<1>4. ASSUME NEW t \in Writers, Fill(t) PROVE TypeOK'
  <2>1. Stored[wcam[t]] \in StoredIds
    BY <1>4 DEF Fill, HoldInv, StoredIds
  <2> QED BY <1>4, <2>1 DEF Fill
<1>5. ASSUME NEW t \in Writers, Publish(t) PROVE TypeOK'
  BY <1>5 DEF Publish
<1>6. ASSUME NEW t \in Writers, Return(t) PROVE TypeOK'
  BY <1>6 DEF Return
<1>7. CASE Crash
  BY <1>7 DEF Crash
<1>8. ASSUME NEW r \in Readers, NEW s \in Cameras, Ask(r, s) PROVE TypeOK'
  BY <1>8 DEF Ask
<1>9. ASSUME NEW r \in Readers, Scan(r) PROVE TypeOK'
  BY <1>9 DEF Scan, ScanEnds
<1>10. CASE UNCHANGED vars
  BY <1>10 DEF vars
<1> QED BY <1>1, <1>2, <1>3, <1>4, <1>5, <1>6, <1>7, <1>8, <1>9, <1>10 DEF Next
-----------------------------------------------------------------------------
LEMMA HoldStep == TypeOK /\ HoldInv /\ [Next]_vars => HoldInv'
<1> SUFFICES ASSUME TypeOK, HoldInv, [Next]_vars PROVE HoldInv'
  OBVIOUS
<1> USE DEF TypeOK, HoldInv, Claiming, table, writers, readers
<1>1. ASSUME NEW t \in Writers, NEW s \in Cameras, Write(t, s) PROVE HoldInv'
  BY <1>1 DEF Write
<1>2. ASSUME NEW t \in Writers, Find(t) PROVE HoldInv'
  BY <1>2 DEF Find, Registered
<1>3. ASSUME NEW t \in Writers, Reserve(t) PROVE HoldInv'
  BY <1>3 DEF Reserve, Reservable, FREE, RESERVED, READY
<1>4. ASSUME NEW t \in Writers, Fill(t) PROVE HoldInv'
  BY <1>4 DEF Fill, RESERVED, READY
<1>5. ASSUME NEW t \in Writers, Publish(t) PROVE HoldInv'
  BY <1>5 DEF Publish, RESERVED, READY
<1>6. ASSUME NEW t \in Writers, Return(t) PROVE HoldInv'
  BY <1>6 DEF Return
<1>7. CASE Crash
  BY <1>7 DEF Crash
<1>8. ASSUME NEW r \in Readers, NEW s \in Cameras, Ask(r, s) PROVE HoldInv'
  BY <1>8 DEF Ask
<1>9. ASSUME NEW r \in Readers, Scan(r) PROVE HoldInv'
  BY <1>9 DEF Scan
<1>10. CASE UNCHANGED vars
  BY <1>10 DEF vars
<1> QED BY <1>1, <1>2, <1>3, <1>4, <1>5, <1>6, <1>7, <1>8, <1>9, <1>10 DEF Next

(* The table only grows: a registered row stays so, and the one step that    *)
(* registers a row is its writer's Publish.                                  *)
LEMMA TableGrows ==
  ASSUME TypeOK, HoldInv, [Next]_vars
  PROVE  /\ \A i \in Row : \A s : Registered(i, s) => Registered(i, s)'
         /\ \A i \in Row : \A s : Registered(i, s)' /\ ~ Registered(i, s) =>
              \E t \in Writers : Publish(t) /\ i = wrow[t] /\ s = Stored[wcam[t]]
<1> USE DEF TypeOK, HoldInv, Claiming, table, writers, readers
<1> DEFINE Grows ==
      /\ \A i \in Row : \A s : Registered(i, s) => Registered(i, s)'
      /\ \A i \in Row : \A s : Registered(i, s)' /\ ~ Registered(i, s) =>
           \E t \in Writers : Publish(t) /\ i = wrow[t] /\ s = Stored[wcam[t]]
<1>1. ASSUME UNCHANGED table PROVE Grows
  BY <1>1 DEF Registered
<1>2. ASSUME NEW t \in Writers, NEW s \in Cameras, Write(t, s) PROVE Grows
  BY <1>1, <1>2 DEF Write
<1>3. ASSUME NEW t \in Writers, Find(t) \/ Return(t) PROVE Grows
  BY <1>1, <1>3 DEF Find, Return
<1>4. ASSUME NEW t \in Writers, Reserve(t) PROVE Grows
  BY <1>4 DEF Reserve, Reservable, Registered, FREE, RESERVED, READY
<1>5. ASSUME NEW t \in Writers, Fill(t) PROVE Grows
  BY <1>5 DEF Fill, Registered, RESERVED, READY
<1>6. ASSUME NEW t \in Writers, Publish(t) PROVE Grows
  <2>1. /\ state' = [state EXCEPT ![wrow[t]] = READY] /\ id' = id
        /\ id[wrow[t]] = Stored[wcam[t]] /\ state[wrow[t]] = RESERVED
    BY <1>6 DEF Publish
  <2>2. \A i \in Row : \A s : Registered(i, s)' /\ ~ Registered(i, s) =>
          i = wrow[t] /\ s = Stored[wcam[t]]
    BY <2>1 DEF Registered
  <2>3. \A i \in Row : \A s : Registered(i, s) => Registered(i, s)'
    BY <2>1 DEF Registered
  <2> QED BY <1>6, <2>2, <2>3
<1>7. CASE Crash
  BY <1>1, <1>7 DEF Crash
<1>8. ASSUME NEW r \in Readers, NEW s \in Cameras, Ask(r, s) PROVE Grows
  BY <1>1, <1>8 DEF Ask
<1>9. ASSUME NEW r \in Readers, Scan(r) PROVE Grows
  BY <1>1, <1>9 DEF Scan
<1>10. CASE UNCHANGED vars
  BY <1>1, <1>10 DEF vars
<1> QED BY <1>2, <1>3, <1>4, <1>5, <1>6, <1>7, <1>8, <1>9, <1>10 DEF Next

LEMMA AheadStep == TableInv /\ [Next]_vars => AheadInv'
<1> SUFFICES ASSUME TableInv, [Next]_vars PROVE AheadInv'
  OBVIOUS
<1>0. TypeOK /\ HoldInv /\ AheadInv
  BY DEF TableInv
<1>1. \A i \in Row : \A s : Registered(i, s) => Registered(i, s)'
  BY <1>0, TableGrows
<1> SUFFICES ASSUME NEW q \in Readers PROVE AheadInv!(q)'
  BY DEF AheadInv
<1>2. ASSUME UNCHANGED readers PROVE AheadInv!(q)'
  BY <1>0, <1>1, <1>2 DEF AheadInv, readers
<1>3. ASSUME NEW t \in Writers, NEW s \in Cameras, Write(t, s) PROVE AheadInv!(q)'
  BY <1>2, <1>3 DEF Write
<1>4. ASSUME NEW t \in Writers,
             Find(t) \/ Reserve(t) \/ Fill(t) \/ Publish(t) \/ Return(t)
      PROVE  AheadInv!(q)'
  BY <1>2, <1>4 DEF Find, Reserve, Fill, Publish, Return
<1>5. CASE Crash
  BY <1>2, <1>5 DEF Crash
<1>6. ASSUME NEW r \in Readers, NEW s \in Cameras, Ask(r, s) PROVE AheadInv!(q)'
  <2>1. CASE q # r
    BY <1>0, <1>1, <1>6, <2>1 DEF Ask, AheadInv, TypeOK
  <2>2. CASE q = r
    <3>1. /\ rpc'[q] = "scan" /\ rcam'[q] = s /\ rrow'[q] = 1
          /\ listed'[q] = \E i \in Row : Registered(i, s)
      BY <1>0, <1>6, <2>2 DEF Ask, TypeOK
    <3>2. \A i \in Row : i >= 1
      BY DEF Row
    <3> QED BY <1>1, <3>1, <3>2
  <2> QED BY <2>1, <2>2
<1>7. ASSUME NEW r \in Readers, Scan(r) PROVE AheadInv!(q)'
  <2>1. CASE q # r
    BY <1>0, <1>1, <1>7, <2>1 DEF Scan, AheadInv, TypeOK
  <2>2. CASE q = r
    <3>1. /\ rpc[q] = "scan" /\ rcam'[q] = rcam[q] /\ listed'[q] = listed[q]
          /\ rrow[q] \in Row
      BY <1>0, <1>7, <2>2 DEF Scan, TypeOK
    <3>2. listed[q] => \E i \in Row : i >= rrow[q] /\ Registered(i, rcam[q])
      BY <1>0, <3>1 DEF AheadInv
    <3>3. CASE Registered(rrow[q], rcam[q])
      <4>1. rpc'[q] = "found"
        BY <1>0, <1>7, <2>2, <3>3 DEF Scan, TypeOK
      <4> QED BY <4>1
    <3>4. CASE ~ Registered(rrow[q], rcam[q]) /\ rrow[q] # Rows
      <4>1. rpc'[q] = "scan" /\ rrow'[q] = rrow[q] + 1
        BY <1>0, <1>7, <2>2, <3>1, <3>4 DEF Scan, ScanEnds, TypeOK
      <4>2. listed[q] => \E i \in Row : i >= rrow[q] + 1 /\ Registered(i, rcam[q])
        <5> SUFFICES ASSUME listed[q]
                     PROVE  \E i \in Row : i >= rrow[q] + 1 /\ Registered(i, rcam[q])
          OBVIOUS
        <5>1. PICK i \in Row : i >= rrow[q] /\ Registered(i, rcam[q])
          BY <3>2
        <5>2. i # rrow[q]
          BY <3>4, <5>1
        <5>3. i >= rrow[q] + 1
          BY <3>1, <5>1, <5>2 DEF Row
        <5> QED BY <5>1, <5>3
      <4> QED BY <1>1, <3>1, <4>1, <4>2
    <3>5. CASE ~ Registered(rrow[q], rcam[q]) /\ rrow[q] = Rows
      <4>1. rpc'[q] = "unknown"
        BY <1>0, <1>7, <2>2, <3>5 DEF Scan, ScanEnds, TypeOK
      <4>2. ~ listed[q]
        <5> SUFFICES ASSUME listed[q] PROVE FALSE
          OBVIOUS
        <5>1. PICK i \in Row : i >= rrow[q] /\ Registered(i, rcam[q])
          BY <3>2
        <5>2. i = Rows
          BY <3>5, <5>1, TableAssumption DEF Row
        <5> QED BY <3>5, <5>1, <5>2
      <4> QED BY <3>1, <4>1, <4>2
    <3> QED BY <3>3, <3>4, <3>5
  <2> QED BY <2>1, <2>2
<1>8. CASE UNCHANGED vars
  BY <1>2, <1>8 DEF vars
<1> QED BY <1>3, <1>4, <1>5, <1>6, <1>7, <1>8 DEF Next

LEMMA TableInvHolds == Spec => []TableInv
<1>1. TableInv /\ [Next]_vars => TableInv'
  BY TypeStep, HoldStep, AheadStep DEF TableInv
<1> QED BY <1>1, InitTable, PTL DEF Spec
-----------------------------------------------------------------------------
LEMMA SingleStep == TypeOK /\ SingleInv /\ [Next]_vars => SingleInv'
<1> SUFFICES ASSUME TypeOK, SingleInv, [Next]_vars PROVE SingleInv'
  OBVIOUS
<1> USE DEF TypeOK, SingleInv, readers, writers
<1>1. ASSUME NEW t \in Writers, NEW s \in Cameras, Write(t, s) PROVE SingleInv'
  BY <1>1 DEF Write
<1>2. ASSUME NEW t \in Writers,
             Find(t) \/ Reserve(t) \/ Fill(t) \/ Publish(t) \/ Return(t)
      PROVE  SingleInv'
  BY <1>2 DEF Find, Reserve, Fill, Publish, Return
<1>3. CASE Crash
  BY <1>3 DEF Crash
<1>4. ASSUME NEW r \in Readers, Scan(r) \/ \E s \in Cameras : Ask(r, s) PROVE SingleInv'
  BY <1>4 DEF Scan, Ask
<1>5. CASE UNCHANGED vars
  BY <1>5 DEF vars
<1> QED BY <1>1, <1>2, <1>3, <1>4, <1>5 DEF Next

(* With ids that fit, a row that appears for a stream is its own writer's:   *)
(* the rows the only writer of a stream has passed stay passed.              *)
LEMMA NewRow ==
  ASSUME Fits, TypeOK, HoldInv, SingleInv, [Next]_vars,
         NEW s \in Cameras, s \notin Doubled, NEW i \in Row,
         Registered(i, s)', ~ Registered(i, s)
  PROVE  \E t \in Writers :
           /\ Publish(t) /\ wpc[t] = "publish" /\ wcam[t] = s /\ wrow[t] = i
           /\ \A u \in Writers : wpc[u] # "idle" /\ wcam[u] = s => u = t
<1>1. PICK t \in Writers : Publish(t) /\ i = wrow[t] /\ s = Stored[wcam[t]]
  BY TableGrows
<1>2. wpc[t] = "publish"
  BY <1>1 DEF Publish
<1>3. wcam[t] = s
  BY <1>1, <1>2 DEF HoldInv, Fits
<1>4. \A u \in Writers : wpc[u] # "idle" /\ wcam[u] = s => u = t
  BY <1>2, <1>3 DEF SingleInv
<1> QED BY <1>1, <1>2, <1>3, <1>4

LEMMA PassedStep ==
  ASSUME Fits, TypeOK, HoldInv, SingleInv, PassedInv, [Next]_vars
  PROVE  PassedInv'
<1> DEFINE Passed(q) == wpc[q] # "idle" /\ wcam[q] \notin Doubled =>
      /\ wpc[q] = "find" => \A i \in Row : i < wrow[q] => ~ Registered(i, wcam[q])
      /\ wpc[q] \in {"reserve", "fill", "publish"} =>
           \A i \in Row : ~ Registered(i, wcam[q])
<1> SUFFICES ASSUME NEW q \in Writers PROVE Passed(q)'
  BY DEF PassedInv
<1>1. Passed(q)
  BY DEF PassedInv
<1>2. ASSUME ~ Publish(q), wpc[q] # "idle", wcam[q] \notin Doubled, NEW i \in Row,
             ~ Registered(i, wcam[q]), wcam'[q] = wcam[q]
      PROVE  ~ Registered(i, wcam[q])'
  <2> DEFINE s == wcam[q]
  <2>1. s \in Cameras /\ s \notin Doubled
    BY <1>2 DEF HoldInv
  <2>2. ASSUME NEW c \in Cameras, c = wcam[q], Registered(i, c)' PROVE FALSE
    <3>1. c \notin Doubled /\ ~ Registered(i, c)
      BY <1>2, <2>2
    <3>2. PICK t \in Writers :
            /\ Publish(t)
            /\ \A u \in Writers : wpc[u] # "idle" /\ wcam[u] = c => u = t
      BY <2>2, <3>1, NewRow
    <3>3. q = t
      BY <1>2, <2>2, <3>2
    <3> QED BY <1>2, <3>2, <3>3
  <2> QED BY <1>2, <2>1, <2>2 DEF Registered
<1>3. ASSUME ~ Publish(q), wpc'[q] = wpc[q], wcam'[q] = wcam[q], wrow'[q] = wrow[q]
      PROVE  Passed(q)'
  BY <1>1, <1>2, <1>3
<1> HIDE DEF Passed
<1> USE DEF TypeOK, writers, readers
<1>4. ASSUME NEW t \in Writers, NEW s \in Cameras, Write(t, s) PROVE Passed(q)'
  <2>1. CASE q # t
    BY <1>3, <1>4, <2>1 DEF Write, Publish
  <2>2. CASE q = t
    <3>1. wpc'[q] = "find" /\ wrow'[q] = 1
      BY <1>4, <2>2 DEF Write, FirstRow
    <3> QED BY <3>1 DEF Passed, Row
  <2> QED BY <2>1, <2>2
<1>5. ASSUME NEW t \in Writers, Find(t) PROVE Passed(q)'
  <2>1. CASE q # t
    BY <1>3, <1>5, <2>1 DEF Find, Publish
  <2>2. CASE q = t
    <3>1. /\ wpc[q] = "find" /\ UNCHANGED table /\ wcam'[q] = wcam[q]
          /\ wrow[q] \in Row
      BY <1>5, <2>2 DEF Find
    <3>2. \A i \in Row : Registered(i, wcam[q])' <=> Registered(i, wcam[q])
      BY <3>1 DEF Registered, table
    <3>3. CASE Registered(wrow[q], wcam[q])
      BY <1>5, <2>2, <3>3 DEF Find, Passed
    <3>4. CASE ~ Registered(wrow[q], wcam[q]) /\ wrow[q] # Rows
      <4>1. wpc'[q] = "find" /\ wrow'[q] = wrow[q] + 1
        BY <1>5, <2>2, <3>4 DEF Find
      <4>2. \A i \in Row : i < wrow[q] + 1 => i < wrow[q] \/ i = wrow[q]
        BY <3>1 DEF Row
      <4> QED BY <1>1, <3>1, <3>2, <3>4, <4>1, <4>2 DEF Passed
    <3>5. CASE ~ Registered(wrow[q], wcam[q]) /\ wrow[q] = Rows
      <4>1. wpc'[q] = "reserve"
        BY <1>5, <2>2, <3>5 DEF Find
      <4>2. \A i \in Row : i < wrow[q] \/ i = wrow[q]
        BY <3>5, TableAssumption DEF Row
      <4> QED BY <1>1, <3>1, <3>2, <3>5, <4>1, <4>2 DEF Passed
    <3> QED BY <3>3, <3>4, <3>5
  <2> QED BY <2>1, <2>2
<1>6. ASSUME NEW t \in Writers, Reserve(t) \/ Fill(t) PROVE Passed(q)'
  <2>1. CASE q # t
    <3>1. ~ Publish(q)
      BY <1>6, <2>1 DEF Reserve, Fill, Publish
    <3> QED BY <1>3, <1>6, <2>1, <3>1 DEF Reserve, Fill
  <2>2. CASE q = t
    <3>1. /\ wpc[q] \in {"reserve", "fill"} /\ wcam'[q] = wcam[q]
          /\ wpc'[q] \in {"reserve", "fill", "publish", "full"}
      BY <1>6, <2>2 DEF Reserve, Fill
    <3>2. ~ Publish(q)
      BY <3>1 DEF Publish
    <3> QED BY <1>1, <1>2, <3>1, <3>2 DEF Passed
  <2> QED BY <2>1, <2>2
<1>7. ASSUME NEW t \in Writers, Publish(t) PROVE Passed(q)'
  <2>1. CASE q # t
    <3>1. ~ Publish(q)
      BY <1>7, <2>1 DEF Publish
    <3> QED BY <1>3, <1>7, <2>1, <3>1 DEF Publish
  <2>2. CASE q = t
    BY <1>7, <2>2 DEF Publish, Passed
  <2> QED BY <2>1, <2>2
<1>8. ASSUME NEW t \in Writers, Return(t) PROVE Passed(q)'
  <2>1. CASE q # t
    BY <1>3, <1>8, <2>1 DEF Return, Publish
  <2>2. CASE q = t
    BY <1>8, <2>2 DEF Return, Passed
  <2> QED BY <2>1, <2>2
<1>9. CASE Crash
  BY <1>9 DEF Crash, Passed
<1>10. ASSUME NEW r \in Readers, Scan(r) \/ \E s \in Cameras : Ask(r, s) PROVE Passed(q)'
  BY <1>3, <1>10 DEF Scan, Ask, Publish
<1>11. CASE UNCHANGED vars
  BY <1>3, <1>11 DEF vars, Publish
<1> QED BY <1>4, <1>5, <1>6, <1>7, <1>8, <1>9, <1>10, <1>11 DEF Next

LEMMA OneRowStep ==
  ASSUME Fits, TypeOK, HoldInv, SingleInv, PassedInv, OneRow, [Next]_vars
  PROVE  OneRow'
<1> SUFFICES ASSUME NEW s \in Cameras, s \notin Doubled, NEW i \in Row, NEW j \in Row,
                    Registered(i, s)', Registered(j, s)'
             PROVE  i = j
  BY DEF OneRow, Fits
<1>1. CASE Registered(i, s) /\ Registered(j, s)
  BY <1>1 DEF OneRow, Fits
<1>2. ASSUME NEW k \in Row, Registered(k, s)', ~ Registered(k, s)
      PROVE  /\ \A l \in Row : ~ Registered(l, s)
             /\ \E t \in Writers :
                  /\ wpc[t] # "idle" /\ wcam[t] = s /\ wrow[t] = k
                  /\ \A u \in Writers : wpc[u] # "idle" /\ wcam[u] = s => u = t
  <2>1. PICK t \in Writers :
          /\ wpc[t] = "publish" /\ wcam[t] = s /\ wrow[t] = k
          /\ \A u \in Writers : wpc[u] # "idle" /\ wcam[u] = s => u = t
    BY <1>2, NewRow
  <2> QED BY <2>1 DEF PassedInv
<1>3. CASE ~ Registered(i, s) \/ ~ Registered(j, s)
  <2>1. ~ Registered(i, s) /\ ~ Registered(j, s)
    BY <1>2, <1>3
  <2>2. PICK t \in Writers :
          /\ wrow[t] = i
          /\ \A u \in Writers : wpc[u] # "idle" /\ wcam[u] = s => u = t
    BY <1>2, <2>1
  <2>3. PICK u \in Writers : wpc[u] # "idle" /\ wcam[u] = s /\ wrow[u] = j
    BY <1>2, <2>1
  <2> QED BY <2>2, <2>3
<1> QED BY <1>1, <1>3

RowInv == SingleInv /\ PassedInv /\ OneRow

LEMMA RowInvHolds == ASSUME Fits PROVE Spec => []RowInv
<1>1. Init => RowInv
  BY DEF RowInv, Init, SingleInv, PassedInv, OneRow, Registered, FREE, READY
<1>2. TableInv /\ RowInv /\ [Next]_vars => RowInv'
  BY SingleStep, PassedStep, OneRowStep DEF TableInv, RowInv
<1> QED BY <1>1, <1>2, TableInvHolds, PTL DEF Spec
-----------------------------------------------------------------------------
(* Type correctness of the table and of everybody who walks over it.         *)
THEOREM TypeCorrect == Spec => []TypeOK
<1>1. TableInv => TypeOK
  BY DEF TableInv
<1> QED BY <1>1, TableInvHolds, PTL

(* A reader is told that its stream is unknown only if it was not in the     *)
(* table when the call began, whatever is reserved, lost or cut off.         *)
THEOREM KnownFoundHolds == Spec => []KnownFound
<1>1. TableInv => KnownFound
  BY DEF TableInv, AheadInv, KnownFound
<1> QED BY <1>1, TableInvHolds, PTL

(* If the ids fit, writers of different streams never write the same row.    *)
THEOREM NoSharedRowHolds == ASSUME Fits PROVE Spec => []NoSharedRow
<1>1. TableInv => NoSharedRow
  <2> SUFFICES ASSUME TableInv, NEW t \in Writers, NEW u \in Writers,
                      wpc[t] \in {"fill", "publish", "write"},
                      wpc[u] \in {"fill", "publish", "write"},
                      wcam[t] # wcam[u], wrow[t] = wrow[u]
               PROVE  FALSE
    BY DEF NoSharedRow
  <2> USE DEF TableInv, HoldInv, Claiming, RESERVED, READY
  <2>1. CASE Claiming(t) /\ Claiming(u)
    BY <2>1
  <2>2. CASE wpc[t] = "write" /\ wpc[u] = "write"
    <3>1. id[wrow[t]] = wcam[t] /\ id[wrow[u]] = wcam[u]
      BY <2>2 DEF Fits
    <3> QED BY <3>1
  <2>3. CASE Claiming(t) /\ wpc[u] = "write"
    BY <2>3
  <2>4. CASE wpc[t] = "write" /\ Claiming(u)
    BY <2>4
  <2> QED BY <2>1, <2>2, <2>3, <2>4
<1> QED BY <1>1, TableInvHolds, PTL

(* If the ids fit, a stream with one writer at a time has one row at most,   *)
(* however often the process that owned it died.                             *)
THEOREM OneRowHolds == ASSUME Fits PROVE Spec => []OneRow
<1>1. RowInv => OneRow
  BY DEF RowInv
<1> QED BY <1>1, RowInvHolds, PTL

(* If the ids fit, no two cameras share a row and none gets a second one.    *)
THEOREM RowsRightHolds == ASSUME Fits PROVE Spec => []RowsRight
<1>1. NoSharedRow /\ OneRow => RowsRight
  BY DEF RowsRight
<1> QED BY <1>1, NoSharedRowHolds, OneRowHolds, PTL
-----------------------------------------------------------------------------
(* StreamTable: "table full" is said only when it is.                        *)

(* The rows that a process which died left reserved.                         *)
Lost == {i \in Row : state[i] = RESERVED /\ \A t \in Writers : Claiming(t) => wrow[t] # i}

LostInv == Cardinality(Lost) <= crashes * Cardinality(Writers)

(* No row that a writer has passed in search of a free one is free, and      *)
(* nobody works for a stream that had no frame.                              *)
PastInv ==
  /\ \A t \in Writers :
       /\ wpc[t] = "reserve" => \A i \in Row : i < wrow[t] => state[i] # FREE
       /\ wpc[t] = "full" => \A i \in Row : state[i] # FREE
       /\ wpc[t] # "idle" => wcam[t] \in written
  /\ \A i \in Row : state[i] = READY => id[i] \in written

(* The rows of a doubled stream can be told apart by the thread that         *)
(* published them: a writer that gets as far as a second one of its own      *)
(* would have found the first.                                               *)
Publishers(by) ==
  /\ \A i, j \in Row : state[i] = READY /\ state[j] = READY /\ id[i] = id[j] /\ by[i] = by[j]
                       /\ id[i] \in Doubled => i = j
  /\ \A t \in Writers : \A i \in Row :
       Registered(i, wcam[t]) /\ by[i] = t =>
         /\ wpc[t] \notin {"reserve", "fill", "publish"}
         /\ wpc[t] = "find" => i >= wrow[t]

ByInv == Writers # {} => \E by \in [Row -> Writers] : Publishers(by)

LEMMA FiniteTable ==
  /\ IsFiniteSet(Row) /\ Cardinality(Row) = Rows
  /\ IsFiniteSet(Lost) /\ Cardinality(Lost) \in Nat /\ Cardinality(Writers) \in Nat
<1>1. IsFiniteSet(Row) /\ Cardinality(Row) = Rows
  BY TableAssumption, FS_Interval DEF Row
<1>2. Lost \subseteq Row
  BY DEF Lost
<1>3. IsFiniteSet(Lost)
  BY <1>1, <1>2, FS_Subset
<1> QED BY <1>1, <1>3, TableAssumption, FS_CardinalityType

LEMMA CrashLoses ==
  ASSUME TypeOK, Crash
  PROVE  IsFiniteSet(Lost') /\ Cardinality(Lost') <= Cardinality(Lost) + Cardinality(Writers)
<1> DEFINE Left == {wrow[t] : t \in Writers}
           f == [t \in Writers |-> wrow[t]]
<1>1. f \in Surjection(Writers, Left)
  BY DEF Surjection
<1>2. IsFiniteSet(Left) /\ Cardinality(Left) <= Cardinality(Writers)
  BY <1>1, TableAssumption, FS_Surjection
<1>3. Lost' \subseteq Lost \union Left
  BY DEF Crash, Lost, table
<1> HIDE DEF Left
<1>4. /\ IsFiniteSet(Lost \union Left)
      /\ Cardinality(Lost \union Left) =
           Cardinality(Lost) + Cardinality(Left) - Cardinality(Lost \cap Left)
  BY <1>2, FiniteTable, FS_Union
<1>5. IsFiniteSet(Lost') /\ Cardinality(Lost') <= Cardinality(Lost \union Left)
  BY <1>3, <1>4, FS_Subset
<1>6. IsFiniteSet(Lost \cap Left)
  BY FiniteTable, FS_Intersection
<1>7. /\ Cardinality(Lost') \in Nat /\ Cardinality(Left) \in Nat
      /\ Cardinality(Lost \cap Left) \in Nat
  BY <1>2, <1>5, <1>6, FS_CardinalityType
<1> QED BY <1>2, <1>4, <1>5, <1>7, FiniteTable

(* Only a crash leaves a row reserved for nobody.                            *)
LEMMA LostStep == TypeOK /\ HoldInv /\ LostInv /\ [Next]_vars => LostInv'
<1> SUFFICES ASSUME TypeOK, HoldInv, LostInv, [Next]_vars PROVE LostInv'
  OBVIOUS
<1> USE DEF TypeOK, HoldInv, Claiming, table, writers, readers
<1>1. ASSUME Lost' \subseteq Lost, crashes' = crashes PROVE LostInv'
  <2>1. IsFiniteSet(Lost') /\ Cardinality(Lost') <= Cardinality(Lost)
    BY <1>1, FiniteTable, FS_Subset
  <2>2. Cardinality(Lost') \in Nat
    BY <2>1, FS_CardinalityType
  <2>3. crashes * Cardinality(Writers) \in Int
    BY FiniteTable, TableAssumption
  <2> QED BY <1>1, <2>1, <2>2, <2>3, FiniteTable DEF LostInv
<1>2. ASSUME NEW t \in Writers, NEW s \in Cameras, Write(t, s) PROVE LostInv'
  <2>1. Lost' \subseteq Lost
    BY <1>2 DEF Write, Lost
  <2> QED BY <1>1, <1>2, <2>1 DEF Write
<1>3. ASSUME NEW t \in Writers, Find(t) \/ Return(t) PROVE LostInv'
  <2>1. Lost' \subseteq Lost
    BY <1>3 DEF Find, Return, Lost
  <2> QED BY <1>1, <1>3, <2>1 DEF Find, Return
<1>4. ASSUME NEW t \in Writers, Reserve(t) PROVE LostInv'
  <2>1. Lost' \subseteq Lost
    BY <1>4 DEF Reserve, Lost
  <2> QED BY <1>1, <1>4, <2>1 DEF Reserve
<1>5. ASSUME NEW t \in Writers, Fill(t) PROVE LostInv'
  <2>1. Lost' \subseteq Lost
    BY <1>5 DEF Fill, Lost
  <2> QED BY <1>1, <1>5, <2>1 DEF Fill
<1>6. ASSUME NEW t \in Writers, Publish(t) PROVE LostInv'
  <2>1. Lost' \subseteq Lost
    BY <1>6 DEF Publish, Lost, RESERVED, READY
  <2> QED BY <1>1, <1>6, <2>1 DEF Publish
<1>7. CASE Crash
  <2>1. Cardinality(Lost') <= Cardinality(Lost) + Cardinality(Writers)
    BY <1>7, CrashLoses
  <2>2. crashes \in Nat /\ crashes' = crashes + 1
    BY <1>7, TableAssumption DEF Crash
  <2>3. (crashes + 1) * Cardinality(Writers) =
          crashes * Cardinality(Writers) + Cardinality(Writers)
    BY <2>2, FiniteTable
  <2>4. Cardinality(Lost') \in Nat
    BY <1>7, CrashLoses, FS_CardinalityType
  <2>5. crashes * Cardinality(Writers) \in Int
    BY <2>2, FiniteTable
  <2>6. Cardinality(Lost') <= (crashes + 1) * Cardinality(Writers)
    BY <2>1, <2>3, <2>4, <2>5, FiniteTable DEF LostInv
  <2> QED BY <2>2, <2>6 DEF LostInv
<1>8. ASSUME UNCHANGED <<table, writers, crashes>> PROVE LostInv'
  <2>1. Lost' \subseteq Lost
    BY <1>8 DEF Lost
  <2> QED BY <1>1, <1>8, <2>1
<1>9. ASSUME NEW r \in Readers, Scan(r) \/ \E s \in Cameras : Ask(r, s) PROVE LostInv'
  BY <1>8, <1>9 DEF Scan, Ask
<1>10. CASE UNCHANGED vars
  BY <1>8, <1>10 DEF vars
<1> QED BY <1>2, <1>3, <1>4, <1>5, <1>6, <1>7, <1>9, <1>10 DEF Next

LEMMA PastStep == Fits /\ TypeOK /\ HoldInv /\ PastInv /\ [Next]_vars => PastInv'
<1> SUFFICES ASSUME Fits, TypeOK, HoldInv, PastInv, [Next]_vars PROVE PastInv'
  OBVIOUS
<1> USE DEF TypeOK, HoldInv, PastInv, Claiming, table, writers, readers
<1>1. ASSUME NEW t \in Writers, NEW s \in Cameras, Write(t, s) PROVE PastInv'
  BY <1>1 DEF Write
<1>2. ASSUME NEW t \in Writers, Find(t) PROVE PastInv'
  <2>1. \A i \in Row : ~ (i < 1)
    BY DEF Row
  <2> QED BY <1>2, <2>1 DEF Find
<1>3. ASSUME NEW t \in Writers, Reserve(t) PROVE PastInv'
  <2>1. \A i \in Row : state'[i] = FREE => state[i] = FREE
    BY <1>3 DEF Reserve, FREE, RESERVED
  <2>2. \A i \in Row : state'[i] = READY => state[i] = READY /\ id'[i] = id[i]
    BY <1>3 DEF Reserve, RESERVED, READY
  <2>3. \A i \in Row : i < wrow[t] + 1 => i < wrow[t] \/ i = wrow[t]
    BY DEF Row
  <2>4. \A i \in Row : i < Rows \/ i = Rows
    BY TableAssumption DEF Row
  <2>5. \A u \in Writers : u # t => wpc'[u] = wpc[u] /\ wrow'[u] = wrow[u]
    BY <1>3 DEF Reserve
  <2>6. wcam' = wcam /\ written' = written /\ wpc[t] = "reserve"
    BY <1>3 DEF Reserve
  <2>7. /\ wpc'[t] = "reserve" => \A i \in Row : i < wrow'[t] => state[i] # FREE
        /\ wpc'[t] = "full" => \A i \in Row : state[i] # FREE
    BY <1>3, <2>3, <2>4 DEF Reserve, Reservable, LastRow
  <2> QED BY <2>1, <2>2, <2>5, <2>6, <2>7
<1>4. ASSUME NEW t \in Writers, Fill(t) PROVE PastInv'
  BY <1>4 DEF Fill, RESERVED, READY
<1>5. ASSUME NEW t \in Writers, Publish(t) PROVE PastInv'
  <2>1. id[wrow[t]] = wcam[t] /\ wcam[t] \in written
    BY <1>5 DEF Publish, Fits
  <2> QED BY <1>5, <2>1 DEF Publish, FREE, READY
<1>6. ASSUME NEW t \in Writers, Return(t) PROVE PastInv'
  BY <1>6 DEF Return
<1>7. CASE Crash
  BY <1>7 DEF Crash
<1>8. ASSUME UNCHANGED <<table, writers, written>> PROVE PastInv'
  BY <1>8
<1>9. ASSUME NEW r \in Readers, Scan(r) \/ \E s \in Cameras : Ask(r, s) PROVE PastInv'
  BY <1>8, <1>9 DEF Scan, Ask
<1>10. CASE UNCHANGED vars
  BY <1>8, <1>10 DEF vars
<1> QED BY <1>1, <1>2, <1>3, <1>4, <1>5, <1>6, <1>7, <1>9, <1>10 DEF Next

LEMMA ByStep == Fits /\ TypeOK /\ HoldInv /\ ByInv /\ [Next]_vars => ByInv'
<1> SUFFICES ASSUME Fits, TypeOK, HoldInv, ByInv, [Next]_vars, Writers # {}
             PROVE  \E b \in [Row -> Writers] : Publishers(b)'
  BY DEF ByInv
<1>0. PICK by \in [Row -> Writers] : Publishers(by)
  BY DEF ByInv
<1> USE DEF TypeOK, HoldInv, Claiming, table, writers, readers
<1> DEFINE Goal == \E b \in [Row -> Writers] : Publishers(b)'
(* A step that registers no row keeps the publishers, if no writer gets to   *)
(* claim a row in spite of one that it published.                            *)
<1>1. ASSUME \A i \in Row : /\ state'[i] = READY <=> state[i] = READY
                            /\ state[i] = READY => id'[i] = id[i],
             \A t \in Writers : \A i \in Row :
               state[i] = READY /\ id[i] = wcam'[t] /\ by[i] = t =>
                 /\ wpc'[t] \notin {"reserve", "fill", "publish"}
                 /\ wpc'[t] = "find" => i >= wrow'[t]
      PROVE  Goal
  <2>1. \A i \in Row : state'[i] = READY => state[i] = READY /\ id'[i] = id[i]
    BY <1>1
  <2>2. \A i, j \in Row :
          state'[i] = READY /\ state'[j] = READY /\ id'[i] = id'[j] /\ by[i] = by[j]
          /\ id'[i] \in Doubled => i = j
    BY <1>0, <2>1 DEF Publishers
  <2>3. \A t \in Writers : \A i \in Row :
          (state'[i] = READY /\ id'[i] = wcam'[t]) /\ by[i] = t =>
            /\ wpc'[t] \notin {"reserve", "fill", "publish"}
            /\ wpc'[t] = "find" => i >= wrow'[t]
    BY <1>1, <2>1
  <2> QED BY <1>0, <2>2, <2>3 DEF Publishers, Registered
<1>2. \A t \in Writers : \A i \in Row :
        state[i] = READY /\ id[i] = wcam[t] /\ by[i] = t =>
          /\ wpc[t] \notin {"reserve", "fill", "publish"}
          /\ wpc[t] = "find" => i >= wrow[t]
  BY <1>0 DEF Publishers, Registered
<1>3. ASSUME NEW t \in Writers, NEW s \in Cameras, Write(t, s) PROVE Goal
  <2>1. \A i \in Row : i >= 1
    BY DEF Row
  <2>2. /\ UNCHANGED table
        /\ wpc'[t] = "find" /\ wrow'[t] = 1
        /\ \A u \in Writers : u # t =>
             wpc'[u] = wpc[u] /\ wcam'[u] = wcam[u] /\ wrow'[u] = wrow[u]
    BY <1>3 DEF Write, FirstRow
  <2> QED BY <1>1, <1>2, <2>1, <2>2
<1>4. ASSUME NEW t \in Writers, Find(t) PROVE Goal
  <2>1. /\ UNCHANGED <<table, wcam>> /\ wpc[t] = "find" /\ wrow[t] \in Row
        /\ \A u \in Writers : u # t => wpc'[u] = wpc[u] /\ wrow'[u] = wrow[u]
    BY <1>4 DEF Find
  <2>2. ASSUME NEW i \in Row, state[i] = READY, id[i] = wcam[t], by[i] = t
        PROVE  /\ wpc'[t] \notin {"reserve", "fill", "publish"}
               /\ wpc'[t] = "find" => i >= wrow'[t]
    <3>1. i >= wrow[t] /\ Registered(i, wcam[t])
      BY <1>2, <2>1, <2>2 DEF Registered
    <3>2. CASE Registered(wrow[t], wcam[t])
      BY <1>4, <3>2 DEF Find
    <3>3. CASE ~ Registered(wrow[t], wcam[t])
      <4>1. i # wrow[t]
        BY <3>1, <3>3
      <4>2. wrow[t] # Rows
        BY <2>1, <3>1, <4>1, TableAssumption DEF Row
      <4>3. wpc'[t] = "find" /\ wrow'[t] = wrow[t] + 1
        BY <1>4, <3>3, <4>2 DEF Find
      <4> QED BY <2>1, <3>1, <4>1, <4>3 DEF Row
    <3> QED BY <3>2, <3>3
  <2> QED BY <1>1, <1>2, <2>1, <2>2
<1>5. ASSUME NEW t \in Writers, Reserve(t) \/ Fill(t) PROVE Goal
  <2>1. \A i \in Row : /\ state'[i] = READY <=> state[i] = READY
                       /\ state[i] = READY => id'[i] = id[i]
    BY <1>5 DEF Reserve, Fill, Reservable, FREE, RESERVED, READY
  <2>2. /\ wcam' = wcam /\ wpc[t] \in {"reserve", "fill"}
        /\ wpc'[t] # "find"
        /\ \A u \in Writers : u # t => wpc'[u] = wpc[u] /\ wrow'[u] = wrow[u]
    BY <1>5 DEF Reserve, Fill
  <2> QED BY <1>1, <1>2, <2>1, <2>2
<1>6. ASSUME NEW t \in Writers, Publish(t) PROVE Goal
  <2>0. PICK k : k = wrow[t]
    OBVIOUS
  <2>1. /\ k \in Row /\ state[k] = RESERVED /\ state' = [state EXCEPT ![k] = READY]
        /\ id' = id /\ wcam' = wcam /\ wrow' = wrow /\ id[k] = wcam[t]
        /\ wpc[t] = "publish" /\ wpc'[t] = "write"
        /\ \A u \in Writers : u # t => wpc'[u] = wpc[u]
    BY <1>6, <2>0 DEF Publish, Fits
  <2>2. PICK b \in [Row -> Writers] : b[k] = t /\ \A i \in Row : i # k => b[i] = by[i]
    <3>1. [by EXCEPT ![k] = t] \in [Row -> Writers]
      BY <1>0
    <3> QED BY <1>0, <2>1, <3>1
  <2>3. \A i \in Row : state'[i] = READY <=> (state[i] = READY \/ i = k)
    BY <2>1
  <2>4. ASSUME NEW i \in Row, NEW j \in Row, state'[i] = READY, state'[j] = READY,
               id'[i] = id'[j], b[i] = b[j], id'[i] \in Doubled
        PROVE  i = j
    <3>1. CASE i # k /\ j # k
      BY <1>0, <2>1, <2>2, <2>3, <2>4, <3>1 DEF Publishers
    <3>2. CASE i = k /\ j # k
      <4>1. state[j] = READY /\ id[j] = wcam[t] /\ by[j] = t
        BY <2>1, <2>2, <2>3, <2>4, <3>2
      <4> QED BY <1>2, <2>1, <4>1
    <3>3. CASE i # k /\ j = k
      <4>1. state[i] = READY /\ id[i] = wcam[t] /\ by[i] = t
        BY <2>1, <2>2, <2>3, <2>4, <3>3
      <4> QED BY <1>2, <2>1, <4>1
    <3> QED BY <3>1, <3>2, <3>3
  <2>5. ASSUME NEW u \in Writers, NEW i \in Row, state'[i] = READY, id'[i] = wcam'[u], b[i] = u
        PROVE  /\ wpc'[u] \notin {"reserve", "fill", "publish"}
               /\ wpc'[u] = "find" => i >= wrow'[u]
    <3>1. CASE u = t
      BY <2>1, <3>1
    <3>2. CASE u # t
      <4>1. i # k /\ state[i] = READY /\ by[i] = u
        BY <2>2, <2>3, <2>5, <3>2
      <4> QED BY <1>2, <2>1, <2>5, <3>2, <4>1
    <3> QED BY <3>1, <3>2
  <2> QED BY <2>4, <2>5 DEF Publishers, Registered
<1>7. ASSUME NEW t \in Writers, Return(t) PROVE Goal
  <2>1. /\ UNCHANGED table /\ wpc'[t] = "idle"
        /\ \A u \in Writers : u # t =>
             wpc'[u] = wpc[u] /\ wcam'[u] = wcam[u] /\ wrow'[u] = wrow[u]
    BY <1>7 DEF Return
  <2> QED BY <1>1, <1>2, <2>1
<1>8. CASE Crash
  <2>1. UNCHANGED table /\ \A u \in Writers : wpc'[u] = "idle"
    BY <1>8 DEF Crash
  <2> QED BY <1>1, <2>1
<1>9. ASSUME UNCHANGED <<table, writers>> PROVE Goal
  BY <1>1, <1>2, <1>9
<1>10. ASSUME NEW r \in Readers, Scan(r) \/ \E s \in Cameras : Ask(r, s) PROVE Goal
  BY <1>9, <1>10 DEF Scan, Ask
<1>11. CASE UNCHANGED vars
  BY <1>9, <1>11 DEF vars
<1> QED BY <1>3, <1>4, <1>5, <1>6, <1>7, <1>8, <1>10, <1>11 DEF Next

(* Every row that is neither free nor lost is held by a writer for a stream, *)
(* and no two rows by the same one, or by two for the same single stream.    *)
LEMMA RowsHeld ==
  ASSUME Fits, TypeOK, HoldInv, SingleInv, PassedInv, OneRow, PastInv, ByInv,
         NEW w \in Writers, \A i \in Row : state[i] # FREE
  PROVE  \E f : f \in Injection(Row \ Lost, ((written \ Doubled) \X {w})
                                              \union ((written \intersect Doubled) \X Writers))
<1>1. PICK by \in [Row -> Writers] : Publishers(by)
  BY DEF ByInv
<1> DEFINE Holder(i, t) ==
             \/ state[i] = READY /\ t = by[i]
             \/ state[i] = RESERVED /\ Claiming(t) /\ wrow[t] = i
<1>2. \A i \in Row \ Lost : \E t \in Writers : Holder(i, t)
  <2> SUFFICES ASSUME NEW i \in Row, i \notin Lost PROVE \E t \in Writers : Holder(i, t)
    OBVIOUS
  <2>1. CASE state[i] = READY
    BY <1>1, <2>1
  <2>2. CASE state[i] = RESERVED
    BY <2>2 DEF Lost
  <2> QED BY <2>1, <2>2 DEF TypeOK
<1> DEFINE h == [i \in Row \ Lost |-> CHOOSE t \in Writers : Holder(i, t)]
           c == [i \in Row \ Lost |-> IF state[i] = READY THEN id[i] ELSE wcam[h[i]]]
           f == [i \in Row \ Lost |-> <<c[i], IF c[i] \in Doubled THEN h[i] ELSE w>>]
           T == ((written \ Doubled) \X {w}) \union ((written \intersect Doubled) \X Writers)
<1>3. \A i \in Row \ Lost : h[i] \in Writers /\ Holder(i, h[i])
  BY <1>2
<1> HIDE DEF h
<1>4. ASSUME NEW i \in Row \ Lost
      PROVE  /\ h[i] \in Writers /\ c[i] \in written
             /\ \/ /\ state[i] = READY /\ h[i] = by[i] /\ c[i] = id[i]
                \/ /\ state[i] = RESERVED /\ Claiming(h[i]) /\ wrow[h[i]] = i
                   /\ c[i] = wcam[h[i]]
  BY <1>3 DEF PastInv, Claiming, RESERVED, READY
<1> HIDE DEF c
<1>5. ASSUME NEW i \in Row \ Lost, NEW j \in Row \ Lost, c[i] = c[j],
             c[i] \in Doubled => h[i] = h[j]
      PROVE  i = j
  <2> USE DEF Claiming
  <2>1. c[i] \in Cameras
    BY <1>4 DEF TypeOK
  <2>2. CASE state[i] = READY /\ state[j] = READY
    <3>1. Registered(i, c[i]) /\ Registered(j, c[i]) /\ h[i] = by[i] /\ h[j] = by[j]
      BY <1>4, <1>5, <2>2 DEF Registered, RESERVED, READY
    <3>2. CASE c[i] \in Doubled
      BY <1>1, <1>5, <3>1, <3>2 DEF Publishers, Registered
    <3>3. CASE c[i] \notin Doubled
      BY <2>1, <3>1, <3>3 DEF OneRow, Fits
    <3> QED BY <3>2, <3>3
  <2>3. ASSUME NEW k \in Row \ Lost, NEW l \in Row \ Lost, c[k] = c[i], c[l] = c[i],
               c[i] \in Doubled => h[k] = h[l], state[k] = READY, state[l] = RESERVED
        PROVE  FALSE
    <3>1. /\ Registered(k, c[i]) /\ h[k] = by[k]
          /\ h[l] \in Writers /\ wpc[h[l]] \in {"fill", "publish"} /\ c[i] = wcam[h[l]]
      BY <1>4, <2>3 DEF Registered, RESERVED, READY
    <3>2. CASE c[i] \in Doubled
      BY <1>1, <2>3, <3>1, <3>2 DEF Publishers
    <3>3. CASE c[i] \notin Doubled
      BY <3>1, <3>3 DEF PassedInv
    <3> QED BY <3>2, <3>3
  <2>4. CASE state[i] = RESERVED /\ state[j] = RESERVED
    <3>1. /\ h[i] \in Writers /\ wpc[h[i]] # "idle" /\ wrow[h[i]] = i /\ c[i] = wcam[h[i]]
          /\ h[j] \in Writers /\ wpc[h[j]] # "idle" /\ wrow[h[j]] = j /\ c[i] = wcam[h[j]]
      BY <1>4, <1>5, <2>4 DEF RESERVED, READY
    <3>2. h[i] = h[j]
      BY <1>5, <3>1 DEF SingleInv
    <3> QED BY <3>1, <3>2
  <2>5. /\ state[i] = READY \/ state[i] = RESERVED
        /\ state[j] = READY \/ state[j] = RESERVED
    BY <1>4
  <2>6. ~ (state[i] = READY /\ state[j] = RESERVED)
    BY <1>5, <2>3
  <2>7. ~ (state[j] = READY /\ state[i] = RESERVED)
    BY <1>5, <2>3
  <2> QED BY <2>2, <2>4, <2>5, <2>6, <2>7
<1>6. \A i \in Row \ Lost : f[i] \in T
  BY <1>4
<1>7. ASSUME NEW i \in Row \ Lost, NEW j \in Row \ Lost, f[i] = f[j] PROVE i = j
  <2>1. c[i] = c[j] /\ (c[i] \in Doubled => h[i] = h[j])
    BY <1>7
  <2> QED BY <1>5, <2>1
<1>8. f \in [Row \ Lost -> T]
  BY <1>6
<1> HIDE DEF f, T
<1>9. f \in Injection(Row \ Lost, T)
  BY <1>7, <1>8 DEF Injection, IsInjective
<1> QED BY <1>9 DEF T

(* So a full table has as many rows as the streams seen, their doubles and   *)
(* the crashes account for.                                                  *)
LEMMA FullCount ==
  ASSUME Fits, TypeOK, HoldInv, SingleInv, PassedInv, OneRow, LostInv, PastInv, ByInv
  PROVE  FullIsHonest
<1> SUFFICES ASSUME NEW w \in Writers, wpc[w] = "full"
             PROVE  Rows <= Cardinality(written)
                              + Cardinality(written \intersect Doubled)
                                  * (Cardinality(Writers) - 1)
                              + crashes * Cardinality(Writers)
  BY DEF FullIsHonest
<1> DEFINE S == written \ Doubled
           D == written \intersect Doubled
<1>1. \A i \in Row : state[i] # FREE
  BY DEF PastInv
<1>2. PICK f : f \in Injection(Row \ Lost, (S \X {w}) \union (D \X Writers))
  BY <1>1, RowsHeld
<1>3. IsFiniteSet(written)
  BY TableAssumption, FS_Subset DEF TypeOK
<1>4. IsFiniteSet(D)
  BY <1>3, FS_Subset
<1>5. IsFiniteSet(S) /\ Cardinality(S) = Cardinality(written) - Cardinality(D)
  BY <1>3, FS_Difference
<1>6. IsFiniteSet({w}) /\ Cardinality({w}) = 1
  BY FS_Singleton
<1> HIDE DEF S, D
<1>7. IsFiniteSet(S \X {w}) /\ Cardinality(S \X {w}) = Cardinality(S) * 1
  BY <1>5, <1>6, FS_Product
<1>8. IsFiniteSet(D \X Writers) /\ Cardinality(D \X Writers) = Cardinality(D) * Cardinality(Writers)
  BY <1>4, TableAssumption, FS_Product
<1>9. /\ IsFiniteSet((S \X {w}) \union (D \X Writers))
      /\ Cardinality((S \X {w}) \union (D \X Writers)) =
           Cardinality(S \X {w}) + Cardinality(D \X Writers)
             - Cardinality((S \X {w}) \intersect (D \X Writers))
  BY <1>7, <1>8, FS_Union
<1>10. IsFiniteSet((S \X {w}) \intersect (D \X Writers))
  BY <1>7, FS_Subset
<1>11. /\ IsFiniteSet(Row \ Lost)
       /\ Cardinality(Row \ Lost) <= Cardinality((S \X {w}) \union (D \X Writers))
  BY <1>2, <1>9, FS_Injection
<1>12. Cardinality(Row \ Lost) = Rows - Cardinality(Lost)
  <2>1. Row \intersect Lost = Lost
    BY DEF Lost
  <2> QED BY <2>1, FiniteTable, FS_Difference
<1> DEFINE n == Cardinality(written)
           d == Cardinality(D)
           m == Cardinality(Writers)
           both == Cardinality((S \X {w}) \intersect (D \X Writers))
<1>13. n \in Nat /\ d \in Nat /\ m \in Nat /\ both \in Nat /\ crashes \in Nat
  BY <1>3, <1>4, <1>10, FiniteTable, TableAssumption, FS_CardinalityType DEF TypeOK
<1>14. Rows - Cardinality(Lost) <= (n - d) * 1 + d * m - both
  BY <1>5, <1>7, <1>8, <1>9, <1>11, <1>12
<1>15. Cardinality(Lost) <= crashes * m
  BY DEF LostInv
<1> HIDE DEF n, d, m, both
<1>16. d * (m - 1) = d * m - d /\ d * m \in Int /\ crashes * m \in Int
  BY <1>13
<1>17. Rows <= n + d * (m - 1) + crashes * m
  BY <1>13, <1>14, <1>15, <1>16, FiniteTable, TableAssumption
<1> QED BY <1>17 DEF n, d, m, D

LEMMA InitFull == Init => LostInv /\ PastInv /\ ByInv
<1> SUFFICES ASSUME Init PROVE LostInv /\ PastInv /\ ByInv
  OBVIOUS
<1> USE DEF Init, FREE, RESERVED, READY
<1>1. LostInv
  <2>1. Lost = {}
    BY DEF Lost
  <2> QED BY <2>1, FS_EmptySet, FiniteTable DEF LostInv
<1>2. PastInv
  BY DEF PastInv
<1>3. ByInv
  <2> SUFFICES ASSUME NEW w \in Writers PROVE \E by \in [Row -> Writers] : Publishers(by)
    BY DEF ByInv
  <2>1. PICK by \in [Row -> Writers] : by = [i \in Row |-> w]
    OBVIOUS
  <2>2. Publishers(by)
    BY DEF Publishers, Registered
  <2> QED BY <2>2
<1> QED BY <1>1, <1>2, <1>3

(* If the ids fit, "table full" is said only when the streams seen, a row    *)
(* more per writer for those that are doubled, and the rows that crashes     *)
(* left reserved come to the size of the table.                              *)
THEOREM FullIsHonestHolds == ASSUME Fits PROVE Spec => []FullIsHonest
<1> DEFINE FullInv == LostInv /\ PastInv /\ ByInv
<1>1. Init => FullInv
  BY InitFull
<1>2. TableInv /\ FullInv /\ [Next]_vars => FullInv'
  BY LostStep, PastStep, ByStep DEF TableInv
<1>3. TableInv /\ RowInv /\ FullInv => FullIsHonest
  BY FullCount DEF TableInv, RowInv
<1> QED BY <1>1, <1>2, <1>3, TableInvHolds, RowInvHolds, PTL DEF Spec

(* If the ids fit, a call that fails says what is so: the writer's "table    *)
(* full" and the reader's "unknown stream".                                  *)
THEOREM FailuresHonestHolds == ASSUME Fits PROVE Spec => []FailuresHonest
<1>1. KnownFound /\ FullIsHonest => FailuresHonest
  BY DEF FailuresHonest
<1> QED BY <1>1, KnownFoundHolds, FullIsHonestHolds, PTL
-----------------------------------------------------------------------------
(* IngestAdmin: who owns a reader.                                           *)

LiveSteps == {"head", "opening", "pump", "reading", "publish", "gone"}

USE DEF Waiting, Scope, Serving

(* What a call carries at each of its steps.                                 *)
CallInv ==
  \A h \in Handlers :
    /\ call[h].at = "idle" => call[h] = NoCall
    /\ call[h].at \notin {"idle", "list", "listing"} => call[h].id \in Ids
    /\ call[h].at \in {"add", "adding"} => call[h].url \in Urls
    /\ call[h].reader # None <=> call[h].at \in {"flag", "join"}

(* mtx_ has one holder, and what that one looked up is still so when it acts *)
(* on it.                                                                    *)
SectionInv ==
  /\ \A g, h \in Handlers : call[g].at \in Scope /\ call[h].at \in Scope => g = h
  /\ main = "sampling" => \A h \in Handlers : call[h].at \notin Scope
  /\ \A h \in Handlers :
       /\ call[h].at \in {"adding", "starting", "taking"} => call[h].found = active[call[h].id]
       /\ call[h].at = "starting" => call[h].url = known[call[h].id]

(* The main thread moves the readers out of active_ when the calls are over, *)
(* and no call starts after that.                                            *)
MainInv ==
  /\ main \in Serving \cup {"drain"} => leaving = {}
  /\ main \in {"stop", "join", "exit"} =>
       (\A h \in Handlers : call[h] = NoCall) /\ (\A i \in Ids : active[i] = None)
  /\ main = "exit" => leaving = {}

(* The three places that may own a reader do not share one, and together     *)
(* they own exactly those that live.                                         *)
OwnInv ==
  /\ \A i, j \in Ids : active[i] = active[j] /\ active[i] # None => i = j
  /\ \A g, h \in Handlers : call[g].reader = call[h].reader /\ call[g].reader # None => g = h
  /\ \A i \in Ids, h \in Handlers : active[i] # None => active[i] # call[h].reader
  /\ \A i \in Ids : active[i] \notin leaving
  /\ \A h \in Handlers : call[h].reader \notin leaving
  /\ \A t \in Threads :
       /\ ~ Live(t) => reader[t] = NoReader
       /\ Live(t) <=> \/ \E i \in Ids : active[i] = t
                      \/ \E h \in Handlers : call[h].reader = t
                      \/ t \in leaving

AdminInv == AdminTypeOK /\ CallInv /\ MainInv /\ OwnInv /\ UrlAgrees

LEMMA InitAdmin == AdminInit => AdminInv
<1> SUFFICES ASSUME AdminInit PROVE AdminInv
  OBVIOUS
<1> USE IngestAssumption DEF AdminInit
<1>1. AdminTypeOK
  BY DEF AdminTypeOK, Live, NoReader, NoCall
<1>2. CallInv /\ MainInv
  BY DEF CallInv, MainInv, NoCall
<1>3. OwnInv
  BY DEF OwnInv, Live, NoReader, NoCall
<1>4. UrlAgrees
  BY DEF UrlAgrees
<1> QED BY <1>1, <1>2, <1>3, <1>4 DEF AdminInv

(* A thread that serves a call and holds no reader leaves one to spawn: the  *)
(* others and the cameras cannot own them all.                               *)
LEMMA RoomToSpawn ==
  ASSUME AdminInv, NEW h \in Handlers, call[h].at # "idle", call[h].reader = None
  PROVE  FreeThread \in Threads /\ reader[FreeThread] = NoReader
<1> USE IngestAssumption
<1>1. leaving = {}
  <2>1. call[h] # NoCall
    BY DEF NoCall
  <2> QED BY <2>1 DEF AdminInv, MainInv, AdminTypeOK
<1>2. \E t \in Threads : ~ Live(t)
  <2> SUFFICES ASSUME \A t \in Threads : Live(t) PROVE FALSE
    OBVIOUS
  <2> DEFINE Hs == Handlers \ {h}
             A  == {active[i] : i \in Ids}
             B  == {call[g].reader : g \in Hs}
             fa == [i \in Ids |-> active[i]]
             fb == [g \in Hs |-> call[g].reader]
  <2>1. Threads \subseteq A \union B
    <3> SUFFICES ASSUME NEW t \in Threads PROVE t \in A \union B
      OBVIOUS
    <3>1. \/ \E i \in Ids : active[i] = t
          \/ \E g \in Handlers : call[g].reader = t
      BY <1>1 DEF AdminInv, OwnInv
    <3> QED BY <3>1
  <2>2. IsFiniteSet(Hs) /\ Cardinality(Hs) = Cardinality(Handlers) - 1
    BY FS_RemoveElement
  <2>3. fa \in Surjection(Ids, A)
    BY DEF Surjection
  <2>4. fb \in Surjection(Hs, B)
    BY DEF Surjection
  <2>5. IsFiniteSet(A) /\ Cardinality(A) <= Cardinality(Ids)
    BY <2>3, FS_Surjection
  <2>6. IsFiniteSet(B) /\ Cardinality(B) <= Cardinality(Hs)
    BY <2>2, <2>4, FS_Surjection
  <2> HIDE DEF A, B, Hs, fa, fb
  <2>7. /\ IsFiniteSet(A \union B)
        /\ Cardinality(A \union B) = Cardinality(A) + Cardinality(B) - Cardinality(A \cap B)
    BY <2>5, <2>6, FS_Union
  <2>8. Cardinality(Threads) <= Cardinality(A \union B)
    BY <2>1, <2>7, FS_Subset
  <2>9. IsFiniteSet(A \cap B)
    BY <2>5, FS_Intersection
  <2>10. /\ Cardinality(A) \in Nat /\ Cardinality(B) \in Nat /\ Cardinality(A \cap B) \in Nat
         /\ Cardinality(Ids) \in Nat /\ Cardinality(Handlers) \in Nat
         /\ Cardinality(Hs) \in Nat /\ Cardinality(Threads) \in Nat
    BY <2>2, <2>5, <2>6, <2>9, FS_CardinalityType
  <2> QED BY <2>2, <2>5, <2>6, <2>7, <2>8, <2>10
<1>3. \E t \in Threads : reader[t] = NoReader
  BY <1>2 DEF AdminInv, OwnInv
<1> QED BY <1>3 DEF FreeThread

CallTypes ==
  [at : {"idle", "flag", "join"} \cup Waiting \cup Scope,
   op : {"add", "start", "stop", "remove", "list", None},
   id : Ids \cup {None}, url : Urls \cup {None},
   found : Threads \cup {None}, reader : Threads \cup {None}]

ReaderTypes ==
  [at : LiveSteps \cup {"none"}, id : Ids \cup {None}, url : Urls \cup {None},
   running : BOOLEAN]

LEMMA CallFacts ==
  ASSUME AdminInv, NEW h \in Handlers
  PROVE  /\ call[h] \in CallTypes
         /\ call[h].at # "idle" => main \in Serving \cup {"drain"} /\ leaving = {}
         /\ call[h].reader = None <=> call[h].at \notin {"flag", "join"}
         /\ AfterStop(h) \in CallTypes /\ AfterStop(h).reader = None
         /\ AfterStop(h).at \in {"idle", "erase"}
         /\ AfterStop(h).at = "idle" => AfterStop(h) = NoCall
         /\ AfterStop(h).at # "idle" => AfterStop(h).id = call[h].id
<1>1. call[h] \in CallTypes
  BY DEF AdminInv, AdminTypeOK, CallTypes
<1>2. call[h].at # "idle" => main \in Serving \cup {"drain"} /\ leaving = {}
  BY DEF AdminInv, AdminTypeOK, MainInv, NoCall
<1>3. call[h].reader = None <=> call[h].at \notin {"flag", "join"}
  BY DEF AdminInv, CallInv
<1> QED BY <1>1, <1>2, <1>3 DEF AfterStop, CallTypes, NoCall

(* A call that owns no reader before and after a step disturbs nothing; a    *)
(* camera may be forgotten meanwhile.                                        *)
LEMMA CallMoves ==
  ASSUME AdminInv, NEW h \in Handlers, NEW c \in CallTypes,
         call' = [call EXCEPT ![h] = c], call[h].reader = None, c.reader = None,
         main \in Serving \cup {"drain"}, leaving = {},
         c.at = "idle" => c = NoCall,
         c.at \notin {"idle", "list", "listing"} => c.id \in Ids,
         c.at \in {"add", "adding"} => c.url \in Urls, c.at \notin {"flag", "join"},
         known' \in [Ids -> Urls \cup {None}], \A i \in Ids : known'[i] \in {known[i], None},
         UNCHANGED <<active, reader, main, leaving>>
  PROVE  AdminInv'
<1> USE DEF AdminInv
<1>1. AdminTypeOK'
  BY DEF AdminTypeOK, CallTypes, Live
<1>2. CallInv'
  BY DEF CallInv, AdminTypeOK, CallTypes
<1>3. MainInv'
  BY DEF MainInv
<1>4. OwnInv'
  <2>1. \A g \in Handlers : call'[g].reader = call[g].reader
    BY DEF AdminTypeOK
  <2>2. \A t \in Threads : Live(t)' <=> Live(t)
    BY DEF Live
  <2> QED BY <2>1, <2>2 DEF OwnInv
<1>5. UrlAgrees'
  BY DEF UrlAgrees
<1> QED BY <1>1, <1>2, <1>3, <1>4, <1>5

LEMMA SpawnStep ==
  ASSUME AdminInv, NEW h \in Handlers, call[h].at # "idle", call[h].reader = None,
         NEW i \in Ids, NEW u \in Urls, active[i] = None, Spawn(i, u), Reply(h),
         known' = [known EXCEPT ![i] = u], UNCHANGED <<main, leaving>>
  PROVE  AdminInv'
<1> DEFINE t == FreeThread
<1> USE IngestAssumption DEF AdminInv
<1>1. t \in Threads /\ reader[t] = NoReader /\ t # None
  BY RoomToSpawn
<1>2. main \in Serving \cup {"drain"} /\ leaving = {}
  BY CallFacts
<1>3. /\ reader' = [reader EXCEPT ![t] = [at |-> "head", id |-> i, url |-> u, running |-> TRUE]]
      /\ active' = [active EXCEPT ![i] = t]
      /\ call' = [call EXCEPT ![h] = NoCall]
  BY DEF Spawn, Reply
<1>4. /\ \A j \in Ids : active[j] # t
      /\ \A g \in Handlers : call[g].reader # t
  BY <1>1 DEF OwnInv, Live, NoReader
<1> HIDE DEF t
<1>5. AdminTypeOK'
  <2>1. known' \in [Ids -> Urls \cup {None}] /\ active' \in [Ids -> Threads \cup {None}]
    BY <1>1, <1>3 DEF AdminTypeOK
  <2>2. reader' \in [Threads ->
       [at : {"none", "head", "opening", "pump", "reading", "publish", "gone"},
        id : Ids \cup {None}, url : Urls \cup {None}, running : BOOLEAN]]
    BY <1>1, <1>3 DEF AdminTypeOK
  <2>3. \A v \in Threads : Live(v)' => reader'[v].id # None /\ reader'[v].url # None
    BY <1>1, <1>3 DEF AdminTypeOK, Live
  <2>4. NoCall \in CallTypes
    BY DEF NoCall, CallTypes
  <2>5. call' \in [Handlers -> CallTypes]
    BY <1>3, <2>4 DEF AdminTypeOK, CallTypes
  <2> QED BY <2>1, <2>2, <2>3, <2>5 DEF AdminTypeOK, CallTypes
<1>6. \A g \in Handlers : call'[g] = (IF g = h THEN NoCall ELSE call[g])
  BY <1>3 DEF AdminTypeOK
<1>7. CallInv'
  BY <1>6 DEF CallInv, NoCall
<1>8. MainInv'
  BY <1>2 DEF MainInv
<1>9. /\ \A j \in Ids : active'[j] = (IF j = i THEN t ELSE active[j])
      /\ \A v \in Threads : v # t => reader'[v] = reader[v]
      /\ reader'[t] = [at |-> "head", id |-> i, url |-> u, running |-> TRUE]
  BY <1>1, <1>3 DEF AdminTypeOK
<1>10. \A g \in Handlers : call'[g].reader = call[g].reader
  BY <1>6 DEF NoCall
<1>11. OwnInv'
  <2>1. \A v \in Threads : Live(v)' <=> (Live(v) \/ v = t)
    BY <1>9 DEF Live
  <2>2. \A v \in Threads : ~ Live(v)' => reader'[v] = NoReader
    BY <1>9, <2>1 DEF OwnInv
  <2>3. \A v \in Threads : Live(v)' <=> \/ \E j \in Ids : active'[j] = v
                                        \/ \E g \in Handlers : call'[g].reader = v
                                        \/ v \in leaving'
    <3> SUFFICES ASSUME NEW v \in Threads
                 PROVE  Live(v)' <=> \/ \E j \in Ids : active'[j] = v
                                     \/ \E g \in Handlers : call'[g].reader = v
                                     \/ v \in leaving'
      OBVIOUS
    <3>1. Live(v) <=> \/ \E j \in Ids : active[j] = v
                      \/ \E g \in Handlers : call[g].reader = v
                      \/ v \in leaving
      BY DEF OwnInv
    <3>2. (\E j \in Ids : active'[j] = v) <=> ((\E j \in Ids : active[j] = v) \/ v = t)
      BY <1>1, <1>9, IngestAssumption
    <3> QED BY <1>10, <2>1, <3>1, <3>2
  <2>4. \A j, k \in Ids : active'[j] = active'[k] /\ active'[j] # None => j = k
    BY <1>4, <1>9 DEF OwnInv
  <2>5. /\ \A j \in Ids, g \in Handlers : active'[j] # None => active'[j] # call'[g].reader
        /\ \A j \in Ids : active'[j] \notin leaving'
        /\ \A g \in Handlers : call'[g].reader \notin leaving'
    BY <1>2, <1>4, <1>9, <1>10 DEF OwnInv
  <2>6. \A f, g \in Handlers :
          call'[f].reader = call'[g].reader /\ call'[f].reader # None => f = g
    BY <1>10 DEF OwnInv
  <2> QED BY <2>2, <2>3, <2>4, <2>5, <2>6 DEF OwnInv
<1>12. UrlAgrees'
  <2> SUFFICES ASSUME NEW j \in Ids, active'[j] # None
               PROVE  /\ reader'[active'[j]].id = j
                      /\ known'[j] \in {None, reader'[active'[j]].url}
    BY DEF UrlAgrees
  <2>1. CASE j = i
    BY <1>9, <2>1 DEF AdminTypeOK
  <2>2. CASE j # i
    <3>1. /\ active'[j] = active[j] /\ known'[j] = known[j]
          /\ active[j] \in Threads /\ active[j] # t
      BY <1>4, <1>9, <2>2 DEF AdminTypeOK
    <3> QED BY <1>9, <3>1 DEF UrlAgrees
  <2> QED BY <2>1, <2>2
<1> QED BY <1>5, <1>7, <1>8, <1>11, <1>12

(* A live reader that gets on, or is told to stop, changes no owner.         *)
LEMMA ReaderMoves ==
  ASSUME AdminInv, NEW t \in Threads, Live(t), reader' \in [Threads -> ReaderTypes],
         \A v \in Threads : v # t => reader'[v] = reader[v],
         reader'[t].at \in LiveSteps,
         reader'[t].id = reader[t].id, reader'[t].url = reader[t].url,
         UNCHANGED <<known, active, leaving>>,
         \A h \in Handlers : call'[h].reader = call[h].reader
  PROVE  OwnInv' /\ UrlAgrees' /\ (AdminTypeOK /\ UNCHANGED <<call, main>> => AdminTypeOK')
<1> USE DEF AdminInv
<1>1. \A v \in Threads :
        /\ Live(v)' <=> Live(v)
        /\ reader'[v].id = reader[v].id /\ reader'[v].url = reader[v].url
        /\ v # t => reader'[v] = reader[v]
  BY DEF AdminTypeOK, Live, LiveSteps
<1>2. OwnInv'
  <2>1. \A v \in Threads :
          /\ ~ Live(v)' => reader'[v] = NoReader
          /\ Live(v)' <=> \/ \E i \in Ids : active'[i] = v
                          \/ \E h \in Handlers : call'[h].reader = v
                          \/ v \in leaving'
    BY <1>1 DEF OwnInv
  <2> QED BY <2>1 DEF OwnInv
<1>3. UrlAgrees'
  <2>1. \A i \in Ids : active[i] # None => active[i] \in Threads
    BY DEF AdminTypeOK
  <2> QED BY <1>1, <2>1 DEF UrlAgrees
<1>4. ASSUME UNCHANGED <<call, main>> PROVE AdminTypeOK'
  BY <1>1, <1>4 DEF AdminTypeOK, ReaderTypes, LiveSteps
<1> QED BY <1>2, <1>3, <1>4

LEMMA RequestStep ==
  ASSUME AdminInv, NEW h \in Handlers,
         \/ \E i \in Ids :
              \/ \E u \in Urls : Request(h, "add", "add", i, u)
              \/ Request(h, "start", "start", i, None)
              \/ Request(h, "take", "stop", i, None)
              \/ Request(h, "take", "remove", i, None)
         \/ Request(h, "list", "list", None, None)
  PROVE  AdminInv'
<1> DEFINE C(a, o, i, u) ==
      [at |-> a, op |-> o, id |-> i, url |-> u, found |-> None, reader |-> None]
<1>1. PICK a \in Waiting, o \in {"add", "start", "stop", "remove", "list"},
           i \in Ids \cup {None}, u \in Urls \cup {None} :
        /\ Request(h, a, o, i, u)
        /\ a # "list" => i \in Ids
        /\ a = "add" => u \in Urls
  OBVIOUS
<1>2. /\ call[h].reader = None /\ known \in [Ids -> Urls \cup {None}]
      /\ main \in Serving /\ leaving = {}
      /\ call' = [call EXCEPT ![h] = C(a, o, i, u)]
      /\ UNCHANGED <<known, active, reader, main, leaving>>
  BY <1>1 DEF AdminInv, CallInv, MainInv, AdminTypeOK, Request
<1>3. C(a, o, i, u) \in CallTypes
  BY DEF CallTypes
<1> QED BY <1>1, <1>2, <1>3, CallMoves

LEMMA ReplyQuiet ==
  ASSUME AdminInv, NEW h \in Handlers, call[h].at # "idle", call[h].reader = None, Reply(h),
         known' \in [Ids -> Urls \cup {None}], \A i \in Ids : known'[i] \in {known[i], None},
         UNCHANGED <<active, reader, main, leaving>>
  PROVE  AdminInv'
<1>1. NoCall \in CallTypes /\ NoCall.at = "idle" /\ NoCall.reader = None
  BY DEF NoCall, CallTypes
<1>2. main \in Serving \cup {"drain"} /\ leaving = {}
  BY CallFacts
<1> QED BY <1>1, <1>2, CallMoves DEF Reply

(* Whoever gets the mutex has looked something up, and owns nothing yet.     *)
LEMMA LockStep == ASSUME AdminInv, NEW h \in Handlers, Lock(h) PROVE AdminInv'
<1> DEFINE i == call[h].id
<1>1. PICK from, to, f, u :
        /\ from \in Waiting /\ to \in Scope
        /\ Enter(h, from, to, f, u)
        /\ from \in {"add", "start", "take"} => f = active[i]
        /\ from \notin {"add", "start", "take"} => f = None
        /\ from = "add" => u = call[h].url
        /\ from = "start" => u = known[i]
        /\ from \notin {"add", "start"} => u = None
        /\ from = "list" <=> to = "listing"
        /\ from = "add" <=> to = "adding"
  BY DEF Lock
<1> DEFINE c == [call[h] EXCEPT !.at = to, !.found = f, !.url = u]
<1>2. /\ call[h] \in CallTypes /\ call[h].at = from /\ call[h].reader = None
      /\ call[h].at # "list" => i \in Ids
      /\ call[h].at = "add" => call[h].url \in Urls
      /\ main \in Serving \cup {"drain"} /\ leaving = {}
      /\ known \in [Ids -> Urls \cup {None}]
      /\ active \in [Ids -> Threads \cup {None}]
  BY <1>1, CallFacts DEF Enter, AdminInv, CallInv, AdminTypeOK
<1>3. f \in Threads \cup {None} /\ u \in Urls \cup {None} /\ (to = "adding" => u \in Urls)
  BY <1>1, <1>2 DEF CallTypes
<1>4. call' = [call EXCEPT ![h] = c] /\ UNCHANGED <<known, active, reader, main, leaving>>
  BY <1>1 DEF Enter
<1>5. /\ c \in CallTypes /\ c.at = to /\ c.reader = None /\ c.id = i
      /\ c.url = u
  <2>1. ASSUME NEW r \in CallTypes
        PROVE  LET d == [r EXCEPT !.at = to, !.found = f, !.url = u] IN
               /\ d \in CallTypes /\ d.at = to /\ d.reader = r.reader /\ d.id = r.id
               /\ d.url = u
    BY <1>1, <1>3 DEF CallTypes
  <2> QED BY <1>2, <2>1
<1> HIDE DEF c, i
<1> QED BY <1>1, <1>2, <1>3, <1>4, <1>5, CallMoves

LEMMA StartSteps ==
  ASSUME AdminInv, SectionInv, NEW h \in Handlers,
         AddCamera(h) \/ StartStream(h) \/ EraseKnown(h) \/ ListCameras(h)
  PROVE  AdminInv'
<1> DEFINE i == call[h].id
<1>1. /\ call[h].at # "idle" /\ call[h].reader = None
      /\ call[h].at # "listing" => i \in Ids
      /\ known \in [Ids -> Urls \cup {None}]
      /\ call[h].at = "adding" => call[h].url \in Urls
      /\ call[h].at \in {"adding", "starting"} => call[h].found = active[i]
      /\ call[h].at = "starting" => call[h].url = known[i]
  BY DEF AdminInv, CallInv, SectionInv, AdminTypeOK, AddCamera, StartStream, EraseKnown, ListCameras
<1>2. CASE AddCamera(h)
  <2>1. CASE active[i] # None
    BY <1>1, <1>2, <2>1, ReplyQuiet DEF AddCamera
  <2>2. CASE active[i] = None
    BY <1>1, <1>2, <2>2, SpawnStep DEF AddCamera
  <2> QED BY <2>1, <2>2
<1>3. CASE StartStream(h)
  <2>1. CASE active[i] # None \/ known[i] = None
    BY <1>1, <1>3, <2>1, ReplyQuiet DEF StartStream
  <2>2. CASE active[i] = None /\ known[i] # None
    <3>1. known[i] \in Urls /\ known' = [known EXCEPT ![i] = known[i]]
      BY <1>1, <1>3, <2>2 DEF StartStream
    <3> QED BY <1>1, <1>3, <2>2, <3>1, SpawnStep DEF StartStream
  <2> QED BY <2>1, <2>2
<1>4. CASE EraseKnown(h)
  <2>1. known' = [known EXCEPT ![i] = None] /\ UNCHANGED <<active, reader, main, leaving>>
    BY <1>4 DEF EraseKnown
  <2>2. known' \in [Ids -> Urls \cup {None}] /\ \A j \in Ids : known'[j] \in {known[j], None}
    BY <1>1, <2>1
  <2> QED BY <1>1, <1>4, <2>1, <2>2, ReplyQuiet DEF EraseKnown
<1>5. CASE ListCameras(h)
  BY <1>1, <1>5, ReplyQuiet DEF ListCameras
<1> QED BY <1>2, <1>3, <1>4, <1>5

(* The reader goes from active_ to the handler that stops it.                *)
LEMMA TakeStep ==
  ASSUME AdminInv, SectionInv, NEW h \in Handlers, TakeReader(h)
  PROVE  AdminInv'
<1> DEFINE i == call[h].id
           t == active[i]
<1> USE IngestAssumption DEF AdminInv
<1>1. /\ call[h].at = "taking" /\ call[h].reader = None /\ i \in Ids
      /\ call[h].found = t
      /\ t \in Threads \cup {None} /\ call[h] \in CallTypes
      /\ main \in Serving \cup {"drain"} /\ leaving = {}
      /\ known \in [Ids -> Urls \cup {None}]
      /\ UNCHANGED <<known, reader, main, leaving>>
  BY CallFacts DEF TakeReader, CallInv, AdminTypeOK, SectionInv
<1>2. CASE t = None
  <2>1. /\ call' = [call EXCEPT ![h] = AfterStop(h)] /\ UNCHANGED active
        /\ \A j \in Ids : known'[j] \in {known[j], None}
    BY <1>1, <1>2 DEF TakeReader
  <2> QED BY <1>1, <2>1, CallFacts, CallMoves
<1>3. CASE t # None
  <2>1. /\ call' = [call EXCEPT ![h].at = "flag", ![h].found = None, ![h].reader = t]
        /\ active' = [active EXCEPT ![i] = None]
    BY <1>1, <1>3 DEF TakeReader
  <2>2. /\ \A g \in Handlers : g # h => call'[g] = call[g]
        /\ call'[h] = [call[h] EXCEPT !.at = "flag", !.found = None, !.reader = t]
        /\ call' \in [Handlers -> CallTypes]
    BY <1>1, <1>3, <2>1 DEF AdminTypeOK, CallTypes
  <2>3. \A j \in Ids : active'[j] = (IF j = i THEN None ELSE active[j])
    BY <2>1 DEF AdminTypeOK
  <2>4. /\ call'[h].at = "flag" /\ call'[h].reader = t /\ call'[h].id = i
    BY <1>1, <2>2 DEF CallTypes
  <2>5. \A v \in Threads : Live(v)' <=> Live(v)
    BY <1>1 DEF Live
  <2>6. AdminTypeOK'
    BY <1>1, <2>1, <2>2, <2>5 DEF AdminTypeOK, CallTypes
  <2> HIDE DEF i, t
  <2>7. CallInv'
    <3>1. t # None /\ i \in Ids
      BY <1>1, <1>3
    <3>2. SUFFICES ASSUME NEW g \in Handlers, g # h
                   PROVE  /\ call[g].at = "idle" => call[g] = NoCall
                          /\ call[g].at \notin {"idle", "list", "listing"} => call[g].id \in Ids
                          /\ call[g].at \in {"add", "adding"} => call[g].url \in Urls
                          /\ call[g].reader # None <=> call[g].at \in {"flag", "join"}
      BY <2>2, <2>4, <3>1 DEF CallInv
    <3> QED BY <3>2 DEF CallInv
  <2>8. MainInv'
    BY <1>1 DEF MainInv
  <2>9. OwnInv'
    <3>1. t = active[i]
      BY DEF t
    <3>2. \A v \in Threads :
            /\ ~ Live(v)' => reader'[v] = NoReader
            /\ Live(v)' <=> \/ \E j \in Ids : active'[j] = v
                            \/ \E g \in Handlers : call'[g].reader = v
                            \/ v \in leaving'
      <4> SUFFICES ASSUME NEW v \in Threads
                   PROVE  /\ ~ Live(v)' => reader'[v] = NoReader
                          /\ Live(v)' <=> \/ \E j \in Ids : active'[j] = v
                                          \/ \E g \in Handlers : call'[g].reader = v
                                          \/ v \in leaving'
        OBVIOUS
      <4>1. /\ ~ Live(v) => reader[v] = NoReader
            /\ Live(v) <=> \/ \E j \in Ids : active[j] = v
                           \/ \E g \in Handlers : call[g].reader = v
                           \/ v \in leaving
        BY DEF OwnInv
      <4>2. CASE v = t
        BY <1>1, <1>3, <2>4, <2>5, <3>1, <4>1, <4>2
      <4>3. CASE v # t
        <5>1. (\E j \in Ids : active'[j] = v) <=> (\E j \in Ids : active[j] = v)
          BY <2>3, <3>1, <4>3
        <5>2. (\E g \in Handlers : call'[g].reader = v) <=> (\E g \in Handlers : call[g].reader = v)
          BY <1>1, <2>2, <2>4, <4>3
        <5> QED BY <1>1, <2>5, <4>1, <5>1, <5>2
      <4> QED BY <4>2, <4>3
    <3>3. /\ \A j \in Ids : j # i => active[j] # t
          /\ \A g \in Handlers : call[g].reader # t
      BY <1>1, <1>3, <3>1 DEF OwnInv
    <3>4. \A j, k \in Ids : active'[j] = active'[k] /\ active'[j] # None => j = k
      BY <2>3 DEF OwnInv
    <3>5. ASSUME NEW f \in Handlers, NEW g \in Handlers,
                 call'[f].reader = call'[g].reader, call'[f].reader # None
          PROVE  f = g
      <4>1. CASE f # h /\ g # h
        BY <2>2, <3>5, <4>1 DEF OwnInv
      <4>2. CASE f = h \/ g = h
        BY <2>2, <2>4, <3>3, <3>5, <4>2
      <4> QED BY <4>1, <4>2
    <3>6. ASSUME NEW j \in Ids, NEW g \in Handlers, active'[j] # None
          PROVE  active'[j] # call'[g].reader
      <4>1. j # i /\ active'[j] = active[j] /\ active[j] # t
        BY <2>3, <3>3, <3>6
      <4>2. g # h => call'[g].reader = call[g].reader
        BY <2>2
      <4> QED BY <2>4, <3>6, <4>1, <4>2 DEF OwnInv
    <3>7. /\ \A j \in Ids : active'[j] \notin leaving'
          /\ \A g \in Handlers : call'[g].reader \notin leaving'
      <4>1. leaving' = {}
        BY <1>1
      <4> QED BY <4>1
    <3> QED BY <3>2, <3>4, <3>5, <3>6, <3>7, Zenon DEF OwnInv
  <2>10. UrlAgrees'
    BY <1>1, <2>3 DEF UrlAgrees
  <2> QED BY <2>6, <2>7, <2>8, <2>9, <2>10
<1> QED BY <1>2, <1>3

LEMMA StopSteps == ASSUME AdminInv, NEW h \in Handlers, ClearRunning(h) \/ Join(h) PROVE AdminInv'
<1> DEFINE t == call[h].reader
<1> USE IngestAssumption DEF AdminInv
<1>1. /\ call[h].at \in {"flag", "join"} /\ t \in Threads /\ t # None /\ call[h] \in CallTypes
      /\ main \in Serving \cup {"drain"} /\ leaving = {} /\ Live(t)
      /\ UNCHANGED <<known, active, main, leaving>>
  <2>1. call[h].at \in {"flag", "join"} /\ UNCHANGED <<known, active, main, leaving>>
    BY DEF ClearRunning, Join
  <2>2. t \in Threads /\ t # None /\ call[h] \in CallTypes
    BY <2>1, CallFacts DEF CallTypes
  <2> QED BY <2>1, <2>2, CallFacts DEF OwnInv
<1>2. CASE ClearRunning(h)
  <2>1. /\ call' = [call EXCEPT ![h].at = "join"]
        /\ reader' = [reader EXCEPT ![t].running = FALSE]
    BY <1>2 DEF ClearRunning
  <2>2. /\ \A g \in Handlers : g # h => call'[g] = call[g]
        /\ call'[h] = [call[h] EXCEPT !.at = "join"]
        /\ call' \in [Handlers -> CallTypes]
    BY <1>1, <2>1 DEF AdminTypeOK, CallTypes
  <2>3. call'[h].at = "join" /\ call'[h].reader = t /\ call'[h].id = call[h].id
    BY <1>1, <2>2 DEF CallTypes
  <2>4. \A g \in Handlers : call'[g].reader = call[g].reader
    BY <2>2, <2>3
  <2>5. /\ reader' \in [Threads -> ReaderTypes]
        /\ \A v \in Threads : v # t => reader'[v] = reader[v]
        /\ reader'[t].at = reader[t].at /\ reader[t].at \in LiveSteps
        /\ reader'[t].id = reader[t].id /\ reader'[t].url = reader[t].url
    <3>1. reader \in [Threads -> ReaderTypes] /\ reader[t].at \in LiveSteps
      BY <1>1 DEF AdminTypeOK, ReaderTypes, Live, LiveSteps
    <3> HIDE DEF t
    <3> QED BY <1>1, <2>1, <3>1 DEF ReaderTypes
  <2>6. OwnInv' /\ UrlAgrees'
    BY <1>1, <2>4, <2>5, ReaderMoves
  <2>7. CallInv'
    BY <1>1, <2>2, <2>3 DEF CallInv
  <2>8. MainInv'
    BY <1>1 DEF MainInv
  <2>9. AdminTypeOK'
    <3>1. \A v \in Threads : Live(v)' => reader'[v].id # None /\ reader'[v].url # None
      BY <1>1, <2>5 DEF AdminTypeOK, Live, LiveSteps
    <3> QED BY <1>1, <2>2, <2>5, <3>1 DEF AdminTypeOK, CallTypes, ReaderTypes, LiveSteps
  <2> QED BY <2>6, <2>7, <2>8, <2>9
<1>3. CASE Join(h)
  <2>1. /\ call' = [call EXCEPT ![h] = AfterStop(h)]
        /\ reader' = [reader EXCEPT ![t] = NoReader]
    BY <1>3 DEF Join
  <2>2. /\ \A g \in Handlers : g # h => call'[g] = call[g]
        /\ call'[h] = AfterStop(h) /\ call'[h].reader = None
        /\ call' \in [Handlers -> CallTypes]
    BY <1>1, <2>1, CallFacts DEF AdminTypeOK, CallTypes
  <2>3. CallInv'
    BY <1>1, <2>2, CallFacts DEF CallInv
  <2>4. MainInv'
    BY <1>1 DEF MainInv
  <2>5. /\ \A v \in Threads : v # t => reader'[v] = reader[v]
        /\ reader'[t] = NoReader
    BY <1>1, <2>1 DEF AdminTypeOK
  <2>6. AdminTypeOK'
    <3>1. reader' \in [Threads ->
         [at : {"none", "head", "opening", "pump", "reading", "publish", "gone"},
          id : Ids \cup {None}, url : Urls \cup {None}, running : BOOLEAN]]
      BY <2>1 DEF AdminTypeOK, NoReader
    <3>2. \A v \in Threads : Live(v)' => reader'[v].id # None /\ reader'[v].url # None
      BY <2>5 DEF AdminTypeOK, Live, NoReader
    <3> QED BY <1>1, <2>2, <3>1, <3>2 DEF AdminTypeOK, CallTypes
  <2>7. /\ \A i \in Ids : active[i] # t
        /\ \A g \in Handlers : g # h => call[g].reader # t
    BY <1>1 DEF OwnInv
  <2> HIDE DEF t
  <2>8. OwnInv'
    <3>1. \A v \in Threads : Live(v)' <=> (Live(v) /\ v # t)
      BY <2>5 DEF Live, NoReader
    <3>2. ASSUME NEW v \in Threads
          PROVE  /\ ~ Live(v)' => reader'[v] = NoReader
                 /\ Live(v)' <=> \/ \E i \in Ids : active'[i] = v
                                 \/ \E g \in Handlers : call'[g].reader = v
                                 \/ v \in leaving'
      <4>1. /\ ~ Live(v) => reader[v] = NoReader
            /\ Live(v) <=> \/ \E i \in Ids : active[i] = v
                           \/ \E g \in Handlers : call[g].reader = v
                           \/ v \in leaving
        BY DEF OwnInv
      <4>2. CASE v = t
        <5>1. \A g \in Handlers : call'[g].reader # v
          BY <1>1, <2>2, <2>7, <4>2
        <5> QED BY <1>1, <2>5, <2>7, <3>1, <4>2, <5>1
      <4>3. CASE v # t
        <5>1. (\E g \in Handlers : call'[g].reader = v) <=> (\E g \in Handlers : call[g].reader = v)
          <6>1. call[h].reader # v /\ call'[h].reader # v
            BY <2>2, <4>3 DEF t
          <6> QED BY <2>2, <6>1
        <5> QED BY <1>1, <2>5, <3>1, <4>1, <4>3, <5>1
      <4> QED BY <4>2, <4>3
    <3>3. \A f, g \in Handlers :
            call'[f].reader = call'[g].reader /\ call'[f].reader # None => f = g
      BY <2>2 DEF OwnInv
    <3>4. \A i \in Ids, g \in Handlers : active'[i] # None => active'[i] # call'[g].reader
      BY <1>1, <2>2 DEF OwnInv
    <3>5. /\ \A i \in Ids : active'[i] \notin leaving'
          /\ \A g \in Handlers : call'[g].reader \notin leaving'
      <4>1. leaving' = {}
        BY <1>1
      <4> QED BY <4>1
    <3>6. \A i, j \in Ids : active'[i] = active'[j] /\ active'[i] # None => i = j
      BY <1>1 DEF OwnInv
    <3> QED BY <3>2, <3>3, <3>4, <3>5, <3>6, Zenon DEF OwnInv
  <2>9. UrlAgrees'
    <3> SUFFICES ASSUME NEW i \in Ids, active'[i] # None
                 PROVE  /\ reader'[active'[i]].id = i
                        /\ known'[i] \in {None, reader'[active'[i]].url}
      BY DEF UrlAgrees
    <3>1. active'[i] = active[i] /\ active[i] \in Threads /\ known'[i] = known[i]
      BY <1>1 DEF AdminTypeOK
    <3> QED BY <2>5, <2>7, <3>1 DEF UrlAgrees
  <2> QED BY <2>3, <2>4, <2>6, <2>8, <2>9
<1> QED BY <1>2, <1>3

LEMMA RunStep == ASSUME AdminInv, NEW t \in Threads, Run(t) \/ Camera(t) PROVE AdminInv'
<1> USE DEF AdminInv
<1>1. PICK from \in LiveSteps, to \in LiveSteps : Goto(t, from, to)
  BY DEF Run, Camera, OuterHead, InnerHead, PublishFrame, Opened, Grabbed, LiveSteps
<1>2. /\ Live(t) /\ reader[t].running \in BOOLEAN
      /\ UNCHANGED <<known, active, call, main, leaving>>
  BY <1>1 DEF Goto, Live, LiveSteps, AdminTypeOK
<1>3. /\ reader' \in [Threads -> ReaderTypes]
      /\ \A v \in Threads : v # t => reader'[v] = reader[v]
      /\ reader'[t].at = to /\ reader'[t].id = reader[t].id /\ reader'[t].url = reader[t].url
  BY <1>1 DEF Goto, AdminTypeOK, ReaderTypes, LiveSteps
<1>4. OwnInv' /\ UrlAgrees' /\ AdminTypeOK'
  BY <1>2, <1>3, ReaderMoves
<1>5. CallInv' /\ MainInv'
  BY <1>2 DEF CallInv, MainInv
<1> QED BY <1>4, <1>5

(* SIGTERM, and the main thread that takes the readers down.                 *)
LEMMA ShutdownSteps ==
  ASSUME AdminInv, SampleDue \/ SampleLock \/ Sampled \/ Signal \/ Shutdown
  PROVE  AdminInv'
<1> USE IngestAssumption DEF AdminInv
<1>1. CASE SampleDue \/ SampleLock \/ Sampled \/ Signal
  <2>1. PICK from \in Serving, to \in Serving \cup {"drain"} : MainGoto(from, to)
    BY <1>1 DEF SampleDue, SampleLock, Sampled, Signal
  <2>2. \A t \in Threads : Live(t)' <=> Live(t)
    BY <2>1 DEF MainGoto, Live
  <2>3. AdminTypeOK' /\ CallInv' /\ MainInv'
    BY <2>1, <2>2 DEF MainGoto, AdminTypeOK, CallInv, MainInv
  <2>4. OwnInv' /\ UrlAgrees'
    BY <2>1, <2>2 DEF MainGoto, OwnInv, UrlAgrees
  <2> QED BY <2>3, <2>4
<1>2. CASE MoveReaders
  <2>1. /\ leaving = {} /\ leaving' = {active[i] : i \in {j \in Ids : active[j] # None}}
        /\ main' = "stop" /\ UNCHANGED <<known, reader, call>>
        /\ \A i \in Ids : active'[i] = None
        /\ \A h \in Handlers : call[h] = NoCall /\ call[h].reader = None
    BY <1>2 DEF MoveReaders, CallsEnded, MainInv, NoCall
  <2>2. \A t \in Threads : Live(t)' <=> Live(t)
    BY <2>1 DEF Live
  <2>3. AdminTypeOK'
    <3>1. active' \in [Ids -> Threads \cup {None}]
      BY <1>2 DEF MoveReaders
    <3>2. leaving' \subseteq Threads
      BY <2>1 DEF AdminTypeOK
    <3> QED BY <2>1, <2>2, <3>1, <3>2 DEF AdminTypeOK
  <2>4. CallInv' /\ MainInv'
    BY <2>1 DEF CallInv, MainInv
  <2>5. OwnInv'
    <3>1. None \notin leaving'
      BY <2>1
    <3>2. ASSUME NEW t \in Threads
          PROVE  /\ ~ Live(t)' => reader'[t] = NoReader
                 /\ Live(t)' <=> \/ \E i \in Ids : active'[i] = t
                                 \/ \E h \in Handlers : call'[h].reader = t
                                 \/ t \in leaving'
      <4>1. t \in leaving' <=> \E i \in Ids : active[i] = t
        BY <2>1
      <4> QED BY <2>1, <2>2, <4>1 DEF OwnInv
    <3> QED BY <2>1, <3>1, <3>2 DEF OwnInv
  <2>6. UrlAgrees'
    BY <2>1 DEF UrlAgrees
  <2> QED BY <2>3, <2>4, <2>5, <2>6
<1>3. ASSUME NEW t \in Threads, StopOne(t) PROVE AdminInv'
  <2>1. /\ main = "stop" /\ main' = "join" /\ t \in leaving
        /\ reader' = [reader EXCEPT ![t].running = FALSE]
        /\ UNCHANGED <<known, active, call, leaving>>
    BY <1>3 DEF StopOne
  <2>2. Live(t)
    BY <2>1 DEF OwnInv
  <2>3. reader \in [Threads -> ReaderTypes] /\ reader[t].at \in LiveSteps
    BY <2>2 DEF AdminTypeOK, ReaderTypes, Live, LiveSteps
  <2>4. /\ reader' \in [Threads -> ReaderTypes]
        /\ \A v \in Threads : v # t => reader'[v] = reader[v]
        /\ reader'[t].at = reader[t].at
        /\ reader'[t].id = reader[t].id /\ reader'[t].url = reader[t].url
    BY <2>1, <2>3 DEF ReaderTypes
  <2>5. OwnInv' /\ UrlAgrees'
    BY <2>1, <2>2, <2>3, <2>4, ReaderMoves
  <2>6. CallInv' /\ MainInv'
    BY <2>1 DEF CallInv, MainInv
  <2>7. AdminTypeOK'
    <3>1. \A v \in Threads : Live(v)' => reader'[v].id # None /\ reader'[v].url # None
      BY <2>2, <2>4 DEF AdminTypeOK, Live
    <3> QED BY <2>1, <2>4, <3>1 DEF AdminTypeOK, ReaderTypes, LiveSteps
  <2> QED BY <2>5, <2>6, <2>7
<1>4. ASSUME NEW t \in Threads, JoinOne(t) PROVE AdminInv'
  <2>1. /\ main = "join" /\ main' = "stop" /\ t \in leaving
        /\ reader' = [reader EXCEPT ![t] = NoReader]
        /\ leaving' = leaving \ {t} /\ UNCHANGED <<known, active, call>>
        /\ \A i \in Ids : active[i] = None
        /\ \A h \in Handlers : call[h] = NoCall /\ call[h].reader = None
    BY <1>4 DEF JoinOne, MainInv, NoCall
  <2>2. /\ reader'[t] = NoReader
        /\ \A v \in Threads : v # t => reader'[v] = reader[v]
    BY <2>1 DEF AdminTypeOK
  <2>3. \A v \in Threads : Live(v)' <=> (Live(v) /\ v # t)
    BY <2>1, <2>2 DEF Live, NoReader
  <2>4. AdminTypeOK'
    <3>1. reader' \in [Threads ->
         [at : {"none", "head", "opening", "pump", "reading", "publish", "gone"},
          id : Ids \cup {None}, url : Urls \cup {None}, running : BOOLEAN]]
      BY <2>1 DEF AdminTypeOK, NoReader
    <3>2. \A v \in Threads : Live(v)' => reader'[v].id # None /\ reader'[v].url # None
      BY <2>2, <2>3 DEF AdminTypeOK
    <3> QED BY <2>1, <3>1, <3>2 DEF AdminTypeOK
  <2>5. CallInv' /\ MainInv'
    BY <2>1 DEF CallInv, MainInv
  <2>6. OwnInv'
    <3>1. ASSUME NEW v \in Threads
          PROVE  /\ ~ Live(v)' => reader'[v] = NoReader
                 /\ Live(v)' <=> \/ \E i \in Ids : active'[i] = v
                                 \/ \E h \in Handlers : call'[h].reader = v
                                 \/ v \in leaving'
      BY <2>1, <2>2, <2>3 DEF OwnInv
    <3>2. None \notin leaving
      BY DEF AdminTypeOK
    <3> QED BY <2>1, <3>1, <3>2 DEF OwnInv
  <2>7. UrlAgrees'
    BY <2>1 DEF UrlAgrees
  <2> QED BY <2>4, <2>5, <2>6, <2>7
<1>5. CASE Exit
  <2>1. \A t \in Threads : Live(t)' <=> Live(t)
    BY <1>5 DEF Exit, MainGoto, Live
  <2>2. AdminTypeOK' /\ CallInv' /\ MainInv'
    BY <1>5, <2>1 DEF Exit, MainGoto, AdminTypeOK, CallInv, MainInv
  <2>3. OwnInv' /\ UrlAgrees'
    BY <1>5, <2>1 DEF Exit, MainGoto, OwnInv, UrlAgrees
  <2> QED BY <2>2, <2>3
<1> QED BY <1>1, <1>2, <1>3, <1>4, <1>5 DEF Shutdown

LEMMA AdminStep == AdminInv /\ SectionInv /\ [AdminNext]_adminVars => AdminInv'
<1> SUFFICES ASSUME AdminInv, SectionInv, [AdminNext]_adminVars PROVE AdminInv'
  OBVIOUS
<1>1. ASSUME NEW h \in Handlers, Serve(h) PROVE AdminInv'
  BY <1>1, LockStep, StartSteps, TakeStep, StopSteps DEF Serve
<1>2. CASE UNCHANGED adminVars
  <2>1. \A t \in Threads : Live(t)' <=> Live(t)
    BY <1>2 DEF adminVars, Live
  <2>2. AdminTypeOK' /\ CallInv' /\ MainInv'
    BY <1>2, <2>1 DEF adminVars, AdminInv, AdminTypeOK, CallInv, MainInv
  <2>3. OwnInv' /\ UrlAgrees'
    BY <1>2, <2>1 DEF adminVars, AdminInv, OwnInv, UrlAgrees
  <2> QED BY <2>2, <2>3 DEF AdminInv
<1> QED BY <1>1, <1>2, RequestStep, RunStep, ShutdownSteps DEF AdminNext

(* A section is entered when nobody is inside another, and nobody but the    *)
(* one inside changes the maps.                                              *)
LEMMA SectionStep == AdminInv /\ SectionInv /\ [AdminNext]_adminVars => SectionInv'
<1> SUFFICES ASSUME AdminInv, SectionInv, [AdminNext]_adminVars PROVE SectionInv'
  OBVIOUS
<1>1. ASSUME \A h \in Handlers : call'[h].at \notin Scope PROVE SectionInv'
  BY <1>1 DEF SectionInv
<1>2. ASSUME \A h \in Handlers : call'[h] = call[h] \/ call'[h].at \notin Scope,
             UNCHANGED <<known, active>>, main' = "sampling" => main = "sampling"
      PROVE  SectionInv'
  BY <1>2 DEF SectionInv
<1>3. ASSUME NEW h \in Handlers, Lock(h) PROVE SectionInv'
  <2> DEFINE i == call[h].id
  <2>1. PICK from, to, f, u :
          /\ from \in Waiting /\ to \in Scope
          /\ Enter(h, from, to, f, u)
          /\ to \in {"adding", "starting", "taking"} => f = active[i]
          /\ to = "starting" => u = known[i]
    BY <1>3 DEF Lock
  <2>2. /\ \A g \in Handlers : g # h => call'[g] = call[g] /\ call[g].at \notin Scope
        /\ main # "sampling" /\ UNCHANGED <<known, active, main>>
    BY <2>1 DEF Enter, MutexFree, AdminInv, AdminTypeOK
  <2>3. call'[h].at = to /\ call'[h].found = f /\ call'[h].url = u /\ call'[h].id = i
    <3>1. call[h] \in CallTypes
      BY CallFacts
    <3>2. call'[h] = [call[h] EXCEPT !.at = to, !.found = f, !.url = u]
      BY <2>1 DEF Enter, AdminInv, AdminTypeOK
    <3> QED BY <3>1, <3>2 DEF CallTypes
  <2> HIDE DEF i
  <2> QED BY <2>1, <2>2, <2>3 DEF SectionInv
<1>4. ASSUME NEW h \in Handlers,
             AddCamera(h) \/ StartStream(h) \/ EraseKnown(h) \/ ListCameras(h) \/ TakeReader(h)
      PROVE  SectionInv'
  <2>1. call[h].at \in Scope /\ \E c : c.at \notin Scope /\ call' = [call EXCEPT ![h] = c]
    <3>1. CASE TakeReader(h) /\ call[h].found # None
      <4>1. /\ call[h].at = "taking"
            /\ call' = [call EXCEPT ![h] =
                 [call[h] EXCEPT !.at = "flag", !.found = None, !.reader = call[h].found]]
        BY <3>1 DEF TakeReader
      <4>2. [call[h] EXCEPT !.at = "flag", !.found = None, !.reader = call[h].found].at = "flag"
        BY CallFacts DEF CallTypes
      <4> QED BY <4>1, <4>2
    <3>2. CASE TakeReader(h) /\ call[h].found = None
      BY <3>2, CallFacts DEF TakeReader
    <3>3. CASE ~ TakeReader(h)
      BY <1>4, <3>3 DEF AddCamera, StartStream, EraseKnown, ListCameras, Reply, NoCall
    <3> QED BY <3>1, <3>2, <3>3
  <2>2. \A g \in Handlers : g # h => call'[g] = call[g] /\ call[g].at \notin Scope
    BY <2>1 DEF SectionInv, AdminInv, AdminTypeOK
  <2>3. call'[h].at \notin Scope
    BY <2>1 DEF AdminInv, AdminTypeOK
  <2> QED BY <1>1, <2>2, <2>3
<1>5. ASSUME NEW h \in Handlers, ClearRunning(h) \/ Join(h) PROVE SectionInv'
  <2>1. UNCHANGED <<known, active, main>> /\ \A g \in Handlers : g # h => call'[g] = call[g]
    BY <1>5 DEF ClearRunning, Join, AdminInv, AdminTypeOK
  <2>2. call'[h].at \notin Scope
    <3>1. CASE ClearRunning(h)
      <4>1. call'[h] = [call[h] EXCEPT !.at = "join"] /\ call[h] \in CallTypes
        BY <3>1, CallFacts DEF ClearRunning, AdminInv, AdminTypeOK
      <4> QED BY <4>1 DEF CallTypes
    <3>2. CASE Join(h)
      BY <3>2, CallFacts DEF Join, AdminInv, AdminTypeOK
    <3> QED BY <1>5, <3>1, <3>2
  <2> QED BY <1>2, <2>1, <2>2
<1>6. ASSUME NEW h \in Handlers, NEW at \in Waiting, NEW o, NEW i, NEW u, Request(h, at, o, i, u)
      PROVE  SectionInv'
  <2>1. /\ UNCHANGED <<known, active, main>>
        /\ \A g \in Handlers : g # h => call'[g] = call[g]
        /\ call'[h].at = at
    BY <1>6 DEF Request, AdminInv, AdminTypeOK
  <2> QED BY <1>2, <2>1
<1>7. ASSUME NEW t \in Threads, Run(t) \/ Camera(t) PROVE SectionInv'
  <2>1. PICK from, to : Goto(t, from, to)
    BY <1>7 DEF Run, Camera, OuterHead, InnerHead, PublishFrame, Opened, Grabbed
  <2> QED BY <1>2, <2>1 DEF Goto
<1>8. CASE SampleLock
  BY <1>1, <1>8 DEF SampleLock, MainGoto, MutexFree
<1>9. CASE MoveReaders
  <2>1. \A h \in Handlers : call'[h].at = "idle"
    BY <1>9 DEF MoveReaders, CallsEnded, NoCall
  <2> QED BY <1>1, <2>1
<1>10. ASSUME UNCHANGED <<known, active, call>>, main' # "sampling" \/ main' = main PROVE SectionInv'
  BY <1>2, <1>10
<1>11. CASE SampleDue \/ Sampled \/ Signal \/ Exit \/ \E t \in Threads : StopOne(t) \/ JoinOne(t)
  BY <1>10, <1>11 DEF SampleDue, Sampled, Signal, Exit, MainGoto, StopOne, JoinOne
<1>12. CASE UNCHANGED adminVars
  BY <1>10, <1>12 DEF adminVars
<1> QED BY <1>3, <1>4, <1>5, <1>6, <1>7, <1>8, <1>9, <1>11, <1>12
        DEF AdminNext, Serve, Shutdown

LEMMA AdminInvHolds == AdminSpec => [](AdminInv /\ SectionInv)
<1>1. AdminInit => SectionInv
  BY DEF AdminInit, NoCall, SectionInv
<1> QED BY <1>1, InitAdmin, AdminStep, SectionStep, PTL DEF AdminSpec

(* Type correctness of the ingest service, whatever calls overlap.           *)
THEOREM AdminTypeCorrect == AdminSpec => []AdminTypeOK
<1>1. AdminInv => AdminTypeOK
  BY DEF AdminInv
<1> QED BY <1>1, AdminInvHolds, PTL

LEMMA OneOwnerInv == AdminInv => OneOwner
<1> SUFFICES ASSUME AdminInv, NEW t \in Threads
             PROVE  Cardinality(Owners(t)) = IF Live(t) THEN 1 ELSE 0
  BY DEF OneOwner
<1> USE IngestAssumption
<1> DEFINE Is == {i \in Ids : active[i] = t}
           Hs == {h \in Handlers : call[h].reader = t}
<1>1. CASE ~ Live(t)
  <2>1. Owners(t) = {}
    BY <1>1 DEF AdminInv, OwnInv, Owners
  <2> QED BY <1>1, <2>1, FS_EmptySet
<1>2. CASE Live(t)
  <2>1. \E x : Owners(t) = {x}
    <3>1. t # None
      OBVIOUS
    <3>2. CASE \E i \in Ids : active[i] = t
      <4>1. PICK i \in Ids : active[i] = t
        BY <3>2
      <4>2. /\ \A j \in Ids : active[j] = t => j = i
            /\ \A h \in Handlers : call[h].reader # t
            /\ t \notin leaving
        BY <3>1, <4>1 DEF AdminInv, OwnInv
      <4>3. Owners(t) = {<<"active", i>>}
        BY <4>1, <4>2 DEF Owners
      <4> QED BY <4>3
    <3>3. CASE \E h \in Handlers : call[h].reader = t
      <4>1. PICK h \in Handlers : call[h].reader = t
        BY <3>3
      <4>2. /\ \A g \in Handlers : call[g].reader = t => g = h
            /\ \A i \in Ids : active[i] # t
            /\ t \notin leaving
        BY <3>1, <4>1 DEF AdminInv, OwnInv
      <4>3. Owners(t) = {<<"handler", h>>}
        BY <4>1, <4>2 DEF Owners
      <4> QED BY <4>3
    <3>4. CASE t \in leaving
      <4>1. (\A i \in Ids : active[i] # t) /\ (\A h \in Handlers : call[h].reader # t)
        BY <3>4 DEF AdminInv, OwnInv
      <4>2. Owners(t) = {<<"main", t>>}
        BY <3>4, <4>1 DEF Owners
      <4> QED BY <4>2
    <3> QED BY <1>2, <3>2, <3>3, <3>4 DEF AdminInv, OwnInv
  <2> QED BY <1>2, <2>1, FS_Singleton
<1> QED BY <1>1, <1>2

(* The main thread moves readers of different cameras out of active_.        *)
LeavingInv == \A t, u \in leaving : reader[t].id = reader[u].id => t = u

LEMMA LeavingStep == AdminInv /\ LeavingInv /\ [AdminNext]_adminVars => LeavingInv'
<1> SUFFICES ASSUME AdminInv, LeavingInv, [AdminNext]_adminVars PROVE LeavingInv'
  OBVIOUS
<1>1. ASSUME \A t \in leaving' : t \in leaving /\ reader'[t].id = reader[t].id
      PROVE  LeavingInv'
  BY <1>1 DEF LeavingInv
<1>2. ASSUME NEW h \in Handlers, Serve(h) PROVE LeavingInv'
  <2>1. call[h].at # "idle" /\ leaving' = leaving
    BY <1>2 DEF Serve, Lock, Enter, AddCamera, StartStream, ListCameras, TakeReader,
                ClearRunning, Join, EraseKnown
  <2>2. leaving = {}
    BY <2>1, CallFacts
  <2> QED BY <2>1, <2>2 DEF LeavingInv
<1>3. ASSUME UNCHANGED <<reader, leaving>> PROVE LeavingInv'
  BY <1>1, <1>3
<1>4. ASSUME NEW t \in Threads, Run(t) \/ Camera(t) PROVE LeavingInv'
  <2>1. PICK from, to : Goto(t, from, to)
    BY <1>4 DEF Run, Camera, OuterHead, InnerHead, PublishFrame, Opened, Grabbed
  <2>2. leaving' = leaving /\ \A u \in Threads : reader'[u].id = reader[u].id
    BY <2>1 DEF Goto, AdminInv, AdminTypeOK
  <2> QED BY <1>1, <2>2 DEF AdminInv, AdminTypeOK
<1>5. CASE MoveReaders
  <2>1. reader' = reader /\ \A t \in leaving' : \E i \in Ids : t = active[i] /\ active[i] # None
    BY <1>5 DEF MoveReaders
  <2> QED BY <2>1 DEF LeavingInv, AdminInv, UrlAgrees
<1>6. ASSUME NEW t \in Threads, StopOne(t) PROVE LeavingInv'
  <2>1. leaving' = leaving /\ \A u \in Threads : reader'[u].id = reader[u].id
    BY <1>6 DEF StopOne, AdminInv, AdminTypeOK
  <2> QED BY <1>1, <2>1 DEF AdminInv, AdminTypeOK
<1>7. ASSUME NEW t \in Threads, JoinOne(t) PROVE LeavingInv'
  <2>1. leaving' = leaving \ {t} /\ \A u \in Threads : u # t => reader'[u] = reader[u]
    BY <1>7 DEF JoinOne, AdminInv, AdminTypeOK
  <2> QED BY <1>1, <2>1 DEF AdminInv, AdminTypeOK
<1>8. CASE SampleDue \/ SampleLock \/ Sampled \/ Signal \/ Exit
  BY <1>3, <1>8 DEF SampleDue, SampleLock, Sampled, Signal, Exit, MainGoto
<1> QED BY <1>2, <1>3, <1>4, <1>5, <1>6, <1>7, <1>8
        DEF AdminNext, Shutdown, Request, adminVars

(* Whoever is in nobody's hands is in active_, or is moved from there with   *)
(* the readers of the other cameras; these are never both at once.           *)
LEMMA OneUnlessStoppedInv == AdminInv /\ LeavingInv => OneUnlessStopped
<1> SUFFICES ASSUME AdminInv, LeavingInv, NEW t \in Threads, NEW u \in Threads,
                    Live(t), Live(u), reader[t].id = reader[u].id,
                    \A h \in Handlers : call[h].reader \notin {t, u}
             PROVE  t = u
  BY DEF OneUnlessStopped
<1>1. ASSUME NEW v \in {t, u}, v \notin leaving
      PROVE  active[reader[v].id] = v /\ reader[v].id \in Ids
  <2>1. v \in Threads /\ Live(v) /\ \A h \in Handlers : call[h].reader # v
    BY <1>1
  <2>2. PICK i \in Ids : active[i] = v
    BY <1>1, <2>1 DEF AdminInv, OwnInv
  <2>3. v # None
    BY <2>1, IngestAssumption
  <2>4. reader[v].id = i
    BY <2>2, <2>3 DEF AdminInv, UrlAgrees
  <2> QED BY <2>2, <2>4
<1>2. CASE leaving = {}
  <2>1. active[reader[t].id] = t /\ active[reader[u].id] = u
    BY <1>1, <1>2
  <2> QED BY <2>1
<1>3. CASE leaving # {}
  <2>1. \A i \in Ids : active[i] = None
    BY <1>3 DEF AdminInv, AdminTypeOK, MainInv
  <2>2. \A v \in {t, u} : v \in leaving
    <3> SUFFICES ASSUME NEW v \in {t, u}, active[reader[v].id] = v, reader[v].id \in Ids
                 PROVE  FALSE
      BY <1>1
    <3> QED BY <2>1, IngestAssumption
  <2> QED BY <2>2 DEF LeavingInv
<1> QED BY <1>2, <1>3

(* Every reader thread that lives has exactly one owner, through the gap of  *)
(* a stop and to the end of the process; a camera that is listed is read     *)
(* from the url it is listed with, and by one thread unless another is being *)
(* stopped; and the process leaves no thread behind.                         *)
THEOREM OwnedHolds == AdminSpec => []Owned
<1>1. AdminInv => CleanExit
  BY IngestAssumption DEF AdminInv, MainInv, OwnInv, CleanExit, NoCall
<1>2. AdminInv /\ LeavingInv => Owned
  BY <1>1, OneOwnerInv, OneUnlessStoppedInv DEF Owned, AdminInv
<1>3. AdminInit => LeavingInv
  BY DEF AdminInit, LeavingInv
<1> QED BY <1>2, <1>3, LeavingStep, AdminInvHolds, PTL DEF AdminSpec
=============================================================================
