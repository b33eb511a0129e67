-------------------------- MODULE EventStore_proofs ---------------------------
(***************************************************************************)
(* Proofs about EventStore, for any number of handlers, tracks, frames,    *)
(* days and faults.                                                        *)
(***************************************************************************)
EXTENDS EventStore, TLAPS

HandlerStates == [pc : Steps, frame : 0 .. MaxFrames, todo : SUBSET Alerts,
                  alert : Alerts \union {NoAlert}]

(* No two handlers are at one frame, and what a handler has to emit was      *)
(* raised on its own.                                                        *)
HandlerOK(h) ==
  /\ handler[h].todo = {} <=> handler[h].pc \in {"idle", "log", "observe"}
  /\ handler[h].pc \in {"json", "text", "sqlite", "dashboard"} =>
       handler[h].alert \in handler[h].todo
  /\ handler[h].pc = "idle" => handler[h].frame = 0
  /\ handler[h].pc # "idle" => handler[h].frame \in 1 .. arrived
  /\ \A a \in handler[h].todo : a.frame = handler[h].frame

HandlerInv ==
  /\ handler \in [Handlers -> HandlerStates] /\ arrived \in 0 .. MaxFrames
  /\ \A h \in Handlers : HandlerOK(h)
  /\ \A h, g \in Handlers :
       h # g /\ handler[h].frame = handler[g].frame => handler[h].frame = 0

Verdicts == [kind : {"none", "alert", "evidence"}, parent : Alerts \union {NoAlert}]

(* The types of the rest of the state.                                       *)
StoreTypes ==
  /\ today \in 1 .. MaxDays
  /\ log \in [day : 0 .. MaxDays, open : BOOLEAN]
  /\ logged \subseteq 1 .. MaxFrames
  /\ fired \in [Tracks -> Alerts \union {NoAlert}]
  /\ decided \in [Alerts -> Verdicts]
  /\ json \in [Alerts -> {"none", "empty", "whole"}]
  /\ start \in 1 .. Up /\ columns \subseteq All /\ slipped \in BOOLEAN
  /\ rows \subseteq Alerts /\ open \subseteq Alerts /\ page \subseteq Alerts
  /\ board \in [Alerts -> {"none", "posting", "got", "dropped"}]
  /\ faults \in 0 .. MaxFaults
  /\ failed \in [Alerts -> SUBSET {"json", "sqlite"}] /\ cut \subseteq Alerts

BaseInv == HandlerInv /\ StoreTypes

LEMMA BaseTypes == BaseInv => TypeOK
BY DEF BaseInv, HandlerInv, HandlerOK, StoreTypes, TypeOK, HandlerStates, Verdicts
-----------------------------------------------------------------------------
(* What a step makes of the handler it is a step of.                         *)
Becomes(h, pc, frame, todo, alert) ==
  /\ handler' \in [Handlers -> HandlerStates]
  /\ handler'[h].pc = pc /\ handler'[h].frame = frame
  /\ handler'[h].todo = todo /\ handler'[h].alert = alert
  /\ \A g \in Handlers \ {h} : handler'[g] = handler[g]

LEMMA SetsPc ==
  ASSUME handler \in [Handlers -> HandlerStates], NEW h \in Handlers, NEW pc \in Steps,
         Moves(h, pc)
  PROVE  Becomes(h, pc, handler[h].frame, handler[h].todo, handler[h].alert)
BY DEF Becomes, HandlerStates, Moves

LEMMA SetsPcAndFrame ==
  ASSUME handler \in [Handlers -> HandlerStates], NEW h \in Handlers, NEW pc \in Steps,
         NEW frame \in 0 .. MaxFrames,
         handler' = [handler EXCEPT ![h].pc = pc, ![h].frame = frame]
  PROVE  Becomes(h, pc, frame, handler[h].todo, handler[h].alert)
BY DEF Becomes, HandlerStates

LEMMA SetsPcAndAlert ==
  ASSUME handler \in [Handlers -> HandlerStates], NEW h \in Handlers, NEW pc \in Steps,
         NEW alert \in Alerts,
         handler' = [handler EXCEPT ![h].pc = pc, ![h].alert = alert]
  PROVE  Becomes(h, pc, handler[h].frame, handler[h].todo, alert)
BY DEF Becomes, HandlerStates

LEMMA SetsIdle ==
  ASSUME handler \in [Handlers -> HandlerStates], NEW h \in Handlers,
         handler' = [handler EXCEPT ![h] = Idle]
  PROVE  Becomes(h, "idle", 0, {}, NoAlert)
<1>1. Idle \in HandlerStates
  BY StoreAssumption DEF Idle, HandlerStates, Steps
<1> QED BY <1>1 DEF Becomes, HandlerStates, Idle

LEMMA SetsNext ==
  ASSUME handler \in [Handlers -> HandlerStates], NEW h \in Handlers,
         NEW todo \in SUBSET Alerts, NEW alert \in Alerts \union {NoAlert},
         handler' = [handler EXCEPT ![h] =
                       [handler[h] EXCEPT !.pc = "next", !.todo = todo, !.alert = alert]]
  PROVE  Becomes(h, "next", handler[h].frame, todo, alert)
BY DEF Becomes, HandlerStates, Steps

(* What keeps the handlers apart.                                            *)
LEMMA HandlerMoved ==
  ASSUME HandlerInv, arrived' \in 0 .. MaxFrames, arrived <= arrived',
         NEW h \in Handlers, NEW pc, NEW frame, NEW todo, NEW alert,
         Becomes(h, pc, frame, todo, alert),
         todo = {} <=> pc \in {"idle", "log", "observe"},
         pc \in {"json", "text", "sqlite", "dashboard"} => alert \in todo,
         pc = "idle" => frame = 0,
         pc # "idle" => frame \in 1 .. arrived',
         frame = 0 \/ frame = handler[h].frame \/ frame = arrived + 1,
         \A a \in todo : a.frame = frame
  PROVE  HandlerInv'
<1>1. \A g \in Handlers \ {h} : HandlerOK(g)'
  <2> SUFFICES ASSUME NEW g \in Handlers \ {h} PROVE HandlerOK(g)'
    OBVIOUS
  <2>1. handler'[g] = handler[g] /\ HandlerOK(g) /\ handler[g] \in HandlerStates
    BY DEF Becomes, HandlerInv
  <2>2. handler[g].frame \in 1 .. arrived => handler[g].frame \in 1 .. arrived'
    BY DEF HandlerInv
  <2> QED BY <2>1, <2>2 DEF HandlerOK
<1>2. HandlerOK(h)'
  BY DEF Becomes, HandlerOK
<1>3. \A g \in Handlers \ {h} : handler'[g].frame = frame => frame = 0
  <2> SUFFICES ASSUME NEW g \in Handlers \ {h}, handler'[g].frame = frame PROVE frame = 0
    OBVIOUS
  <2>1. handler[g].frame = frame /\ handler[g].frame \in 0 .. arrived
    BY DEF Becomes, HandlerInv, HandlerOK
  <2>2. frame # arrived + 1
    BY <2>1 DEF HandlerInv
  <2> QED BY <2>1, <2>2 DEF HandlerInv
<1>4. \A g, k \in Handlers : g # k /\ handler'[g].frame = handler'[k].frame => handler'[g].frame = 0
  BY <1>3 DEF Becomes, HandlerInv
<1> QED BY <1>1, <1>2, <1>4 DEF HandlerInv, Becomes

LEMMA HandlersKept ==
  ASSUME HandlerInv, UNCHANGED <<handler, arrived>>
  PROVE  HandlerInv'
BY DEF HandlerInv, HandlerOK
-----------------------------------------------------------------------------
LEMMA UpdateEffect ==
  ASSUME BaseInv, NEW h \in Handlers, Update(h)
  PROVE  /\ Becomes(h, "log", arrived + 1, {}, handler[h].alert)
         /\ arrived' = arrived + 1 /\ arrived + 1 \in 1 .. MaxFrames
<1>1. handler \in [Handlers -> HandlerStates] /\ HandlerOK(h) /\ arrived \in 0 .. MaxFrames
  BY DEF BaseInv, HandlerInv
<1>2. arrived + 1 \in 1 .. MaxFrames /\ arrived' = arrived + 1 /\ handler[h].todo = {}
  BY <1>1, StoreAssumption DEF Update, HandlerOK
<1>3. arrived + 1 \in 0 .. MaxFrames /\ "log" \in Steps
  BY <1>2 DEF Steps
<1> QED BY <1>1, <1>2, <1>3, SetsPcAndFrame DEF Update

LEMMA LineEffect ==
  ASSUME BaseInv, NEW h \in Handlers, Line(h)
  PROVE  /\ Becomes(h, "observe", handler[h].frame, {}, handler[h].alert)
         /\ arrived' = arrived /\ handler[h].frame \in 1 .. arrived
<1>1. handler \in [Handlers -> HandlerStates] /\ HandlerOK(h)
  BY DEF BaseInv, HandlerInv
<1>2. handler[h].todo = {} /\ handler[h].frame \in 1 .. arrived /\ arrived' = arrived
  BY <1>1 DEF Line, HandlerOK
<1>3. Moves(h, "observe") /\ "observe" \in Steps
  BY DEF Line, Moves, Steps
<1> QED BY <1>1, <1>2, <1>3, SetsPc

LEMMA LeaveEffect ==
  ASSUME BaseInv, NEW h \in Handlers, OpenFails(h) \/ WriteFails(h)
  PROVE  /\ Becomes(h, "idle", 0, {}, NoAlert) /\ arrived' = arrived
         /\ handler[h].todo = {}
<1>1. handler \in [Handlers -> HandlerStates] /\ HandlerOK(h)
  BY DEF BaseInv, HandlerInv
<1> QED BY <1>1, SetsIdle DEF OpenFails, WriteFails, Leaves, HandlerOK

LEMMA TakeEffect ==
  ASSUME BaseInv, NEW h \in Handlers, TakeAlert(h)
  PROVE  /\ \E a \in handler[h].todo :
              Becomes(h, "json", handler[h].frame, handler[h].todo, a)
         /\ arrived' = arrived /\ handler[h].frame \in 1 .. arrived /\ handler[h].todo # {}
<1>1. handler \in [Handlers -> HandlerStates] /\ HandlerOK(h)
  BY DEF BaseInv, HandlerInv
<1>2. PICK a \in handler[h].todo : handler' = [handler EXCEPT ![h].pc = "json", ![h].alert = a]
  BY DEF TakeAlert
<1>3. a \in Alerts /\ "json" \in Steps
  BY <1>1 DEF HandlerStates, Steps
<1>4. Becomes(h, "json", handler[h].frame, handler[h].todo, a)
  BY <1>1, <1>2, <1>3, SetsPcAndAlert
<1>5. handler[h].frame \in 1 .. arrived /\ handler[h].todo # {} /\ arrived' = arrived
  BY <1>1 DEF HandlerOK, TakeAlert
<1> QED BY <1>4, <1>5

(* The steps of the sinks stay at their alert.                               *)
Sinking(h, from, to) ==
  /\ handler[h].pc = from
  /\ Becomes(h, to, handler[h].frame, handler[h].todo, handler[h].alert)
  /\ arrived' = arrived /\ handler[h].frame \in 1 .. arrived
  /\ handler[h].alert \in handler[h].todo /\ handler[h].alert \in Alerts

LEMMA SinkEffect ==
  ASSUME BaseInv, NEW h \in Handlers
  PROVE  /\ CreateFile(h) => Sinking(h, "json", "text")
         /\ WriteText(h) => Sinking(h, "text", "sqlite")
         /\ Insert(h) \/ CommitFails(h) => Sinking(h, "sqlite", "dashboard")
         /\ SinkFails(h) => \/ Sinking(h, "json", "sqlite") \/ Sinking(h, "text", "sqlite")
                            \/ Sinking(h, "sqlite", "dashboard")
<1>1. handler \in [Handlers -> HandlerStates] /\ HandlerOK(h)
  BY DEF BaseInv, HandlerInv
<1>2. handler[h] \in HandlerStates
  BY <1>1
<1>3. ASSUME NEW from \in {"json", "text", "sqlite"}, NEW to \in {"text", "sqlite", "dashboard"},
             handler[h].pc = from, Moves(h, to), arrived' = arrived
      PROVE  Sinking(h, from, to)
  <2>1. to \in Steps
    BY <1>3 DEF Steps
  <2>2. Becomes(h, to, handler[h].frame, handler[h].todo, handler[h].alert)
    BY <1>1, <1>3, <2>1, SetsPc
  <2>3. handler[h].alert \in handler[h].todo /\ handler[h].frame \in 1 .. arrived
    BY <1>1, <1>3 DEF HandlerOK
  <2> QED BY <1>2, <1>3, <2>2, <2>3 DEF Sinking, HandlerStates
<1>4. CreateFile(h) => Sinking(h, "json", "text")
  BY <1>3 DEF CreateFile
<1>5. WriteText(h) => Sinking(h, "text", "sqlite")
  BY <1>3 DEF WriteText
<1>6. Insert(h) => Sinking(h, "sqlite", "dashboard")
  BY <1>3 DEF Insert
<1>7. CommitFails(h) => Sinking(h, "sqlite", "dashboard")
  BY <1>3 DEF CommitFails, AfterFailure
<1>8. ASSUME SinkFails(h)
      PROVE  \/ Sinking(h, "json", "sqlite") \/ Sinking(h, "text", "sqlite")
             \/ Sinking(h, "sqlite", "dashboard")
  <2>1. handler[h].pc \in {"json", "text", "sqlite"} /\ Moves(h, AfterFailure(h)) /\ arrived' = arrived
    BY <1>8 DEF SinkFails, Step
  <2> QED BY <1>3, <2>1 DEF AfterFailure
<1> QED BY <1>4, <1>5, <1>6, <1>7, <1>8

LEMMA DashboardEffect ==
  ASSUME BaseInv, NEW h \in Handlers, Dashboard(h)
  PROVE  LET a == handler[h].alert
             rest == handler[h].todo \ {a} IN
         /\ a \in handler[h].todo /\ a \in Alerts /\ rest \subseteq Alerts
         /\ handler[h].frame \in 1 .. arrived /\ arrived' = arrived
         /\ \/ rest = {} /\ Becomes(h, "idle", 0, {}, NoAlert)
            \/ rest # {} /\ Becomes(h, "next", handler[h].frame, rest, NoAlert)
<1> DEFINE a == handler[h].alert  rest == handler[h].todo \ {a}
<1>1. handler \in [Handlers -> HandlerStates] /\ HandlerOK(h) /\ handler[h].pc = "dashboard"
  BY DEF BaseInv, HandlerInv, Dashboard
<1>2. handler[h].todo \subseteq Alerts
  BY <1>1 DEF HandlerStates
<1>3. /\ a \in handler[h].todo /\ a \in Alerts /\ rest \subseteq Alerts
      /\ handler[h].frame \in 1 .. arrived /\ arrived' = arrived
  BY <1>1, <1>2 DEF HandlerOK, Dashboard
<1>4. handler' = [handler EXCEPT ![h] = IF rest = {} THEN Idle
                    ELSE [handler[h] EXCEPT !.pc = "next", !.todo = rest, !.alert = NoAlert]]
  BY DEF Dashboard, Emitted
<1>5. rest = {} => Becomes(h, "idle", 0, {}, NoAlert)
  <2> HIDE DEF rest
  <2> QED BY <1>1, <1>4, SetsIdle
<1>6. rest # {} => Becomes(h, "next", handler[h].frame, rest, NoAlert)
  <2>1. rest \in SUBSET Alerts /\ NoAlert \in Alerts \union {NoAlert}
    BY <1>3
  <2> HIDE DEF rest
  <2> QED BY <1>1, <1>4, <2>1, SetsNext
<1> QED BY <1>3, <1>5, <1>6

LEMMA SetsTodo ==
  ASSUME handler \in [Handlers -> HandlerStates], NEW h \in Handlers,
         NEW todo \in SUBSET Alerts,
         handler' = [handler EXCEPT ![h] = [handler[h] EXCEPT !.pc = "next", !.todo = todo]]
  PROVE  Becomes(h, "next", handler[h].frame, todo, handler[h].alert)
BY DEF Becomes, HandlerStates, Steps

(* What the engine made of the frame: each alert raised goes on record, and  *)
(* all evidence is for the alert on record.                                  *)
AlertOn(a)    == /\ decided'[a] = [kind |-> "alert", parent |-> NoAlert]
                 /\ fired'[a.track] = a
EvidenceOn(a) == /\ decided'[a] = [kind |-> "evidence", parent |-> fired[a.track]]
                 /\ fired[a.track] \in Alerts

Decides(h, todo) ==
  /\ handler[h].pc = "observe" /\ handler[h].frame \in 1 .. arrived /\ arrived' = arrived
  /\ \A a \in todo : a.frame = handler[h].frame
  /\ \/ todo = {} /\ Becomes(h, "idle", 0, {}, NoAlert)
     \/ todo # {} /\ Becomes(h, "next", handler[h].frame, todo, handler[h].alert)
  /\ decided' \in [Alerts -> Verdicts]
  /\ fired' \in [Tracks -> Alerts \union {NoAlert}]
  /\ \A a \in Alerts \ todo : decided'[a] = decided[a]
  /\ \A a \in todo : AlertOn(a) \/ EvidenceOn(a)
  /\ \A k \in Tracks : fired'[k] = fired[k] \/ (fired'[k] \in todo /\ AlertOn(fired'[k]))

LEMMA ObserveEffect ==
  ASSUME BaseInv, NEW h \in Handlers, Observe(h)
  PROVE  \E todo \in SUBSET Alerts : Decides(h, todo)
<1> DEFINE alert(k) == [frame |-> handler[h].frame, track |-> k]
           raised(what) == {alert(k) : k \in {t \in Tracks : what[t] # "none"}}
<1>1. PICK what \in [Tracks -> {"none", "alert", "evidence"}] :
        /\ \A k \in Tracks : what[k] = "evidence" => fired[k] # NoAlert
        /\ decided' = [a \in Alerts |->
             IF a \in raised(what)
             THEN [kind |-> what[a.track],
                   parent |-> IF what[a.track] = "alert" THEN NoAlert ELSE fired[a.track]]
             ELSE decided[a]]
        /\ fired' = [k \in Tracks |-> OnRecord(k, what[k], alert(k))]
        /\ handler' = [handler EXCEPT ![h] =
             IF raised(what) = {} THEN Idle
             ELSE [handler[h] EXCEPT !.pc = "next", !.todo = raised(what)]]
  BY DEF Observe
<1>2. /\ handler \in [Handlers -> HandlerStates] /\ HandlerOK(h) /\ handler[h].pc = "observe"
      /\ arrived \in 0 .. MaxFrames /\ arrived' = arrived
  BY DEF BaseInv, HandlerInv, Observe
<1>3. handler[h].frame \in 1 .. arrived /\ handler[h].frame \in 1 .. MaxFrames
  BY <1>2, StoreAssumption DEF HandlerOK
<1>4. \A k \in Tracks : alert(k) \in Alerts /\ alert(k).track = k /\ alert(k).frame = handler[h].frame
  BY <1>3 DEF Alerts
<1> DEFINE todo == raised(what)
<1>5. /\ todo \in SUBSET Alerts
      /\ \A a \in todo : /\ a.frame = handler[h].frame /\ a.track \in Tracks
                        /\ a = alert(a.track) /\ what[a.track] \in {"alert", "evidence"}
      /\ \A k \in Tracks : what[k] # "none" => alert(k) \in todo
  <2> HIDE DEF alert
  <2> QED BY <1>1, <1>4
<1>6. fired \in [Tracks -> Alerts \union {NoAlert}]
      /\ decided \in [Alerts -> Verdicts]
  BY DEF BaseInv, StoreTypes
<1> HIDE DEF todo, alert
<1>7. \/ todo = {} /\ Becomes(h, "idle", 0, {}, NoAlert)
      \/ todo # {} /\ Becomes(h, "next", handler[h].frame, todo, handler[h].alert)
  <2>1. handler' = [handler EXCEPT ![h] =
             IF todo = {} THEN Idle ELSE [handler[h] EXCEPT !.pc = "next", !.todo = todo]]
    BY <1>1 DEF todo
  <2>2. todo = {} => Becomes(h, "idle", 0, {}, NoAlert)
    BY <1>2, <2>1, SetsIdle
  <2>3. todo # {} => Becomes(h, "next", handler[h].frame, todo, handler[h].alert)
    BY <1>2, <1>5, <2>1, SetsTodo
  <2> QED BY <2>2, <2>3
<1>8. \A k \in Tracks : fired'[k] = OnRecord(k, what[k], alert(k))
  BY <1>1
<1>9. /\ decided' \in [Alerts -> Verdicts]
      /\ \A a \in Alerts \ todo : decided'[a] = decided[a]
      /\ \A a \in todo : decided'[a] = [kind |-> what[a.track],
             parent |-> IF what[a.track] = "alert" THEN NoAlert ELSE fired[a.track]]
  <2>1. decided' = [a \in Alerts |->
             IF a \in todo
             THEN [kind |-> what[a.track],
                   parent |-> IF what[a.track] = "alert" THEN NoAlert ELSE fired[a.track]]
             ELSE decided[a]]
    BY <1>1 DEF todo
  <2> QED BY <1>5, <1>6, <2>1 DEF Verdicts
<1>10. fired' \in [Tracks -> Alerts \union {NoAlert}]
  <2>1. \A k \in Tracks : OnRecord(k, what[k], alert(k)) \in Alerts \union {NoAlert}
    BY <1>4, <1>6 DEF OnRecord
  <2> QED BY <1>1, <2>1
<1>11. ASSUME NEW a \in todo PROVE AlertOn(a) \/ EvidenceOn(a)
  <2>1. a.track \in Tracks /\ a = alert(a.track)
    BY <1>5
  <2>2. CASE what[a.track] = "alert"
    BY <1>8, <1>9, <2>1, <2>2 DEF AlertOn, OnRecord
  <2>3. CASE what[a.track] = "evidence"
    <3>1. fired[a.track] \in Alerts
      BY <1>1, <1>6, <2>1, <2>3
    <3> QED BY <1>9, <2>1, <2>3, <3>1 DEF EvidenceOn
  <2> QED BY <1>5, <2>2, <2>3
<1>12. ASSUME NEW k \in Tracks, fired'[k] # fired[k]
       PROVE  fired'[k] \in todo /\ AlertOn(fired'[k])
  <2>1. what[k] = "alert" /\ fired'[k] = alert(k)
    BY <1>8, <1>12 DEF OnRecord
  <2>2. alert(k) \in todo /\ alert(k).track = k
    BY <1>4, <1>5, <2>1
  <2>3. decided'[alert(k)] = [kind |-> "alert", parent |-> NoAlert]
    BY <1>9, <2>1, <2>2
  <2> QED BY <2>1, <2>2, <2>3 DEF AlertOn
<1>13. \A a \in todo : a.frame = handler[h].frame
  BY <1>5
<1>14. todo \in SUBSET Alerts
  BY <1>5
<1>15. Decides(h, todo)
  BY <1>2, <1>3, <1>7, <1>9, <1>10, <1>11, <1>12, <1>13 DEF Decides
<1> QED BY <1>14, <1>15
-----------------------------------------------------------------------------
LEMMA InitHandlers == Init => HandlerInv
<1> SUFFICES ASSUME Init PROVE HandlerInv
  OBVIOUS
<1>1. Idle \in HandlerStates
  BY StoreAssumption DEF Idle, HandlerStates, Steps
<1>2. handler = [h \in Handlers |-> Idle] /\ arrived = 0
  BY DEF Init
<1> QED BY <1>1, <1>2, StoreAssumption DEF HandlerInv, HandlerOK, Idle

LEMMA InitStore == Init => StoreTypes
<1> SUFFICES ASSUME Init PROVE StoreTypes
  OBVIOUS
<1>1. columns \subseteq All
  <2>1. PICK n \in 0 .. 3 : columns = {NewColumns[i] : i \in 1 .. n}
    BY DEF Init
  <2>2. \A i \in 1 .. n : i \in 1 .. 3
    BY <2>1
  <2> QED BY <2>1, <2>2, Zenon DEF All
<1>2. /\ today \in 1 .. MaxDays /\ log \in [day : 0 .. MaxDays, open : BOOLEAN]
      /\ start \in 1 .. Up /\ slipped \in BOOLEAN /\ faults \in 0 .. MaxFaults
  <2>1. slipped \in BOOLEAN /\ FALSE \in BOOLEAN
    BY Zenon DEF Init
  <2>2. today \in 1 .. MaxDays /\ start \in 1 .. Up /\ faults \in 0 .. MaxFaults /\ 0 \in 0 .. MaxDays
    BY StoreAssumption DEF Init, Up
  <2>3. log \in [day : 0 .. MaxDays, open : BOOLEAN]
    BY <2>1, <2>2 DEF Init
  <2> QED BY <2>1, <2>2, <2>3
<1>3. /\ logged \subseteq 1 .. MaxFrames
      /\ rows \subseteq Alerts /\ open \subseteq Alerts /\ page \subseteq Alerts /\ cut \subseteq Alerts
      /\ fired \in [Tracks -> Alerts \union {NoAlert}]
      /\ json \in [Alerts -> {"none", "empty", "whole"}]
      /\ board \in [Alerts -> {"none", "posting", "got", "dropped"}]
      /\ failed \in [Alerts -> SUBSET {"json", "sqlite"}]
  BY DEF Init
<1>4. decided \in [Alerts -> Verdicts]
  BY DEF Init, Undecided, Verdicts
<1> QED BY <1>1, <1>2, <1>3, <1>4 DEF StoreTypes

LEMMA CrashHandlers ==
  ASSUME BaseInv, Crash
  PROVE  HandlerInv'
<1>1. Idle \in HandlerStates
  BY StoreAssumption DEF Idle, HandlerStates, Steps
<1>2. handler' = [h \in Handlers |-> Idle] /\ arrived' = arrived /\ arrived \in 0 .. MaxFrames
  BY DEF Crash, BaseInv, HandlerInv
<1> QED BY <1>1, <1>2 DEF HandlerInv, HandlerOK, Idle

LEMMA HandlerStep == BaseInv /\ [Next]_vars => HandlerInv'
<1> SUFFICES ASSUME BaseInv, [Next]_vars PROVE HandlerInv'
  OBVIOUS
<1>0. HandlerInv /\ arrived \in 0 .. MaxFrames
  BY DEF BaseInv, HandlerInv
<1>1. CASE AddColumn \/ AddColumnFails \/ Midnight \/ RecentAlerts
  BY <1>0, <1>1, HandlersKept, Zenon DEF AddColumn, AddColumnFails, Midnight, RecentAlerts
<1>2. CASE Crash
  BY <1>2, CrashHandlers
<1>3. CASE \E a \in Alerts : Posted(a)
  BY <1>0, <1>3, HandlersKept, Zenon DEF Posted
<1>4. CASE UNCHANGED vars
  BY <1>0, <1>4, HandlersKept, Zenon DEF vars
<1>5. ASSUME NEW h \in Handlers, Update(h) PROVE HandlerInv'
  <2>1. /\ Becomes(h, "log", arrived + 1, {}, handler[h].alert)
        /\ arrived' = arrived + 1 /\ arrived + 1 \in 1 .. MaxFrames
    BY <1>5, UpdateEffect
  <2>2. arrived' \in 0 .. MaxFrames /\ arrived <= arrived' /\ arrived + 1 \in 1 .. arrived'
    BY <1>0, <2>1
  <2> QED BY <1>0, <2>1, <2>2, HandlerMoved
<1>6. ASSUME NEW h \in Handlers, Line(h) PROVE HandlerInv'
  <2>1. /\ Becomes(h, "observe", handler[h].frame, {}, handler[h].alert)
        /\ arrived' = arrived /\ handler[h].frame \in 1 .. arrived
    BY <1>6, LineEffect
  <2> QED BY <1>0, <2>1, HandlerMoved
<1>7. ASSUME NEW h \in Handlers, OpenFails(h) \/ WriteFails(h) PROVE HandlerInv'
  <2>1. Becomes(h, "idle", 0, {}, NoAlert) /\ arrived' = arrived
    BY <1>7, LeaveEffect
  <2> QED BY <1>0, <2>1, HandlerMoved
<1>8. ASSUME NEW h \in Handlers, Observe(h) PROVE HandlerInv'
  <2>1. PICK todo \in SUBSET Alerts : Decides(h, todo)
    BY <1>8, ObserveEffect
  <2>2. /\ handler[h].frame \in 1 .. arrived /\ arrived' = arrived
        /\ \A a \in todo : a.frame = handler[h].frame
    BY <2>1 DEF Decides
  <2>3. CASE todo = {} /\ Becomes(h, "idle", 0, {}, NoAlert)
    BY <1>0, <2>2, <2>3, HandlerMoved
  <2>4. CASE todo # {} /\ Becomes(h, "next", handler[h].frame, todo, handler[h].alert)
    BY <1>0, <2>2, <2>4, HandlerMoved
  <2> QED BY <2>1, <2>3, <2>4 DEF Decides
<1>9. ASSUME NEW h \in Handlers, TakeAlert(h) PROVE HandlerInv'
  <2>1. /\ arrived' = arrived /\ handler[h].frame \in 1 .. arrived /\ handler[h].todo # {}
        /\ \A a \in handler[h].todo : a.frame = handler[h].frame
    BY <1>9, <1>0, TakeEffect DEF HandlerInv, HandlerOK
  <2>2. PICK a \in handler[h].todo : Becomes(h, "json", handler[h].frame, handler[h].todo, a)
    BY <1>9, TakeEffect
  <2> QED BY <1>0, <2>1, <2>2, HandlerMoved
<1>10. ASSUME NEW h \in Handlers, NEW from, NEW to \in {"text", "sqlite", "dashboard"},
              Sinking(h, from, to)
       PROVE  HandlerInv'
  <2>1. /\ Becomes(h, to, handler[h].frame, handler[h].todo, handler[h].alert)
        /\ arrived' = arrived /\ handler[h].frame \in 1 .. arrived
        /\ handler[h].alert \in handler[h].todo
    BY <1>10 DEF Sinking
  <2>2. \A a \in handler[h].todo : a.frame = handler[h].frame
    BY <1>0 DEF HandlerInv, HandlerOK
  <2> QED BY <1>0, <2>1, <2>2, HandlerMoved
<1>11. ASSUME NEW h \in Handlers,
              CreateFile(h) \/ WriteText(h) \/ Insert(h) \/ SinkFails(h) \/ CommitFails(h)
       PROVE  HandlerInv'
  BY <1>10, <1>11, SinkEffect
<1>12. ASSUME NEW h \in Handlers, Dashboard(h) PROVE HandlerInv'
  <2> DEFINE a == handler[h].alert  rest == handler[h].todo \ {a}
  <2>1. /\ handler[h].frame \in 1 .. arrived /\ arrived' = arrived
        /\ \/ rest = {} /\ Becomes(h, "idle", 0, {}, NoAlert)
           \/ rest # {} /\ Becomes(h, "next", handler[h].frame, rest, NoAlert)
    BY <1>12, DashboardEffect
  <2>2. \A b \in rest : b.frame = handler[h].frame
    BY <1>0 DEF HandlerInv, HandlerOK
  <2> HIDE DEF rest
  <2> QED BY <1>0, <2>1, <2>2, HandlerMoved
<1> QED BY <1>1, <1>2, <1>3, <1>4, <1>5, <1>6, <1>7, <1>8, <1>9, <1>11, <1>12 DEF Next, Handle

(* The parts of StoreTypes, by what writes them.                             *)
LogTypes ==
  /\ today \in 1 .. MaxDays
  /\ log \in [day : 0 .. MaxDays, open : BOOLEAN]
  /\ logged \subseteq 1 .. MaxFrames
EngineTypes == fired \in [Tracks -> Alerts \union {NoAlert}] /\ decided \in [Alerts -> Verdicts]
LifeTypes == start \in 1 .. Up /\ columns \subseteq All /\ slipped \in BOOLEAN
SinkTypes ==
  /\ json \in [Alerts -> {"none", "empty", "whole"}]
  /\ rows \subseteq Alerts /\ open \subseteq Alerts /\ page \subseteq Alerts
  /\ board \in [Alerts -> {"none", "posting", "got", "dropped"}]
  /\ failed \in [Alerts -> SUBSET {"json", "sqlite"}] /\ cut \subseteq Alerts
FaultTypes == faults \in 0 .. MaxFaults

LEMMA LogTypesKept ==
  ASSUME LogTypes, UNCHANGED <<today, log, logged>> PROVE LogTypes'
BY DEF LogTypes

LEMMA EngineTypesKept ==
  ASSUME EngineTypes, UNCHANGED <<fired, decided>> PROVE EngineTypes'
BY DEF EngineTypes

LEMMA LifeTypesKept ==
  ASSUME LifeTypes, UNCHANGED <<start, columns, slipped>> PROVE LifeTypes'
BY DEF LifeTypes

LEMMA SinkTypesKept ==
  ASSUME SinkTypes, UNCHANGED <<json, rows, open, page, board, failed, cut>> PROVE SinkTypes'
BY DEF SinkTypes

LEMMA FaultTypesKept ==
  ASSUME FaultTypes, Fault \/ UNCHANGED faults PROVE FaultTypes'
BY StoreAssumption DEF FaultTypes, Fault

LEMMA StoreParts ==
  StoreTypes <=> LogTypes /\ EngineTypes /\ LifeTypes /\ SinkTypes /\ FaultTypes
BY DEF StoreTypes, LogTypes, EngineTypes, LifeTypes, SinkTypes, FaultTypes

LEMMA LogStep == BaseInv /\ [Next]_vars => LogTypes'
<1> SUFFICES ASSUME BaseInv, [Next]_vars PROVE LogTypes'
  OBVIOUS
<1>0. LogTypes
  BY StoreParts DEF BaseInv
<1>1. CASE UNCHANGED <<today, log, logged>>
  BY <1>0, <1>1, LogTypesKept
<1>2. TRUE \in BOOLEAN /\ FALSE \in BOOLEAN
  BY Zenon
<1>3. today \in 0 .. MaxDays /\ 0 \in 0 .. MaxDays
  BY <1>0, StoreAssumption DEF LogTypes
<1>4. CASE Crash
  BY <1>0, <1>2, <1>3, <1>4 DEF Crash, LogTypes
<1>5. CASE Midnight
  BY <1>0, <1>5, StoreAssumption DEF Midnight, LogTypes, logging
<1>6. ASSUME NEW h \in Handlers, Line(h) PROVE LogTypes'
  <2>1. handler[h].frame \in 1 .. arrived /\ arrived \in 0 .. MaxFrames
    BY <1>6, LineEffect DEF BaseInv, HandlerInv
  <2>2. handler[h].frame \in 1 .. MaxFrames
    BY <2>1, StoreAssumption
  <2>3. log' = [day |-> today, open |-> TRUE] /\ logged' = logged \union {handler[h].frame}
        /\ today' = today
    BY <1>6 DEF Line
  <2> QED BY <1>0, <1>2, <1>3, <2>2, <2>3 DEF LogTypes
<1>7. ASSUME NEW h \in Handlers, OpenFails(h) PROVE LogTypes'
  BY <1>0, <1>2, <1>3, <1>7 DEF OpenFails, DayKept, LogTypes
<1>8. ASSUME NEW h \in Handlers, WriteFails(h) PROVE LogTypes'
  BY <1>0, <1>2, <1>3, <1>8 DEF WriteFails, LogTypes
<1>9. CASE AddColumn \/ AddColumnFails \/ RecentAlerts
  BY <1>9, <1>1, Zenon DEF AddColumn, AddColumnFails, RecentAlerts, logging
<1>10. CASE \E a \in Alerts : Posted(a)
  BY <1>10, <1>1, Zenon DEF Posted, logging
<1>11. CASE UNCHANGED vars
  BY <1>11, <1>1, Zenon DEF vars, logging
<1>12. ASSUME NEW h \in Handlers, Update(h) \/ Observe(h) \/ TakeAlert(h) \/ CreateFile(h)
              \/ WriteText(h) \/ Insert(h) \/ Dashboard(h) \/ SinkFails(h) \/ CommitFails(h)
       PROVE  LogTypes'
  <2>1. UNCHANGED <<today, log, logged>>
    BY <1>12, Zenon DEF Update, Observe, TakeAlert, CreateFile, WriteText, Insert, Dashboard,
       SinkFails, CommitFails, logging
  <2> QED BY <2>1, <1>1
<1> QED BY <1>4, <1>5, <1>6, <1>7, <1>8, <1>9, <1>10, <1>11, <1>12 DEF Next, Handle

LEMMA EngineStep == BaseInv /\ [Next]_vars => EngineTypes'
<1> SUFFICES ASSUME BaseInv, [Next]_vars PROVE EngineTypes'
  OBVIOUS
<1>0. EngineTypes
  BY StoreParts DEF BaseInv
<1>1. CASE UNCHANGED <<fired, decided>>
  BY <1>0, <1>1, EngineTypesKept
<1>2. CASE Crash
  BY <1>0, <1>2 DEF Crash, EngineTypes
<1>3. ASSUME NEW h \in Handlers, Observe(h) PROVE EngineTypes'
  <2>1. PICK todo \in SUBSET Alerts : Decides(h, todo)
    BY <1>3, ObserveEffect
  <2> QED BY <2>1 DEF Decides, EngineTypes
<1>4. CASE AddColumn \/ AddColumnFails \/ Midnight \/ RecentAlerts
  BY <1>4, <1>1, Zenon DEF AddColumn, AddColumnFails, RecentAlerts, Midnight
<1>5. CASE \E a \in Alerts : Posted(a)
  BY <1>5, <1>1, Zenon DEF Posted
<1>6. CASE UNCHANGED vars
  BY <1>6, <1>1, Zenon DEF vars
<1>7. ASSUME NEW h \in Handlers, Update(h) \/ Line(h) \/ OpenFails(h) \/ WriteFails(h)
             \/ TakeAlert(h) \/ CreateFile(h) \/ WriteText(h) \/ Insert(h) \/ Dashboard(h)
             \/ SinkFails(h) \/ CommitFails(h)
      PROVE  EngineTypes'
  <2>1. UNCHANGED <<fired, decided>>
    BY <1>7, Zenon DEF Update, Line, OpenFails, WriteFails, TakeAlert, CreateFile, WriteText,
       Insert, Dashboard, SinkFails, CommitFails
  <2> QED BY <2>1, <1>1
<1> QED BY <1>2, <1>3, <1>4, <1>5, <1>6, <1>7 DEF Next, Handle

LEMMA LifeStep == BaseInv /\ [Next]_vars => LifeTypes'
<1> SUFFICES ASSUME BaseInv, [Next]_vars PROVE LifeTypes'
  OBVIOUS
<1>0. LifeTypes
  BY StoreParts DEF BaseInv
<1>1. CASE UNCHANGED <<start, columns, slipped>>
  BY <1>0, <1>1, LifeTypesKept
<1>2. TRUE \in BOOLEAN /\ FALSE \in BOOLEAN
  BY Zenon
<1>3. start < Up => start \in 1 .. 3 /\ start + 1 \in 1 .. Up
  BY <1>0 DEF LifeTypes, Up
<1>4. CASE AddColumn
  <2>1. NewColumns[start] \in All
    BY <1>3, <1>4, Zenon DEF AddColumn, All
  <2> QED BY <1>0, <1>3, <1>4, <2>1, Zenon DEF AddColumn, LifeTypes
<1>5. CASE AddColumnFails
  BY <1>0, <1>2, <1>3, <1>5, Zenon DEF AddColumnFails, LifeTypes, store
<1>6. CASE Crash
  <2>1. 1 \in 1 .. Up
    BY DEF Up
  <2> QED BY <1>0, <1>2, <1>6, <2>1, Zenon DEF Crash, LifeTypes
<1>7. CASE Midnight \/ RecentAlerts
  BY <1>7, <1>1, Zenon DEF Midnight, RecentAlerts, life, store
<1>8. CASE \E a \in Alerts : Posted(a)
  BY <1>8, <1>1, Zenon DEF Posted, life
<1>9. CASE UNCHANGED vars
  BY <1>9, <1>1, Zenon DEF vars, life, store
<1>10. ASSUME NEW h \in Handlers, Handle(h) PROVE LifeTypes'
  <2>1. UNCHANGED <<start, columns, slipped>>
    BY <1>10, Zenon DEF Handle, Update, Line, OpenFails, WriteFails, Observe, TakeAlert,
       CreateFile, WriteText, Insert, Dashboard, SinkFails, CommitFails, life, store
  <2> QED BY <2>1, <1>1
<1> QED BY <1>4, <1>5, <1>6, <1>7, <1>8, <1>9, <1>10 DEF Next

LEMMA FaultStep == BaseInv /\ [Next]_vars => FaultTypes'
<1> SUFFICES ASSUME BaseInv, [Next]_vars PROVE FaultTypes'
  OBVIOUS
<1>0. FaultTypes
  BY StoreParts DEF BaseInv
<1>1. CASE Fault \/ UNCHANGED faults
  BY <1>0, <1>1, FaultTypesKept
<1>2. CASE AddColumn \/ AddColumnFails \/ Crash \/ Midnight \/ RecentAlerts
  BY <1>2, <1>1, Zenon DEF AddColumn, AddColumnFails, Crash, Midnight, RecentAlerts
<1>3. CASE \E a \in Alerts : Posted(a)
  BY <1>3, <1>1, Zenon DEF Posted
<1>4. CASE UNCHANGED vars
  BY <1>4, <1>1, Zenon DEF vars
<1>5. ASSUME NEW h \in Handlers, Handle(h) PROVE FaultTypes'
  <2>1. Fault \/ UNCHANGED faults
    BY <1>5, Zenon DEF Handle, Update, Line, OpenFails, WriteFails, Observe, TakeAlert,
       CreateFile, WriteText, Insert, Dashboard, SinkFails, CommitFails
  <2> QED BY <2>1, <1>1
<1> QED BY <1>2, <1>3, <1>4, <1>5 DEF Next

LEMMA SinkStep == BaseInv /\ [Next]_vars => SinkTypes'
<1> SUFFICES ASSUME BaseInv, [Next]_vars PROVE SinkTypes'
  OBVIOUS
<1>0. SinkTypes
  BY StoreParts DEF BaseInv
<1>1. CASE UNCHANGED <<json, rows, open, page, board, failed, cut>>
  BY <1>0, <1>1, SinkTypesKept
<1>2. CASE Crash
  <2>1. UNION {handler[h].todo : h \in Handlers} \subseteq Alerts
    BY DEF BaseInv, HandlerInv, HandlerStates
  <2>2. UNCHANGED <<json, rows, page, failed>> /\ open' = {}
        /\ cut' = cut \union UNION {handler[h].todo : h \in Handlers}
    BY <1>2 DEF Crash
  <2>3. board' \in [Alerts -> {"none", "posting", "got", "dropped"}]
    BY <1>0, <1>2 DEF Crash, SinkTypes
  <2> QED BY <1>0, <2>1, <2>2, <2>3 DEF SinkTypes
<1>3. CASE RecentAlerts
  <2>1. page' \subseteq Alerts
    BY <1>0, <1>3 DEF RecentAlerts, SinkTypes
  <2> QED BY <1>0, <1>3, <2>1 DEF RecentAlerts, SinkTypes, store, history
<1>4. ASSUME NEW a \in Alerts, Posted(a) PROVE SinkTypes'
  BY <1>0, <1>4 DEF Posted, SinkTypes, history
<1>5. ASSUME NEW h \in Handlers, CreateFile(h) \/ WriteText(h) PROVE SinkTypes'
  BY <1>0, <1>5 DEF CreateFile, WriteText, SinkTypes, history
<1>6. ASSUME NEW h \in Handlers, Insert(h) PROVE SinkTypes'
  <2>1. handler[h].alert \in Alerts
    BY <1>6, SinkEffect DEF Sinking
  <2> QED BY <1>0, <1>6, <2>1 DEF Insert, SinkTypes, history
<1>7. ASSUME NEW h \in Handlers, Dashboard(h) PROVE SinkTypes'
  BY <1>0, <1>7 DEF Dashboard, SinkTypes, history
<1>8. ASSUME NEW h \in Handlers, SinkFails(h) PROVE SinkTypes'
  <2>1. Step[handler[h].pc] \in {"json", "sqlite"}
    BY <1>8 DEF SinkFails, Step
  <2> QED BY <1>0, <1>8, <2>1 DEF SinkFails, SinkTypes, store
<1>9. ASSUME NEW h \in Handlers, CommitFails(h) PROVE SinkTypes'
  <2>1. handler[h].alert \in Alerts
    BY <1>9, SinkEffect DEF Sinking
  <2> QED BY <1>0, <1>9, <2>1 DEF CommitFails, SinkTypes
<1>10. CASE AddColumn \/ AddColumnFails \/ Midnight
  BY <1>10, <1>1, Zenon DEF AddColumn, AddColumnFails, Midnight, store, history
<1>11. CASE UNCHANGED vars
  BY <1>11, <1>1, Zenon DEF vars, store, history
<1>12. ASSUME NEW h \in Handlers,
              Update(h) \/ Line(h) \/ OpenFails(h) \/ WriteFails(h) \/ Observe(h) \/ TakeAlert(h)
       PROVE  SinkTypes'
  <2>1. UNCHANGED <<json, rows, open, page, board, failed, cut>>
    BY <1>12, Zenon DEF Update, Line, OpenFails, WriteFails, Observe, TakeAlert, store, history
  <2> QED BY <2>1, <1>1
<1> QED BY <1>2, <1>3, <1>4, <1>5, <1>6, <1>7, <1>8, <1>9, <1>10, <1>11, <1>12 DEF Next, Handle

LEMMA BaseStep == BaseInv /\ [Next]_vars => BaseInv'
BY HandlerStep, LogStep, EngineStep, LifeStep, SinkStep, FaultStep, StoreParts
DEF BaseInv, StoreTypes, LogTypes, EngineTypes, LifeTypes, SinkTypes, FaultTypes

LEMMA BaseHolds == Spec => []BaseInv
BY InitHandlers, InitStore, BaseStep, PTL DEF Spec, BaseInv

(* Every variable keeps its type, and a handler has alerts to emit exactly   *)
(* while it is emitting (AlertEngine._emit).                                 *)
THEOREM TypeCorrect == Spec => []TypeOK
BY BaseHolds, BaseTypes, PTL
-----------------------------------------------------------------------------
(* The line comes before anything the engine makes of the frame.             *)
LineFirst == \A h \in Handlers : handler[h].pc \in {"idle", "log"} \/ handler[h].frame \in logged

(* The log only grows.                                                       *)
LEMMA LinesStay == ASSUME BaseInv, [Next]_vars PROVE logged \subseteq logged'
<1>1. ASSUME NEW h \in Handlers, Handle(h) PROVE logged \subseteq logged'
  BY <1>1, Zenon DEF Handle, Update, Line, OpenFails, WriteFails, Observe, TakeAlert, CreateFile,
     WriteText, Insert, Dashboard, SinkFails, CommitFails, logging
<1>2. ASSUME NEW a \in Alerts, Posted(a) PROVE logged \subseteq logged'
  BY <1>2, Zenon DEF Posted, logging
<1> QED BY <1>1, <1>2, Zenon DEF Next, AddColumn, AddColumnFails, Crash, Midnight, RecentAlerts,
        vars, logging

LEMMA FrameKept ==
  ASSUME LineFirst, logged \subseteq logged', NEW h \in Handlers,
         NEW pc, NEW frame, NEW todo, NEW alert, Becomes(h, pc, frame, todo, alert),
         pc \in {"idle", "log"} \/ frame \in logged'
  PROVE  LineFirst'
BY DEF LineFirst, Becomes

LEMMA LineFirstStep ==
  ASSUME BaseInv, LineFirst, [Next]_vars PROVE LineFirst'
<1>1. logged \subseteq logged'
  BY LinesStay
<1>2. CASE UNCHANGED handler
  BY <1>1, <1>2 DEF LineFirst
<1>3. CASE Crash
  BY <1>3 DEF Crash, LineFirst, Idle
<1>4. CASE AddColumn \/ AddColumnFails \/ Midnight \/ RecentAlerts
  BY <1>4, <1>2, Zenon DEF AddColumn, AddColumnFails, Midnight, RecentAlerts
<1>5. CASE \E a \in Alerts : Posted(a)
  BY <1>5, <1>2, Zenon DEF Posted
<1>6. CASE UNCHANGED vars
  BY <1>6, <1>2, Zenon DEF vars
<1>7. ASSUME NEW h \in Handlers, Update(h) PROVE LineFirst'
  BY <1>1, <1>7, UpdateEffect, FrameKept
<1>8. ASSUME NEW h \in Handlers, Line(h) PROVE LineFirst'
  <2>1. handler[h].frame \in logged'
    BY <1>8 DEF Line
  <2> QED BY <1>1, <1>8, <2>1, LineEffect, FrameKept
<1>9. ASSUME NEW h \in Handlers, OpenFails(h) \/ WriteFails(h) PROVE LineFirst'
  BY <1>1, <1>9, LeaveEffect, FrameKept
<1>10. ASSUME NEW h \in Handlers, handler[h].pc \notin {"idle", "log"},
              NEW pc, NEW todo, NEW alert, Becomes(h, pc, handler[h].frame, todo, alert)
       PROVE  LineFirst'
  <2>1. handler[h].frame \in logged'
    BY <1>1, <1>10 DEF LineFirst
  <2> QED BY <1>1, <1>10, <2>1, FrameKept
<1>11. ASSUME NEW h \in Handlers, Observe(h) PROVE LineFirst'
  <2>1. PICK todo \in SUBSET Alerts : Decides(h, todo)
    BY <1>11, ObserveEffect
  <2>2. Becomes(h, "idle", 0, {}, NoAlert) => LineFirst'
    BY <1>1, FrameKept
  <2> QED BY <1>10, <2>1, <2>2 DEF Decides
<1>12. ASSUME NEW h \in Handlers, TakeAlert(h) PROVE LineFirst'
  <2>1. PICK a \in handler[h].todo : Becomes(h, "json", handler[h].frame, handler[h].todo, a)
    BY <1>12, TakeEffect
  <2>2. handler[h].pc = "next"
    BY <1>12 DEF TakeAlert
  <2> QED BY <1>10, <2>1, <2>2
<1>13. ASSUME NEW h \in Handlers, NEW from \in {"json", "text", "sqlite"}, NEW to,
              Sinking(h, from, to)
       PROVE  LineFirst'
  BY <1>10, <1>13 DEF Sinking
<1>14. ASSUME NEW h \in Handlers,
              CreateFile(h) \/ WriteText(h) \/ Insert(h) \/ SinkFails(h) \/ CommitFails(h)
       PROVE  LineFirst'
  BY <1>13, <1>14, SinkEffect
<1>15. ASSUME NEW h \in Handlers, Dashboard(h) PROVE LineFirst'
  <2> DEFINE rest == handler[h].todo \ {handler[h].alert}
  <2>1. \/ Becomes(h, "idle", 0, {}, NoAlert)
        \/ Becomes(h, "next", handler[h].frame, rest, NoAlert)
    BY <1>15, DashboardEffect
  <2>2. handler[h].pc = "dashboard"
    BY <1>15 DEF Dashboard
  <2>3. Becomes(h, "idle", 0, {}, NoAlert) => LineFirst'
    BY <1>1, FrameKept
  <2> HIDE DEF rest
  <2> QED BY <1>10, <2>1, <2>2, <2>3
<1> QED BY <1>3, <1>4, <1>5, <1>6, <1>7, <1>8, <1>9, <1>11, <1>12, <1>14, <1>15 DEF Next, Handle

(* The alert a sink is at was raised on a frame that has its line.           *)
LEMMA SinkingLogged ==
  ASSUME BaseInv, LineFirst, NEW h \in Handlers,
         handler[h].pc \in {"json", "text", "sqlite", "dashboard"}
  PROVE  handler[h].alert.frame \in logged
BY DEF BaseInv, HandlerInv, HandlerOK, LineFirst

LEMMA ReplayableStep ==
  ASSUME BaseInv, LineFirst, Replayable, [Next]_vars PROVE Replayable'
<1>1. logged \subseteq logged'
  BY LinesStay
<1> SUFFICES ASSUME NEW a \in Alerts, ~ Seen(a), Seen(a)' PROVE a.frame \in logged
  <2>1. \A a \in Alerts : Seen(a) => a.frame \in logged'
    BY <1>1 DEF Replayable
  <2> QED BY <1>1, <2>1 DEF Replayable
<1>2. json[a] = "none" /\ a \notin rows /\ a \notin open /\ a \notin page /\ board[a] = "none"
  BY DEF Seen
<1>3. json'[a] # "none" \/ a \in rows' \/ a \in open' \/ a \in page' \/ board'[a] # "none"
  BY DEF Seen
<1>0. StoreTypes
  BY DEF BaseInv
<1>4. UNCHANGED <<json, rows, open, page, board>> => FALSE
  BY <1>2, <1>3
<1>5. CASE AddColumn \/ AddColumnFails \/ Midnight
  BY <1>4, <1>5, Zenon DEF AddColumn, AddColumnFails, Midnight, store
<1>6. CASE UNCHANGED vars
  BY <1>4, <1>6, Zenon DEF vars, store
<1>7. CASE Crash
  BY <1>0, <1>2, <1>3, <1>7 DEF Crash, StoreTypes
<1>8. CASE RecentAlerts
  BY <1>2, <1>3, <1>8 DEF RecentAlerts, store
<1>9. ASSUME NEW b \in Alerts, Posted(b) PROVE a.frame \in logged
  BY <1>0, <1>2, <1>3, <1>9 DEF Posted, StoreTypes
<1>10. ASSUME NEW h \in Handlers,
              Update(h) \/ Line(h) \/ OpenFails(h) \/ WriteFails(h) \/ Observe(h) \/ TakeAlert(h)
              \/ SinkFails(h)
       PROVE  a.frame \in logged
  <2>1. UNCHANGED <<json, rows, open, page, board>>
    BY <1>10, Zenon DEF Update, Line, OpenFails, WriteFails, Observe, TakeAlert, SinkFails, store
  <2> QED BY <1>4, <2>1
<1>11. ASSUME NEW h \in Handlers,
              CreateFile(h) \/ WriteText(h) \/ Insert(h) \/ CommitFails(h) \/ Dashboard(h)
       PROVE  a.frame \in logged
  <2>1. handler[h].pc \in {"json", "text", "sqlite", "dashboard"}
    BY <1>11 DEF CreateFile, WriteText, Insert, CommitFails, Dashboard
  <2>2. a = handler[h].alert
    BY <1>0, <1>2, <1>3, <1>11 DEF CreateFile, WriteText, Insert, CommitFails, Dashboard, StoreTypes
  <2> QED BY <2>1, <2>2, SinkingLogged
<1> QED BY <1>5, <1>6, <1>7, <1>8, <1>9, <1>10, <1>11 DEF Next, Handle

LEMMA ReplayableInit == Init => LineFirst /\ Replayable
BY DEF Init, LineFirst, Replayable, Seen, Idle

(* Whatever can be seen of an alert anywhere, now or after a crash, the      *)
(* frame it was raised on is in the detection log: AlertEngine.update writes *)
(* the line before the engine decides.                                       *)
THEOREM ReplayableHolds == Spec => []Replayable
<1>1. Init => BaseInv /\ LineFirst /\ Replayable
  BY InitHandlers, InitStore, ReplayableInit DEF BaseInv
<1>2. BaseInv /\ LineFirst /\ Replayable /\ [Next]_vars => (BaseInv /\ LineFirst /\ Replayable)'
  BY BaseStep, LineFirstStep, ReplayableStep
<1> QED BY <1>1, <1>2, PTL DEF Spec
-----------------------------------------------------------------------------
(* The open file is that of the day, and the columns this start has passed   *)
(* are there, unless an error was passed over.                               *)
ResumeInv ==
  /\ log.day <= today
  /\ log.day = today => log.open
  /\ slipped \/ \A i \in 1 .. (start - 1) : NewColumns[i] \in columns

LEMMA ColumnStep ==
  ASSUME BaseInv, ResumeInv, [Next]_vars
  PROVE  slipped' \/ \A i \in 1 .. (start' - 1) : NewColumns[i] \in columns'
<1>0. start \in 1 .. Up
  BY DEF BaseInv, StoreTypes
<1>1. CASE UNCHANGED <<start, columns, slipped>>
  BY <1>1 DEF ResumeInv
<1>2. CASE AddColumn
  <2> SUFFICES ASSUME ~ slipped, NEW i \in 1 .. (start' - 1) PROVE NewColumns[i] \in columns'
    BY <1>2 DEF AddColumn
  <2>1. start' = start + 1 /\ columns' = columns \union {NewColumns[start]}
    BY <1>2 DEF AddColumn
  <2>2. i = start \/ i \in 1 .. (start - 1)
    BY <1>0, <2>1
  <2> QED BY <2>1, <2>2 DEF ResumeInv
<1>3. CASE AddColumnFails
  BY <1>3 DEF AddColumnFails
<1>4. CASE Crash
  BY <1>4 DEF Crash
<1>5. CASE Midnight \/ RecentAlerts
  BY <1>5, <1>1, Zenon DEF Midnight, RecentAlerts, life, store
<1>6. CASE \E a \in Alerts : Posted(a)
  BY <1>6, <1>1, Zenon DEF Posted, life
<1>7. CASE UNCHANGED vars
  BY <1>7, <1>1, Zenon DEF vars, life, store
<1>8. ASSUME NEW h \in Handlers, Handle(h)
      PROVE  slipped' \/ \A i \in 1 .. (start' - 1) : NewColumns[i] \in columns'
  <2>1. UNCHANGED <<start, columns, slipped>>
    BY <1>8, Zenon DEF Handle, Update, Line, OpenFails, WriteFails, Observe, TakeAlert,
       CreateFile, WriteText, Insert, Dashboard, SinkFails, CommitFails, life, store
  <2> QED BY <2>1, <1>1
<1> QED BY <1>2, <1>3, <1>4, <1>5, <1>6, <1>7, <1>8 DEF Next

LEMMA DayStep ==
  ASSUME BaseInv, ResumeInv, [Next]_vars
  PROVE  log'.day <= today' /\ (log'.day = today' => log'.open)
<1> DEFINE Good == log'.day <= today' /\ (log'.day = today' => log'.open)
<1>0. /\ log \in [day : 0 .. MaxDays, open : BOOLEAN] /\ today \in 1 .. MaxDays
      /\ log.day <= today /\ (log.day = today => log.open)
  BY DEF BaseInv, StoreTypes, ResumeInv
<1>1. CASE UNCHANGED <<log, today>>
  BY <1>0, <1>1
<1>2. CASE Midnight
  BY <1>0, <1>2, StoreAssumption DEF Midnight, logging
<1>3. CASE Crash
  BY <1>0, <1>3 DEF Crash
<1>4. ASSUME NEW h \in Handlers, Line(h) \/ WriteFails(h) PROVE Good
  <2>1. today' = today /\ (log' = [day |-> today, open |-> TRUE] \/ log' = log)
    BY <1>4 DEF Line, WriteFails
  <2>2. today <= today
    BY <1>0
  <2> QED BY <1>0, <2>1, <2>2
<1>5. ASSUME NEW h \in Handlers, OpenFails(h) PROVE Good
  BY <1>0, <1>5 DEF OpenFails, DayKept, NewDay
<1>6. CASE AddColumn \/ AddColumnFails \/ RecentAlerts
  BY <1>6, <1>1, Zenon DEF AddColumn, AddColumnFails, RecentAlerts, logging
<1>7. CASE \E a \in Alerts : Posted(a)
  BY <1>7, <1>1, Zenon DEF Posted, logging
<1>8. CASE UNCHANGED vars
  BY <1>8, <1>1, Zenon DEF vars, logging
<1>9. ASSUME NEW h \in Handlers, Update(h) \/ Observe(h) \/ TakeAlert(h) \/ CreateFile(h)
             \/ WriteText(h) \/ Insert(h) \/ Dashboard(h) \/ SinkFails(h) \/ CommitFails(h)
      PROVE  Good
  <2>1. UNCHANGED <<log, today>>
    BY <1>9, Zenon DEF Update, Observe, TakeAlert, CreateFile, WriteText, Insert, Dashboard,
       SinkFails, CommitFails, logging
  <2> QED BY <2>1, <1>1
<1> QED BY <1>2, <1>3, <1>4, <1>5, <1>6, <1>7, <1>8, <1>9 DEF Next, Handle

LEMMA ResumeInit == Init => ResumeInv
BY DEF Init, ResumeInv

LEMMA ColumnsComplete == BaseInv /\ ResumeInv => Resumes
<1> SUFFICES ASSUME BaseInv, ResumeInv, start = Up, ~ slipped PROVE columns = All
  BY DEF ResumeInv, Resumes
<1>1. \A i \in 1 .. 3 : NewColumns[i] \in columns
  BY DEF ResumeInv, Up
<1>2. columns \subseteq All
  BY DEF BaseInv, StoreTypes
<1> QED BY <1>1, <1>2, Zenon DEF All

(* After a rotation that failed the log is opened again, and a start that is *)
(* done has all the columns unless an error was passed over                  *)
(* (DetectionLogger.log, SqliteSink.__init__).                               *)
THEOREM ResumesHolds == Spec => []Resumes
<1>1. Init => BaseInv /\ ResumeInv
  BY InitHandlers, InitStore, ResumeInit DEF BaseInv
<1>2. BaseInv /\ ResumeInv /\ [Next]_vars => (BaseInv /\ ResumeInv)'
  BY BaseStep, ColumnStep, DayStep DEF ResumeInv
<1> QED BY <1>1, <1>2, ColumnsComplete, PTL DEF Spec
-----------------------------------------------------------------------------
(* What the engine decided is of a frame no handler has yet to show it, and  *)
(* is not decided again.  An alert on record was decided to be one.          *)
Ahead(h) == handler[h].pc \in {"log", "observe"}
DecisionInv ==
  /\ \A a \in Alerts : decided[a].kind # "none" =>
       a.frame <= arrived /\ \A h \in Handlers : Ahead(h) => handler[h].frame # a.frame
  /\ \A h \in Handlers : \A a \in handler[h].todo : decided[a].kind # "none"
  /\ \A k \in Tracks : fired[k] # NoAlert => decided[fired[k]].kind = "alert"
  /\ \A a \in Alerts : decided[a].kind = "evidence" =>
       decided[a].parent \in Alerts /\ decided[decided[a].parent].kind = "alert"

(* All that the steps other than Observe do to what DecisionInv is about.    *)
Undeciding ==
  /\ decided' = decided /\ arrived <= arrived'
  /\ \A k \in Tracks : fired'[k] = fired[k] \/ fired'[k] = NoAlert
  /\ \A h \in Handlers : handler'[h].todo \subseteq handler[h].todo
  /\ \A h \in Handlers : Ahead(h)' =>
       handler'[h].frame > arrived \/ (Ahead(h) /\ handler'[h].frame = handler[h].frame)

LEMMA HandlerGoesOn ==
  ASSUME BaseInv, NEW h \in Handlers, decided' = decided, fired' = fired, arrived <= arrived',
         NEW pc, NEW frame, NEW todo, NEW alert, Becomes(h, pc, frame, todo, alert),
         todo \subseteq handler[h].todo,
         \/ pc \notin {"log", "observe"}
         \/ frame > arrived
         \/ Ahead(h) /\ frame = handler[h].frame
  PROVE  Undeciding
BY DEF Undeciding, Becomes, Ahead

LEMMA NothingGoesOn ==
  ASSUME BaseInv, UNCHANGED <<decided, arrived, fired, handler>>
  PROVE  Undeciding
BY DEF BaseInv, HandlerInv, Undeciding, Ahead

LEMMA OtherSteps ==
  ASSUME BaseInv, [Next]_vars, \A h \in Handlers : ~ Observe(h)
  PROVE  Undeciding
<1>0. arrived \in 0 .. MaxFrames /\ arrived <= arrived
  BY DEF BaseInv, HandlerInv
<1>1. CASE UNCHANGED <<decided, arrived, fired, handler>>
  BY <1>1, NothingGoesOn
<1>2. CASE AddColumn \/ AddColumnFails \/ Midnight \/ RecentAlerts
  BY <1>2, <1>1, Zenon DEF AddColumn, AddColumnFails, Midnight, RecentAlerts
<1>3. CASE \E a \in Alerts : Posted(a)
  BY <1>3, <1>1, Zenon DEF Posted
<1>4. CASE UNCHANGED vars
  BY <1>4, <1>1, Zenon DEF vars
<1>5. CASE Crash
  BY <1>0, <1>5 DEF Crash, Undeciding, Ahead, Idle
<1>6. ASSUME NEW h \in Handlers, Update(h) PROVE Undeciding
  <2>1. /\ Becomes(h, "log", arrived + 1, {}, handler[h].alert) /\ arrived' = arrived + 1
        /\ decided' = decided /\ fired' = fired
    BY <1>6, UpdateEffect DEF Update
  <2>2. arrived + 1 > arrived /\ arrived <= arrived'
    BY <1>0, <2>1
  <2> QED BY <2>1, <2>2, HandlerGoesOn
<1>7. ASSUME NEW h \in Handlers, Line(h) PROVE Undeciding
  <2>1. /\ Becomes(h, "observe", handler[h].frame, {}, handler[h].alert) /\ arrived' = arrived
        /\ decided' = decided /\ fired' = fired /\ Ahead(h)
    BY <1>7, LineEffect DEF Line, Ahead
  <2> QED BY <1>0, <2>1, HandlerGoesOn
<1>8. ASSUME NEW h \in Handlers, OpenFails(h) \/ WriteFails(h) PROVE Undeciding
  <2>1. /\ Becomes(h, "idle", 0, {}, NoAlert) /\ arrived' = arrived
        /\ decided' = decided /\ fired' = fired
    BY <1>8, LeaveEffect DEF OpenFails, WriteFails
  <2> QED BY <1>0, <2>1, HandlerGoesOn
<1>9. ASSUME NEW h \in Handlers, TakeAlert(h) PROVE Undeciding
  <2>1. PICK a \in handler[h].todo : Becomes(h, "json", handler[h].frame, handler[h].todo, a)
    BY <1>9, TakeEffect
  <2>2. arrived' = arrived /\ decided' = decided /\ fired' = fired
    BY <1>9 DEF TakeAlert
  <2> QED BY <1>0, <2>1, <2>2, HandlerGoesOn
<1>10. ASSUME NEW h \in Handlers, NEW from, NEW to \in {"text", "sqlite", "dashboard"},
              Sinking(h, from, to), decided' = decided, fired' = fired
       PROVE  Undeciding
  <2>1. /\ Becomes(h, to, handler[h].frame, handler[h].todo, handler[h].alert)
        /\ arrived' = arrived
    BY <1>10 DEF Sinking
  <2> QED BY <1>0, <1>10, <2>1, HandlerGoesOn
<1>11. ASSUME NEW h \in Handlers,
              CreateFile(h) \/ WriteText(h) \/ Insert(h) \/ SinkFails(h) \/ CommitFails(h)
       PROVE  Undeciding
  <2>1. decided' = decided /\ fired' = fired
    BY <1>11, Zenon DEF CreateFile, WriteText, Insert, SinkFails, CommitFails
  <2> QED BY <1>10, <1>11, <2>1, SinkEffect
<1>12. ASSUME NEW h \in Handlers, Dashboard(h) PROVE Undeciding
  <2> DEFINE rest == handler[h].todo \ {handler[h].alert}
  <2>1. /\ arrived' = arrived
        /\ \/ Becomes(h, "idle", 0, {}, NoAlert)
           \/ Becomes(h, "next", handler[h].frame, rest, NoAlert)
    BY <1>12, DashboardEffect
  <2>2. rest \subseteq handler[h].todo /\ decided' = decided /\ fired' = fired
    BY <1>12 DEF Dashboard
  <2> HIDE DEF rest
  <2> QED BY <1>0, <2>1, <2>2, HandlerGoesOn
<1> QED BY <1>2, <1>3, <1>4, <1>5, <1>6, <1>7, <1>8, <1>9, <1>11, <1>12 DEF Next, Handle

LEMMA UndecidingStep ==
  ASSUME BaseInv, DecisionInv, Undeciding, arrived' \in 0 .. MaxFrames
  PROVE  DecisionInv'
<1>0. arrived \in 0 .. MaxFrames
  BY DEF BaseInv, HandlerInv
<1>1. ASSUME NEW a \in Alerts, decided'[a].kind # "none"
      PROVE  a.frame <= arrived' /\ \A h \in Handlers : Ahead(h)' => handler'[h].frame # a.frame
  <2>1. /\ a.frame <= arrived /\ a.frame \in Nat
        /\ \A h \in Handlers : Ahead(h) => handler[h].frame # a.frame
    BY <1>1 DEF DecisionInv, Undeciding, Alerts
  <2>2. ASSUME NEW h \in Handlers, Ahead(h)' PROVE handler'[h].frame # a.frame
    <3>1. CASE handler'[h].frame > arrived
      BY <1>0, <2>1, <3>1
    <3>2. CASE Ahead(h) /\ handler'[h].frame = handler[h].frame
      BY <2>1, <3>2
    <3> QED BY <2>2, <3>1, <3>2 DEF Undeciding
  <2>3. a.frame <= arrived'
    BY <1>0, <2>1 DEF Undeciding
  <2> QED BY <2>2, <2>3
<1>2. \A h \in Handlers : \A a \in handler'[h].todo : decided'[a].kind # "none"
  BY DEF DecisionInv, Undeciding
<1>3. \A k \in Tracks : fired'[k] # NoAlert => decided'[fired'[k]].kind = "alert"
  BY DEF DecisionInv, Undeciding
<1>4. \A a \in Alerts : decided'[a].kind = "evidence" =>
        decided'[a].parent \in Alerts /\ decided'[decided'[a].parent].kind = "alert"
  BY DEF DecisionInv, Undeciding
<1> QED BY <1>1, <1>2, <1>3, <1>4 DEF DecisionInv

(* The engine makes something of the alerts of a new frame only.             *)
LEMMA Fresh ==
  ASSUME BaseInv, DecisionInv, NEW h \in Handlers, NEW todo \in SUBSET Alerts, Decides(h, todo)
  PROVE  /\ \A a \in todo : decided[a].kind = "none"
         /\ \A a \in Alerts : decided[a].kind # "none" => decided'[a] = decided[a]
BY DEF DecisionInv, Decides, Ahead

LEMMA ObserveStep ==
  ASSUME BaseInv, DecisionInv, NEW h \in Handlers, Observe(h)
  PROVE  DecisionInv'
<1>1. PICK todo \in SUBSET Alerts : Decides(h, todo)
  BY ObserveEffect
<1>2. /\ \A a \in todo : decided[a].kind = "none"
      /\ \A a \in Alerts : decided[a].kind # "none" => decided'[a] = decided[a]
  BY <1>1, Fresh
<1>3. ASSUME NEW a \in todo PROVE decided'[a].kind # "none"
  <2>1. AlertOn(a) => decided'[a].kind = "alert"
    BY DEF AlertOn
  <2>2. EvidenceOn(a) => decided'[a].kind = "evidence"
    BY DEF EvidenceOn
  <2> QED BY <1>1, <2>1, <2>2 DEF Decides
<1>4. /\ handler[h].frame \in 1 .. arrived /\ arrived' = arrived
      /\ handler[h].pc = "observe"
      /\ \A g \in Handlers \ {h} : handler'[g] = handler[g]
      /\ handler'[h].pc \in {"idle", "next"} /\ handler'[h].todo = todo
  BY <1>1 DEF Decides, Becomes
<1>5. ASSUME NEW a \in Alerts, decided'[a].kind # "none"
      PROVE  a.frame <= arrived' /\ \A g \in Handlers : Ahead(g)' => handler'[g].frame # a.frame
  <2>1. CASE a \in todo
    <3>1. a.frame = handler[h].frame
      BY <1>1, <2>1 DEF Decides
    <3>2. \A g \in Handlers \ {h} : handler[g].frame # a.frame
      BY <1>4, <3>1 DEF BaseInv, HandlerInv
    <3> QED BY <1>4, <3>1, <3>2 DEF Ahead
  <2>2. CASE a \notin todo
    <3>1. decided[a].kind # "none"
      BY <1>1, <1>5, <2>2 DEF Decides
    <3> QED BY <1>4, <3>1 DEF Ahead, DecisionInv
  <2> QED BY <2>1, <2>2
<1>6. ASSUME NEW g \in Handlers, NEW a \in handler'[g].todo PROVE decided'[a].kind # "none"
  <2>1. CASE g = h
    BY <1>3, <1>4, <1>6, <2>1
  <2>2. CASE g # h
    <3>1. a \in handler[g].todo /\ a \in Alerts
      BY <1>4, <1>6, <2>2 DEF BaseInv, HandlerInv, HandlerStates
    <3> QED BY <1>2, <3>1 DEF DecisionInv
  <2> QED BY <2>1, <2>2
<1>7. ASSUME NEW k \in Tracks, fired'[k] # NoAlert PROVE decided'[fired'[k]].kind = "alert"
  <2>1. CASE fired'[k] = fired[k]
    <3>1. fired[k] \in Alerts /\ decided[fired[k]].kind = "alert"
      BY <1>7, <2>1 DEF DecisionInv, BaseInv, StoreTypes
    <3> QED BY <1>2, <2>1, <3>1
  <2>2. CASE AlertOn(fired'[k])
    BY <2>2 DEF AlertOn
  <2> QED BY <1>1, <2>1, <2>2 DEF Decides
<1>8. ASSUME NEW a \in Alerts, decided'[a].kind = "evidence"
      PROVE  decided'[a].parent \in Alerts /\ decided'[decided'[a].parent].kind = "alert"
  <2>1. CASE a \in todo
    <3>1. EvidenceOn(a)
      BY <1>1, <1>8, <2>1 DEF Decides, AlertOn
    <3>2. a.track \in Tracks
      BY DEF Alerts
    <3>3. decided'[a].parent = fired[a.track] /\ fired[a.track] \in Alerts
      BY <3>1 DEF EvidenceOn
    <3>4. fired[a.track] # NoAlert
      BY <3>3, StoreAssumption DEF Alerts, NoAlert
    <3>5. decided[fired[a.track]].kind = "alert"
      BY <3>2, <3>4 DEF DecisionInv
    <3> QED BY <1>2, <3>3, <3>5
  <2>2. CASE a \notin todo
    <3>1. decided'[a] = decided[a]
      BY <1>1, <2>2 DEF Decides
    <3>2. decided[a].parent \in Alerts /\ decided[decided[a].parent].kind = "alert"
      BY <1>8, <3>1 DEF DecisionInv
    <3> QED BY <1>2, <3>1, <3>2
  <2> QED BY <2>1, <2>2
<1> QED BY <1>5, <1>6, <1>7, <1>8 DEF DecisionInv

LEMMA DecisionStep ==
  ASSUME BaseInv, DecisionInv, [Next]_vars PROVE DecisionInv'
<1>1. arrived' \in 0 .. MaxFrames
  BY BaseStep DEF BaseInv, HandlerInv
<1>2. CASE \E h \in Handlers : Observe(h)
  BY <1>2, ObserveStep
<1>3. CASE \A h \in Handlers : ~ Observe(h)
  BY <1>1, <1>3, OtherSteps, UndecidingStep
<1> QED BY <1>2, <1>3

LEMMA DecisionInit == Init => DecisionInv
BY DEF Init, DecisionInv, Idle, Undecided
-----------------------------------------------------------------------------
(* What the sinks have made of an alert, and the sinks its handler has       *)
(* passed.                                                                   *)
InJson(a) == json[a] = "whole" \/ "json" \in failed[a]
InTable(a) == a \in rows \/ "sqlite" \in failed[a]

Passed(h) ==
  /\ handler[h].pc \in {"sqlite", "dashboard"} => InJson(handler[h].alert)
  /\ handler[h].pc = "dashboard" => InTable(handler[h].alert)

SinkInv ==
  /\ \A a \in Alerts :
       /\ Settled(a) => InJson(a) /\ InTable(a) /\ (decided[a].kind = "alert" => board[a] # "none")
       /\ decided[a].kind # "alert" => board[a] = "none"
  /\ \A h \in Handlers : Passed(h)

(* Only the handler that is at an alert starts its file again.               *)
Rewrites(a) == \E h \in Handlers : CreateFile(h) /\ handler[h].alert = a

LEMMA InTableStays ==
  ASSUME BaseInv, [Next]_vars, NEW a \in Alerts PROVE InTable(a) => InTable(a)'
<1>0. failed \in [Alerts -> SUBSET {"json", "sqlite"}]
  BY DEF BaseInv, StoreTypes
<1>1. CASE UNCHANGED <<rows, failed>>
  BY <1>1 DEF InTable
<1>2. ASSUME NEW h \in Handlers, Insert(h) PROVE InTable(a) => InTable(a)'
  BY <1>2 DEF Insert, InTable, history
<1>3. ASSUME NEW h \in Handlers, SinkFails(h) PROVE InTable(a) => InTable(a)'
  BY <1>0, <1>3 DEF SinkFails, InTable, store
<1>4. ASSUME NEW h \in Handlers, CommitFails(h) PROVE InTable(a) => InTable(a)'
  BY <1>0, <1>4 DEF CommitFails, InTable
<1>5. CASE AddColumn \/ AddColumnFails \/ Crash \/ Midnight \/ RecentAlerts
  BY <1>5, <1>1, Zenon DEF AddColumn, AddColumnFails, Crash, Midnight, RecentAlerts, store, history
<1>6. CASE \E b \in Alerts : Posted(b)
  BY <1>6, <1>1, Zenon DEF Posted, history
<1>7. CASE UNCHANGED vars
  BY <1>7, <1>1, Zenon DEF vars, store, history
<1>8. ASSUME NEW h \in Handlers, Update(h) \/ Line(h) \/ OpenFails(h) \/ WriteFails(h)
             \/ Observe(h) \/ TakeAlert(h) \/ CreateFile(h) \/ WriteText(h) \/ Dashboard(h)
      PROVE  InTable(a) => InTable(a)'
  <2>1. UNCHANGED <<rows, failed>>
    BY <1>8, Zenon DEF Update, Line, OpenFails, WriteFails, Observe, TakeAlert, CreateFile,
       WriteText, Dashboard, store, history
  <2> QED BY <2>1, <1>1
<1> QED BY <1>2, <1>3, <1>4, <1>5, <1>6, <1>7, <1>8 DEF Next, Handle

LEMMA InJsonStays ==
  ASSUME BaseInv, [Next]_vars, NEW a \in Alerts, ~ Rewrites(a) PROVE InJson(a) => InJson(a)'
<1>0. json \in [Alerts -> {"none", "empty", "whole"}] /\ failed \in [Alerts -> SUBSET {"json", "sqlite"}]
  BY DEF BaseInv, StoreTypes
<1>1. CASE UNCHANGED <<json, failed>>
  BY <1>1 DEF InJson
<1>2. ASSUME NEW h \in Handlers, CreateFile(h) PROVE InJson(a) => InJson(a)'
  BY <1>0, <1>2 DEF CreateFile, InJson, Rewrites, history
<1>3. ASSUME NEW h \in Handlers, WriteText(h) PROVE InJson(a) => InJson(a)'
  BY <1>0, <1>3 DEF WriteText, InJson, history
<1>4. ASSUME NEW h \in Handlers, SinkFails(h) PROVE InJson(a) => InJson(a)'
  BY <1>0, <1>4 DEF SinkFails, InJson, store
<1>5. ASSUME NEW h \in Handlers, CommitFails(h) PROVE InJson(a) => InJson(a)'
  BY <1>0, <1>5 DEF CommitFails, InJson
<1>6. CASE AddColumn \/ AddColumnFails \/ Crash \/ Midnight \/ RecentAlerts
  BY <1>6, <1>1, Zenon DEF AddColumn, AddColumnFails, Crash, Midnight, RecentAlerts, store, history
<1>7. CASE \E b \in Alerts : Posted(b)
  BY <1>7, <1>1, Zenon DEF Posted, history
<1>8. CASE UNCHANGED vars
  BY <1>8, <1>1, Zenon DEF vars, store, history
<1>9. ASSUME NEW h \in Handlers, Update(h) \/ Line(h) \/ OpenFails(h) \/ WriteFails(h)
             \/ Observe(h) \/ TakeAlert(h) \/ Insert(h) \/ Dashboard(h)
      PROVE  InJson(a) => InJson(a)'
  <2>1. UNCHANGED <<json, failed>>
    BY <1>9, Zenon DEF Update, Line, OpenFails, WriteFails, Observe, TakeAlert, Insert,
       Dashboard, store, history
  <2> QED BY <2>1, <1>1
<1> QED BY <1>2, <1>3, <1>4, <1>5, <1>6, <1>7, <1>8, <1>9 DEF Next, Handle

(* The dashboard gets what was an alert before the step.                     *)
LEMMA BoardStep ==
  ASSUME BaseInv, DecisionInv, [Next]_vars, NEW a \in Alerts
  PROVE  /\ board[a] # "none" => board'[a] # "none"
         /\ decided[a].kind # "alert" /\ board[a] = "none" => board'[a] = "none"
<1> DEFINE Good == /\ board[a] # "none" => board'[a] # "none"
                   /\ decided[a].kind # "alert" /\ board[a] = "none" => board'[a] = "none"
<1>0. board \in [Alerts -> {"none", "posting", "got", "dropped"}] /\ decided \in [Alerts -> Verdicts]
  BY DEF BaseInv, StoreTypes
<1>1. CASE board' = board
  BY <1>1
<1>2. CASE Crash
  BY <1>0, <1>2 DEF Crash
<1>3. ASSUME NEW b \in Alerts, Posted(b) PROVE Good
  BY <1>0, <1>3 DEF Posted
<1>4. ASSUME NEW h \in Handlers, Dashboard(h) PROVE Good
  <2>1. handler[h].alert \in handler[h].todo /\ handler[h].alert \in Alerts
    BY <1>4, DashboardEffect
  <2>2. decided[handler[h].alert].kind \in {"alert", "evidence"}
    BY <1>0, <2>1 DEF DecisionInv, Verdicts
  <2>3. board' = [board EXCEPT ![handler[h].alert] =
                    IF decided[handler[h].alert].kind = "evidence"
                    THEN board[handler[h].alert] ELSE "posting"]
    BY <1>4 DEF Dashboard
  <2> QED BY <1>0, <2>1, <2>2, <2>3
<1>5. CASE AddColumn \/ AddColumnFails \/ Midnight \/ RecentAlerts
  BY <1>5, <1>1, Zenon DEF AddColumn, AddColumnFails, Midnight, RecentAlerts, store
<1>6. CASE UNCHANGED vars
  BY <1>6, <1>1, Zenon DEF vars, store
<1>7. ASSUME NEW h \in Handlers, Update(h) \/ Line(h) \/ OpenFails(h) \/ WriteFails(h)
             \/ Observe(h) \/ TakeAlert(h) \/ CreateFile(h) \/ WriteText(h) \/ Insert(h)
             \/ SinkFails(h) \/ CommitFails(h)
      PROVE  Good
  <2>1. board' = board
    BY <1>7, Zenon DEF Update, Line, OpenFails, WriteFails, Observe, TakeAlert, CreateFile,
       WriteText, Insert, SinkFails, CommitFails, store
  <2> QED BY <2>1, <1>1
<1> QED BY <1>2, <1>3, <1>4, <1>5, <1>6, <1>7 DEF Next, Handle

(* A handler is moved by its own steps and by a crash.                       *)
LEMMA Alone ==
  ASSUME BaseInv, NEW g \in Handlers, Handle(g), NEW h \in Handlers, h # g
  PROVE  handler'[h] = handler[h]
<1>0. handler \in [Handlers -> HandlerStates]
  BY DEF BaseInv, HandlerInv
<1>1. CASE Update(g)
  BY <1>1, UpdateEffect DEF Becomes
<1>2. CASE Line(g)
  BY <1>2, LineEffect DEF Becomes
<1>3. CASE OpenFails(g) \/ WriteFails(g)
  BY <1>3, LeaveEffect DEF Becomes
<1>4. CASE Observe(g)
  <2>1. PICK todo \in SUBSET Alerts : Decides(g, todo)
    BY <1>4, ObserveEffect
  <2> QED BY <2>1 DEF Decides, Becomes
<1>5. CASE TakeAlert(g)
  <2>1. PICK a \in handler[g].todo : Becomes(g, "json", handler[g].frame, handler[g].todo, a)
    BY <1>5, TakeEffect
  <2> QED BY <2>1 DEF Becomes
<1>6. CASE CreateFile(g) \/ WriteText(g) \/ Insert(g) \/ SinkFails(g) \/ CommitFails(g)
  <2>1. \E pc : handler' = [handler EXCEPT ![g].pc = pc]
    BY <1>6, Zenon DEF CreateFile, WriteText, Insert, SinkFails, CommitFails, Moves
  <2> QED BY <1>0, <2>1
<1>7. CASE Dashboard(g)
  BY <1>7, DashboardEffect DEF Becomes
<1> QED BY <1>1, <1>2, <1>3, <1>4, <1>5, <1>6, <1>7 DEF Handle

LEMMA WhoMoves ==
  ASSUME BaseInv, [Next]_vars, NEW h \in Handlers
  PROVE  handler'[h] = handler[h] \/ Handle(h) \/ Crash
<1>1. ASSUME NEW g \in Handlers, Handle(g) PROVE handler'[h] = handler[h] \/ Handle(h)
  BY <1>1, Alone
<1>2. AddColumn \/ AddColumnFails \/ Midnight \/ RecentAlerts => handler' = handler
  BY Zenon DEF AddColumn, AddColumnFails, Midnight, RecentAlerts
<1>3. (\E a \in Alerts : Posted(a)) => handler' = handler
  BY Zenon DEF Posted
<1>4. UNCHANGED vars => handler' = handler
  BY Zenon DEF vars
<1> QED BY <1>1, <1>2, <1>3, <1>4 DEF Next

LEMMA CutStays == ASSUME [Next]_vars PROVE cut \subseteq cut'
<1>1. ASSUME NEW h \in Handlers, Handle(h) PROVE cut' = cut
  BY <1>1, Zenon DEF Handle, Update, Line, OpenFails, WriteFails, Observe, TakeAlert, CreateFile,
     WriteText, Insert, Dashboard, SinkFails, CommitFails, history
<1>2. (\E a \in Alerts : Posted(a)) => cut' = cut
  BY Zenon DEF Posted, history
<1>3. Crash => cut \subseteq cut'
  BY DEF Crash
<1>4. AddColumn \/ AddColumnFails \/ Midnight \/ RecentAlerts \/ UNCHANGED vars => cut' = cut
  BY Zenon DEF AddColumn, AddColumnFails, Midnight, RecentAlerts, history, vars
<1> QED BY <1>1, <1>2, <1>3, <1>4 DEF Next

(* An alert leaves its handler through the last sink, or in a crash.         *)
LEMMA TodoLeaves ==
  ASSUME BaseInv, [Next]_vars, NEW h \in Handlers, NEW a \in handler[h].todo,
         a \notin handler'[h].todo
  PROVE  a \in cut' \/ (Dashboard(h) /\ a = handler[h].alert)
<1>0. HandlerOK(h) /\ handler[h] \in HandlerStates
  BY DEF BaseInv, HandlerInv
<1>1. CASE Crash
  BY <1>1 DEF Crash
<1>2. handler[h].pc \notin {"idle", "log", "observe"}
  BY <1>0 DEF HandlerOK
<1>3. ~ (Update(h) \/ Line(h) \/ OpenFails(h) \/ WriteFails(h) \/ Observe(h))
  BY <1>2 DEF Update, Line, OpenFails, WriteFails, Observe
<1>4. ~ TakeAlert(h)
  BY TakeEffect DEF Becomes
<1>5. ~ (CreateFile(h) \/ WriteText(h) \/ Insert(h) \/ SinkFails(h) \/ CommitFails(h))
  BY SinkEffect DEF Sinking, Becomes
<1>6. CASE Dashboard(h)
  <2>1. handler'[h].todo = handler[h].todo \ {handler[h].alert}
    BY <1>6, DashboardEffect DEF Becomes
  <2> QED BY <1>6, <2>1
<1> QED BY <1>1, <1>3, <1>4, <1>5, <1>6, WhoMoves DEF Handle

LEMMA DecidedStays ==
  ASSUME BaseInv, DecisionInv, [Next]_vars, NEW a \in Alerts
  PROVE  /\ decided[a].kind # "none" => decided'[a] = decided[a]
         /\ decided[a].kind = "none" /\ decided'[a].kind # "none" => Emitting(a)'
<1>1. ASSUME NEW h \in Handlers, Observe(h)
      PROVE  /\ decided[a].kind # "none" => decided'[a] = decided[a]
             /\ decided[a].kind = "none" /\ decided'[a].kind # "none" => Emitting(a)'
  <2>1. PICK todo \in SUBSET Alerts : Decides(h, todo)
    BY <1>1, ObserveEffect
  <2>2. decided[a].kind # "none" => decided'[a] = decided[a]
    BY <2>1, Fresh
  <2>3. handler'[h].todo = todo /\ (a \notin todo => decided'[a] = decided[a])
    BY <2>1 DEF Decides, Becomes
  <2> QED BY <2>2, <2>3 DEF Emitting
<1>2. CASE \A h \in Handlers : ~ Observe(h)
  BY <1>2, OtherSteps DEF Undeciding
<1> QED BY <1>1, <1>2

LEMMA NotRewritten ==
  ASSUME BaseInv, NEW h \in Handlers, NEW a \in handler[h].todo, handler[h].pc # "json"
  PROVE  ~ Rewrites(a)
<1> SUFFICES ASSUME NEW g \in Handlers, CreateFile(g), handler[g].alert = a PROVE FALSE
  BY DEF Rewrites
<1>1. handler[g].pc = "json" /\ a \in handler[g].todo
  BY SinkEffect DEF Sinking
<1>2. /\ handler[g].frame = a.frame /\ handler[h].frame = a.frame
      /\ handler[g].frame \in 1 .. arrived /\ arrived \in 0 .. MaxFrames
  BY <1>1 DEF BaseInv, HandlerInv, HandlerOK
<1>3. handler[g].frame # 0
  BY <1>2
<1>4. g = h
  BY <1>2, <1>3 DEF BaseInv, HandlerInv
<1> QED BY <1>1, <1>4

LEMMA SettledStep ==
  ASSUME BaseInv, DecisionInv, SinkInv, [Next]_vars, NEW a \in Alerts, Settled(a)'
  PROVE  InJson(a)' /\ InTable(a)' /\ (decided'[a].kind = "alert" => board'[a] # "none")
<1>1. decided'[a].kind # "none" /\ ~ Emitting(a)' /\ a \notin cut /\ a \notin cut'
  BY CutStays DEF Settled
<1>2. decided[a].kind # "none" /\ decided'[a] = decided[a]
  BY <1>1, DecidedStays
<1>3. CASE ~ Emitting(a)
  <2>1. Settled(a)
    BY <1>1, <1>2, <1>3 DEF Settled
  <2>2. ~ Rewrites(a)
    BY <1>3, SinkEffect DEF Rewrites, Emitting, Sinking
  <2> QED BY <1>2, <2>1, <2>2, InJsonStays, InTableStays, BoardStep DEF SinkInv
<1>4. CASE Emitting(a)
  <2>1. PICK h \in Handlers : a \in handler[h].todo /\ a \notin handler'[h].todo
    BY <1>1, <1>4 DEF Emitting
  <2>2. Dashboard(h) /\ a = handler[h].alert
    BY <1>1, <2>1, TodoLeaves
  <2>3. InJson(a) /\ InTable(a) /\ handler[h].pc # "json"
    BY <2>2 DEF SinkInv, Passed, Dashboard
  <2>4. InJson(a)' /\ InTable(a)'
    BY <2>1, <2>3, NotRewritten, InJsonStays, InTableStays
  <2>5. decided[a].kind = "alert" => board'[a] = "posting"
    BY <2>2 DEF Dashboard, BaseInv, StoreTypes
  <2> QED BY <1>2, <2>4, <2>5
<1> QED BY <1>3, <1>4

LEMMA PassedStep ==
  ASSUME BaseInv, SinkInv, [Next]_vars, NEW h \in Handlers
  PROVE  Passed(h)'
<1>1. PICK a : a = handler[h].alert
  OBVIOUS
<1>2. /\ handler[h].pc \in {"json", "text", "sqlite", "dashboard"} =>
           a \in handler[h].todo /\ a \in Alerts
      /\ json \in [Alerts -> {"none", "empty", "whole"}]
      /\ failed \in [Alerts -> SUBSET {"json", "sqlite"}]
  BY <1>1 DEF BaseInv, HandlerInv, HandlerOK, HandlerStates, StoreTypes
<1>3. handler[h].pc \in {"sqlite", "dashboard"} => InJson(a)'
  <2> SUFFICES ASSUME handler[h].pc \in {"sqlite", "dashboard"} PROVE InJson(a)'
    OBVIOUS
  <2>1. InJson(a)
    BY <1>1 DEF SinkInv, Passed
  <2>2. ~ Rewrites(a)
    BY <1>2, NotRewritten
  <2> QED BY <1>2, <2>1, <2>2, InJsonStays
<1>4. ASSUME handler'[h].alert = a, InJson(a)', handler'[h].pc = "dashboard" => InTable(a)'
      PROVE  Passed(h)'
  BY <1>4 DEF Passed
<1>5. handler'[h].pc \notin {"sqlite", "dashboard"} => Passed(h)'
  BY DEF Passed
<1>6. CASE handler'[h] = handler[h]
  <2>1. handler[h].pc = "dashboard" => InTable(a)'
    BY <1>1, <1>2, InTableStays DEF SinkInv, Passed
  <2> QED BY <1>1, <1>3, <1>4, <1>5, <1>6, <2>1
<1>7. CASE Crash
  <2>1. handler'[h].pc = "idle"
    BY <1>7 DEF Crash, Idle
  <2> QED BY <1>5, <2>1
<1>8. CASE Update(h) \/ Line(h) \/ OpenFails(h) \/ WriteFails(h)
  <2>1. handler'[h].pc \in {"idle", "log", "observe"}
    BY <1>8, UpdateEffect, LineEffect, LeaveEffect DEF Becomes
  <2> QED BY <1>5, <2>1
<1>9. CASE Observe(h)
  <2>1. handler'[h].pc \in {"idle", "next"}
    BY <1>9, ObserveEffect DEF Decides, Becomes
  <2> QED BY <1>5, <2>1
<1>10. CASE TakeAlert(h) \/ CreateFile(h) \/ Dashboard(h)
  <2>1. handler'[h].pc \in {"json", "text", "idle", "next"}
    BY <1>10, TakeEffect, SinkEffect, DashboardEffect DEF Sinking, Becomes
  <2> QED BY <1>5, <2>1
<1>11. ASSUME NEW from, NEW to, Sinking(h, from, to)
       PROVE  /\ a \in Alerts /\ handler'[h].alert = a
              /\ handler[h].pc = from /\ handler'[h].pc = to
  BY <1>1, <1>11 DEF Sinking, Becomes
<1>12. CASE WriteText(h)
  <2>1. a \in Alerts /\ handler'[h].alert = a /\ handler'[h].pc = "sqlite"
    BY <1>11, <1>12, SinkEffect
  <2>2. InJson(a)'
    BY <1>1, <1>2, <1>12, <2>1 DEF WriteText, InJson
  <2> QED BY <1>4, <2>1, <2>2
<1>13. CASE Insert(h) \/ CommitFails(h)
  <2>1. a \in Alerts /\ handler'[h].alert = a /\ handler[h].pc = "sqlite"
    BY <1>11, <1>13, SinkEffect
  <2>2. Insert(h) => InTable(a)'
    BY <1>1 DEF Insert, InTable
  <2>3. CommitFails(h) => InTable(a)'
    BY <1>1, <1>2, <2>1 DEF CommitFails, InTable
  <2> QED BY <1>3, <1>4, <1>13, <2>1, <2>2, <2>3
<1>14. CASE SinkFails(h)
  <2>1. failed' = [failed EXCEPT ![a] = failed[a] \union {Step[handler[h].pc]}]
    BY <1>1, <1>14 DEF SinkFails
  <2>2. CASE \E from \in {"json", "text"} : Sinking(h, from, "sqlite")
    <3>1. /\ a \in Alerts /\ handler'[h].alert = a
          /\ handler[h].pc \in {"json", "text"} /\ handler'[h].pc = "sqlite"
      BY <1>11, <2>2
    <3>2. InJson(a)'
      BY <1>2, <2>1, <3>1 DEF InJson, Step
    <3> QED BY <1>4, <3>1, <3>2
  <2>3. CASE Sinking(h, "sqlite", "dashboard")
    <3>1. a \in Alerts /\ handler'[h].alert = a /\ handler[h].pc = "sqlite"
      BY <1>11, <2>3
    <3>2. InTable(a)'
      BY <1>2, <2>1, <3>1 DEF InTable, Step
    <3> QED BY <1>3, <1>4, <3>1, <3>2
  <2> QED BY <1>14, <2>2, <2>3, SinkEffect
<1> QED BY <1>6, <1>7, <1>8, <1>9, <1>10, <1>12, <1>13, <1>14, WhoMoves DEF Handle

LEMMA SinkInvStep ==
  ASSUME BaseInv, DecisionInv, SinkInv, [Next]_vars PROVE SinkInv'
<1>1. ASSUME NEW a \in Alerts, decided'[a].kind # "alert" PROVE board'[a] = "none"
  <2>1. decided[a].kind # "alert"
    BY <1>1, DecidedStays
  <2> QED BY <2>1, BoardStep DEF SinkInv
<1> QED BY <1>1, SettledStep, PassedStep DEF SinkInv

LEMMA SinkInvInit == Init => SinkInv
BY DEF Init, SinkInv, Passed, Idle, Undecided, Settled

LEMMA SinkInvHolds == Spec => [](BaseInv /\ DecisionInv /\ SinkInv)
<1>1. Init => BaseInv /\ DecisionInv /\ SinkInv
  BY InitHandlers, InitStore, DecisionInit, SinkInvInit DEF BaseInv
<1>2. BaseInv /\ DecisionInv /\ SinkInv /\ [Next]_vars => (BaseInv /\ DecisionInv /\ SinkInv)'
  BY BaseStep, DecisionStep, SinkInvStep
<1> QED BY <1>1, <1>2, PTL DEF Spec

LEMMA SinksLose == SinkInv => NothingLost
BY DEF SinkInv, NothingLost, InJson, InTable

(* An alert that has left _emit, and was not cut short by a crash, is in     *)
(* every store whose own sink did not fail on it, and evidence does not get  *)
(* to the dashboard (AlertEngine._emit).                                     *)
THEOREM NothingLostHolds == Spec => []NothingLost
BY SinkInvHolds, SinksLose, PTL

LEMMA EvidenceStored == DecisionInv /\ SinkInv => EvidenceHasAlert
<1> SUFFICES ASSUME DecisionInv, SinkInv, NEW a \in Alerts, NEW sink \in {"json", "sqlite"},
                    decided[a].kind = "evidence"
             PROVE  LET p == decided[a].parent IN
                    /\ p \in Alerts /\ decided[p].kind = "alert"
                    /\ Stored(p, sink) \/ Emitting(p) \/ p \in cut \/ sink \in failed[p]
  BY DEF EvidenceHasAlert
<1> DEFINE p == decided[a].parent
<1>1. p \in Alerts /\ decided[p].kind = "alert"
  BY DEF DecisionInv
<1>2. Emitting(p) \/ p \in cut \/ (InJson(p) /\ InTable(p))
  BY <1>1 DEF SinkInv, Settled
<1>3. Stored(p, sink) \/ Emitting(p) \/ p \in cut \/ sink \in failed[p]
  BY <1>2 DEF InJson, InTable, Stored
<1> QED BY <1>1, <1>3

(* Evidence that is stored belongs to an alert, and that alert is stored     *)
(* too, unless it is on its way, cut short, or the sink failed on it         *)
(* (AlertEngine.update, _emit).                                              *)
THEOREM EvidenceHasAlertHolds == Spec => []EvidenceHasAlert
BY SinkInvHolds, EvidenceStored, PTL
=============================================================================
