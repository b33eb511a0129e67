---------------------------- MODULE Fleet_proofs ----------------------------
(***************************************************************************)
(* Proofs about Fleet, for any number of peers, viewers, services and      *)
(* controllers, and any requests, crashes and removals of the segment.     *)
(***************************************************************************)
EXTENDS Fleet, SequenceTheorems, TLAPS

Headers ==
  [magic : {"fresh", "claiming", "ready"}, version : {"none", "ours"},
   mode : Transports \union {"unset"}]

(* What a peer knows of its segment at each point of createShm and           *)
(* checkTransport.  Nothing is said of who has claimed it: a second winner   *)
(* would do no harm, as both write the same.                                 *)
Knows(p) ==
  /\ pc[p] \in {"claim", "stamp", "publish", "spin", "check", "agree"} => seg[p] \in 1 .. Len(segs)
  /\ pc[p] = "create" => seg[p] = 0
  /\ pc[p] = "publish" => segs[seg[p]].version = "ours"
  /\ pc[p] = "spin" => segs[seg[p]].magic # "fresh"
  /\ pc[p] \in {"check", "agree"} => Whole(segs[seg[p]])
  /\ pc[p] = "run" /\ seg[p] # 0 => segs[seg[p]].mode = mode[p]

HeaderInv ==
  /\ \A i \in 1 .. Len(segs) : segs[i].magic = "ready" => Whole(segs[i])
  /\ \A p \in Peers : Knows(p)
  /\ \A v \in Viewers : view[v] # 0 => Whole(segs[view[v]])

FleetInv == TypeOK /\ HeaderInv

(* What never changes about a segment once it holds.                         *)
Matures(h, g) ==
  /\ h.magic # "fresh" => g.magic # "fresh"
  /\ h.version = "ours" => g.version = "ours"
  /\ Whole(h) => Whole(g)
  /\ h.mode # "unset" => g.mode = h.mode
  /\ g.magic = "ready" => h.magic = "ready" \/ Whole(g)

(* No step takes a segment away or sets it back.                             *)
SegsMature ==
  /\ segs' \in Seq(Headers) /\ Len(segs') <= MaxSegs
  /\ Len(segs) <= Len(segs')
  /\ \A i \in 1 .. Len(segs) : Matures(segs[i], segs'[i])
  /\ \A i \in 1 .. Len(segs') : i > Len(segs) => segs'[i] = Fresh
-----------------------------------------------------------------------------
LEMMA InitFleet == Init => FleetInv
<1> SUFFICES ASSUME Init PROVE FleetInv
  OBVIOUS
<1> USE FleetAssumption DEF Init
<1>1. TypeOK
  BY DEF TypeOK, Points, Transports, absent
<1>2. HeaderInv
  BY DEF HeaderInv, Knows, Units
<1> QED BY <1>1, <1>2 DEF FleetInv

(* The handshake follows from what each peer knows: those that run on one    *)
(* segment have its transport.                                               *)
LEMMA InvImpliesHandshake == FleetInv => Handshake
BY DEF FleetInv, HeaderInv, Knows, Handshake

(* One segment changes, and matures; or none does.                           *)
LEMMA OneMatures ==
  ASSUME TypeOK, NEW i \in 1 .. Len(segs), NEW g \in Headers,
         segs' = [segs EXCEPT ![i] = g], Matures(segs[i], g)
  PROVE  SegsMature
<1>1. segs \in Seq(Headers) /\ Len(segs) \in Nat /\ Len(segs) <= MaxSegs
  BY LenProperties DEF TypeOK, Headers
<1>2. segs' \in Seq(Headers) /\ Len(segs') = Len(segs)
  BY <1>1, ExceptSeq
<1>3. \A j \in 1 .. Len(segs) : segs'[j] = IF j = i THEN g ELSE segs[j]
  BY <1>1, ExceptSeq
<1>4. \A j \in 1 .. Len(segs) : Matures(segs[j], segs'[j])
  BY <1>3 DEF Matures
<1> QED BY <1>1, <1>2, <1>4 DEF SegsMature

LEMMA NoneMatures == ASSUME TypeOK, UNCHANGED segs PROVE SegsMature
<1>1. segs \in Seq(Headers) /\ Len(segs) \in Nat /\ Len(segs) <= MaxSegs
  BY LenProperties DEF TypeOK, Headers
<1> QED BY <1>1 DEF SegsMature, Matures

(* What peers and viewers know stays true when segments mature and they do   *)
(* not move, or move to a point at which there is nothing to know.           *)
LEMMA KnowledgeStays ==
  ASSUME FleetInv, SegsMature, NEW p \in Peers,
         seg'[p] = seg[p] \/ seg'[p] = 0, mode'[p] = mode[p] \/ pc'[p] # "run" \/ seg'[p] = 0,
         \/ pc'[p] = pc[p] /\ seg'[p] = seg[p]
         \/ pc'[p] \in {"off", "failed", "exec"}
         \/ pc'[p] \in {"create", "run"} /\ seg'[p] = 0
  PROVE  Knows(p)'
<1>1. Len(segs) \in Nat /\ seg[p] \in 0 .. Len(segs) /\ mode[p] \in Transports
  <2>1. mode[p] \in Transports
    BY FleetAssumption DEF FleetInv, TypeOK
  <2> QED BY <2>1, LenProperties DEF FleetInv, TypeOK
<1>2. Knows(p)
  BY DEF FleetInv, HeaderInv
<1>3. seg[p] # 0 => Matures(segs[seg[p]], segs'[seg[p]])
  BY <1>1 DEF SegsMature
<1>4. Len(segs) <= Len(segs') /\ Len(segs') \in Nat
  BY LenProperties DEF SegsMature
<1> QED BY <1>1, <1>2, <1>3, <1>4 DEF Knows, Matures, Transports

LEMMA ViewsStay ==
  ASSUME FleetInv, SegsMature, NEW v \in Viewers, view'[v] \in {0, view[v]}
  PROVE  view'[v] # 0 => Whole(segs'[view'[v]])
<1>1. Len(segs) \in Nat /\ view[v] \in 0 .. Len(segs)
  BY LenProperties DEF FleetInv, TypeOK
<1> QED BY <1>1 DEF FleetInv, HeaderInv, SegsMature, Matures

(* A header that is ready is whole, in what a mature segment can be.         *)
LEMMA ReadyIsWhole ==
  ASSUME FleetInv, SegsMature
  PROVE  \A i \in 1 .. Len(segs') : segs'[i].magic = "ready" => Whole(segs'[i])
<1>1. Len(segs) \in Nat /\ Len(segs') \in Nat
  BY LenProperties DEF FleetInv, TypeOK, SegsMature
<1> QED BY <1>1 DEF FleetInv, HeaderInv, SegsMature, Matures, Fresh
(* What a step has to leave true, in one place.                              *)
LEMMA Combine ==
  ASSUME FleetInv, TypeOK', SegsMature, \A p \in Peers : Knows(p)',
         \A v \in Viewers : view'[v] # 0 => Whole(segs'[view'[v]])
  PROVE  FleetInv'
BY ReadyIsWhole DEF FleetInv, HeaderInv
-----------------------------------------------------------------------------
(* A function on the first numbers is a sequence.                            *)
LEMMA FunctionIsSeq ==
  ASSUME NEW S, NEW n \in Nat, NEW f \in [1 .. n -> S]
  PROVE  f \in Seq(S)
OBVIOUS

(* Requests are sequences of commands.                                       *)
LEMMA EachTyped ==
  ASSUME NEW do \in Verbs, NEW order \in Seq(Units)
  PROVE  Each(do, order) \in Seq(Commands)
<1>1. \A i \in 1 .. Len(order) : order[i] \in Units
  BY ElementOfSeq
<1>2. DOMAIN order = 1 .. Len(order) /\ Len(order) \in Nat
  BY LenProperties
<1>3. Each(do, order) \in [1 .. Len(order) -> Commands]
  BY <1>1, <1>2 DEF Each, Cmd, Commands
<1> QED BY <1>2, <1>3, FunctionIsSeq

LEMMA RenderTyped ==
  ASSUME NEW order \in Seq(Units), NEW value \in Transports \union {absent}
  PROVE  Render(order, value) \in Seq(Commands)
<1>1. \A i \in 1 .. Len(order) : order[i] \in Units
  BY ElementOfSeq
<1>2. Len(order) \in Nat
  BY LenProperties
<1>3. \A i \in 1 .. 2 * Len(order) : (i + 1) \div 2 \in 1 .. Len(order)
  BY <1>2
<1>4. Render(order, value) \in [1 .. 2 * Len(order) -> Commands]
  BY <1>1, <1>3 DEF Render, Cmd, Commands
<1> QED BY <1>2, <1>4, FunctionIsSeq

LEMMA RequestsTyped ==
  ASSUME NEW c \in Controllers, Request(c)
  PROVE  \E request \in Seq(Commands) : Ask(c, request)
<1> USE FleetAssumption
<1>1. \A u \in Units, do \in Verbs \union {"write", "log"}, value \in Transports \union {absent} :
        <<Cmd(do, u, value)>> \in Seq(Commands)
  BY DEF Cmd, Commands
<1>2. SERVICES[1] \in Units
  BY ElementOfSeq, EmptySeq, LenProperties
<1>3. \A t \in Transports : SetFrameTransport(t) \in Seq(Commands)
  <2> SUFFICES ASSUME NEW t \in Transports PROVE SetFrameTransport(t) \in Seq(Commands)
    OBVIOUS
  <2>1. Render(SERVICES, t) \in Seq(Commands)
    BY RenderTyped
  <2>2. Each("restart", SERVICES) \in Seq(Commands)
    BY EachTyped DEF Verbs
  <2>3. <<Cmd("log", SERVICES[1], t)>> \in Seq(Commands)
    BY <1>1, <1>2
  <2>4. Render(SERVICES, t) \o Each("restart", SERVICES) \in Seq(Commands)
    BY <2>1, <2>2, ConcatProperties
  <2> QED BY <2>3, <2>4, ConcatProperties DEF SetFrameTransport
<1>4. \A u \in Units, value \in Transports \union {absent}, restart \in BOOLEAN :
        Configure(u, value, restart) \in Seq(Commands)
  <2> SUFFICES ASSUME NEW u \in Units, NEW value \in Transports \union {absent},
                      NEW restart \in BOOLEAN
               PROVE  Configure(u, value, restart) \in Seq(Commands)
    OBVIOUS
  <2>1. <<u>> \in Seq(Units)
    OBVIOUS
  <2>2. Render(<<u>>, value) \in Seq(Commands)
    BY <2>1, RenderTyped
  <2>3. <<Cmd("restart", u, absent)>> \in Seq(Commands)
    BY <1>1 DEF Verbs
  <2>4. << >> \in Seq(Commands)
    OBVIOUS
  <2> QED BY <2>2, <2>3, <2>4, ConcatProperties DEF Configure
<1>5. \A verb \in Verbs, u \in Units : <<Cmd(verb, u, absent)>> \in Seq(Commands)
  BY <1>1
<1>6. StartUp \in Seq(Commands)
  BY EachTyped DEF StartUp, Verbs
<1>7. Reverse(STARTUP_ORDER) \in Seq(Units)
  <2>1. \A i \in 1 .. Len(STARTUP_ORDER) : STARTUP_ORDER[i] \in Units
    BY ElementOfSeq
  <2>2. Len(STARTUP_ORDER) \in Nat
    BY LenProperties
  <2>3. Reverse(STARTUP_ORDER) \in [1 .. Len(STARTUP_ORDER) -> Units]
    BY <2>1, <2>2 DEF Reverse
  <2> QED BY <2>2, <2>3, FunctionIsSeq
<1>8. Shutdown \in Seq(Commands)
  BY <1>7, EachTyped DEF Shutdown, Verbs
<1>9. Shutdown \o StartUp \in Seq(Commands)
  BY <1>6, <1>8, ConcatProperties
<1> QED BY <1>3, <1>4, <1>5, <1>6, <1>8, <1>9 DEF Request
-----------------------------------------------------------------------------
(* The steps of a process that starts.  *)

LEMMA ExecStep == ASSUME FleetInv, NEW u \in Units, Exec(u) PROVE FleetInv'
<1> USE FleetAssumption DEF Exec, Go, control
<1>1. SegsMature
  BY NoneMatures DEF FleetInv
<1>2. TypeOK'
  BY DEF FleetInv, TypeOK, Points, frameTransport, Transports
<1>3. \A p \in Peers : Knows(p)'
  BY <1>1, KnowledgeStays DEF FleetInv, TypeOK
<1>4. \A v \in Viewers : view'[v] # 0 => Whole(segs'[view'[v]])
  BY <1>1, ViewsStay
<1> QED BY <1>1, <1>2, <1>3, <1>4, Combine

LEMMA CreateStep == ASSUME FleetInv, NEW p \in Peers, Create(p) PROVE FleetInv'
<1> USE FleetAssumption DEF Create, Go, control
<1>0. /\ segs \in Seq(Headers) /\ Len(segs) \in Nat /\ cur \in 0 .. Len(segs)
      /\ cur = 0 => Len(segs) < MaxSegs
  BY LenProperties DEF FleetInv, TypeOK, Headers
<1>1. SegsMature /\ cur' \in 1 .. Len(segs')
  <2>1. CASE cur # 0
    BY <2>1, <1>0, NoneMatures DEF FleetInv
  <2>2. CASE cur = 0
    <3>1. Fresh \in Headers
      BY DEF Fresh, Headers
    <3>2. segs' = Append(segs, Fresh) /\ cur' = Len(segs) + 1
      BY <2>2
    <3>3. segs' \in Seq(Headers) /\ Len(segs') = Len(segs) + 1
      BY <3>1, <3>2, <1>0, AppendProperties
    <3>4. \A i \in 1 .. Len(segs) : Matures(segs[i], segs'[i])
      BY <3>1, <3>2, <1>0, AppendProperties DEF Matures
    <3>5. \A i \in 1 .. Len(segs') : i > Len(segs) => segs'[i] = Fresh
      BY <3>1, <3>2, <3>3, <1>0, AppendProperties
    <3> QED BY <2>2, <3>2, <3>3, <3>4, <3>5, <1>0 DEF SegsMature
  <2> QED BY <2>1, <2>2
<1>2. TypeOK'
  <2>1. cur' \in 0 .. Len(segs') /\ cur' # 0 /\ Len(segs') <= MaxSegs /\ Len(segs') \in Nat
    BY <1>1, LenProperties DEF SegsMature
  <2>2. Len(segs) <= Len(segs') /\ segs' \in Seq(Headers)
    BY <1>1 DEF SegsMature
  <2> QED BY <2>1, <2>2, <1>0 DEF FleetInv, TypeOK, Points, Headers
<1>3. \A q \in Peers : Knows(q)'
  <2>1. ASSUME NEW q \in Peers, q # p PROVE Knows(q)'
    BY <2>1, <1>1, KnowledgeStays DEF FleetInv, TypeOK
  <2>2. Knows(p)'
    BY <1>1 DEF Knows, FleetInv, TypeOK
  <2> QED BY <2>1, <2>2
<1>4. \A v \in Viewers : view'[v] # 0 => Whole(segs'[view'[v]])
  BY <1>1, ViewsStay
<1> QED BY <1>1, <1>2, <1>3, <1>4, Combine

LEMMA CreateFailsStep == ASSUME FleetInv, NEW p \in Peers, CreateFails(p) PROVE FleetInv'
<1> USE FleetAssumption DEF CreateFails, Go, control, header
<1>1. SegsMature
  BY NoneMatures DEF FleetInv
<1>2. TypeOK'
  BY DEF FleetInv, TypeOK, Points
<1>3. \A q \in Peers : Knows(q)'
  BY <1>1, KnowledgeStays DEF FleetInv, TypeOK, HeaderInv, Knows
<1>4. \A v \in Viewers : view'[v] # 0 => Whole(segs'[view'[v]])
  BY <1>1, ViewsStay
<1> QED BY <1>1, <1>2, <1>3, <1>4, Combine

(* A step of a peer that changes its point, and at most its own header, to   *)
(* one that the old one matures to.                                          *)
LEMMA PeerStep ==
  ASSUME FleetInv, NEW p \in Peers, NEW there \in Points, NEW g \in Headers,
         pc[p] \in {"claim", "stamp", "publish", "spin", "check", "agree"},
         pc' = [pc EXCEPT ![p] = there],
         segs' = [segs EXCEPT ![seg[p]] = g], Matures(segs[seg[p]], g),
         there # "create",
         there = "publish" => g.version = "ours",
         there = "spin" => g.magic # "fresh",
         there \in {"check", "agree"} => Whole(g),
         there = "run" => g.mode = mode[p],
         UNCHANGED <<cur, seg, mode, view, faults, control>>
  PROVE  FleetInv'
<1> USE FleetAssumption DEF control
<1>0. seg[p] \in 1 .. Len(segs) /\ segs \in Seq(Headers) /\ Len(segs) \in Nat
  BY LenProperties DEF FleetInv, HeaderInv, Knows, TypeOK, Headers
<1>1. SegsMature
  BY <1>0, OneMatures DEF FleetInv
<1>2. segs' \in Seq(Headers) /\ Len(segs') = Len(segs) /\ segs'[seg[p]] = g
  BY <1>0, ExceptSeq
<1>3. TypeOK'
  BY <1>2, <1>0 DEF FleetInv, TypeOK, Headers
<1>4. \A q \in Peers : Knows(q)'
  <2>1. ASSUME NEW q \in Peers, q # p PROVE Knows(q)'
    BY <2>1, <1>1, KnowledgeStays DEF FleetInv, TypeOK
  <2>2. Knows(p)'
    BY <1>0, <1>2 DEF Knows, FleetInv, TypeOK
  <2> QED BY <2>1, <2>2
<1>5. \A v \in Viewers : view'[v] # 0 => Whole(segs'[view'[v]])
  BY <1>1, ViewsStay
<1> QED BY <1>1, <1>3, <1>4, <1>5, Combine

(* What a peer sees of its header while it starts.                           *)
LEMMA OwnHeader ==
  ASSUME FleetInv, NEW p \in Peers,
         pc[p] \in {"claim", "stamp", "publish", "spin", "check", "agree"}
  PROVE  /\ segs[seg[p]] \in Headers
         /\ segs[seg[p]].magic = "ready" => Whole(segs[seg[p]])
         /\ [segs EXCEPT ![seg[p]] = segs[seg[p]]] = segs
         /\ Matures(segs[seg[p]], segs[seg[p]])
<1>1. seg[p] \in 1 .. Len(segs) /\ segs \in Seq(Headers) /\ Len(segs) \in Nat
  BY LenProperties DEF FleetInv, HeaderInv, Knows, TypeOK, Headers
<1>2. segs \in [1 .. Len(segs) -> Headers]
  BY <1>1, LenProperties
<1> QED BY <1>1, <1>2 DEF FleetInv, HeaderInv, Matures

LEMMA ClaimStep == ASSUME FleetInv, NEW p \in Peers, Claim(p) PROVE FleetInv'
<1> USE DEF Claim
<1> DEFINE h == segs[seg[p]]
           g == [h EXCEPT !.magic = "claiming"]
<1>1. /\ h \in Headers
      /\ Matures(h, h)
      /\ [segs EXCEPT ![seg[p]] = h] = segs
  BY OwnHeader
<1>2. CASE h.magic = "fresh"
  <2>1. g \in Headers /\ Matures(h, g)
    BY <1>1, <1>2 DEF Headers, Matures, Whole
  <2>2. segs' = [segs EXCEPT ![seg[p]] = g]
    BY <1>2
  <2> QED BY <1>2, <2>1, <2>2, PeerStep DEF Points
<1>3. CASE h.magic # "fresh"
  BY <1>1, <1>3, PeerStep DEF Points
<1> QED BY <1>2, <1>3

LEMMA StampStep == ASSUME FleetInv, NEW p \in Peers, Stamp(p) PROVE FleetInv'
<1> USE DEF Stamp, Go
<1> DEFINE h == segs[seg[p]]
           g == [h EXCEPT !.version = "ours"]
<1>1. h \in Headers /\ (h.magic = "ready" => Whole(h))
  BY OwnHeader
<1>2. g \in Headers /\ Matures(h, g) /\ g.version = "ours"
  BY <1>1 DEF Headers, Matures, Whole
<1>3. segs' = [segs EXCEPT ![seg[p]] = g]
  BY DEF Written
<1> QED BY <1>2, <1>3, PeerStep DEF Points

LEMMA PublishStep == ASSUME FleetInv, NEW p \in Peers, Publish(p) PROVE FleetInv'
<1> USE DEF Publish, Go
<1> DEFINE h == segs[seg[p]]
           g == [h EXCEPT !.magic = "ready"]
<1>1. h \in Headers /\ h.version = "ours"
  BY OwnHeader DEF FleetInv, HeaderInv, Knows
<1>2. g \in Headers /\ Whole(g) /\ Matures(h, g)
  BY <1>1 DEF Headers, Matures, Whole
<1>3. segs' = [segs EXCEPT ![seg[p]] = g]
  BY DEF Written
<1> QED BY <1>2, <1>3, PeerStep DEF Points

LEMMA SpinStep == ASSUME FleetInv, NEW p \in Peers, Spin(p) PROVE FleetInv'
<1> USE DEF Spin, Go, header
<1>1. /\ segs[seg[p]] \in Headers
      /\ Matures(segs[seg[p]], segs[seg[p]])
      /\ segs' = [segs EXCEPT ![seg[p]] = segs[seg[p]]]
  BY OwnHeader
(* Whoever spins found a header that was not fresh, and now it is not        *)
(* claimed either.                                                           *)
<1>2. Whole(segs[seg[p]])
  <2>1. segs[seg[p]].magic # "fresh" /\ segs[seg[p]].magic # "claiming"
    BY DEF FleetInv, HeaderInv, Knows
  <2>2. segs[seg[p]].magic = "ready"
    BY <1>1, <2>1 DEF Headers
  <2> QED BY <2>2, OwnHeader
<1> QED BY <1>1, <1>2, PeerStep DEF Points

LEMMA CheckStep == ASSUME FleetInv, NEW p \in Peers, Check(p) PROVE FleetInv'
<1> USE DEF Check, Go, header
<1>1. /\ segs[seg[p]] \in Headers
      /\ Matures(segs[seg[p]], segs[seg[p]])
      /\ segs' = [segs EXCEPT ![seg[p]] = segs[seg[p]]]
  BY OwnHeader
<1>2. Whole(segs[seg[p]])
  BY DEF FleetInv, HeaderInv, Knows
<1> QED BY <1>1, <1>2, PeerStep DEF Points

LEMMA AgreeStep == ASSUME FleetInv, NEW p \in Peers, Agree(p) PROVE FleetInv'
<1> USE DEF Agree, Go
<1> DEFINE h == segs[seg[p]]
           g == [h EXCEPT !.mode = mode[p]]
<1>1. /\ h \in Headers
      /\ Matures(h, h)
      /\ [segs EXCEPT ![seg[p]] = h] = segs
  BY OwnHeader
<1>2. mode[p] \in Transports
  BY FleetAssumption DEF FleetInv, TypeOK
<1>3. CASE h.mode = "unset"
  <2>1. g \in Headers /\ g.mode = mode[p] /\ Matures(h, g)
    BY <1>1, <1>2, <1>3 DEF Headers, Matures, Whole
  <2>2. segs' = [segs EXCEPT ![seg[p]] = g]
    BY <1>3
  <2>3. pc' = [pc EXCEPT ![p] = "run"]
    BY <1>3 DEF Accepts
  <2> QED BY <2>1, <2>2, <2>3, PeerStep DEF Points
<1>4. CASE h.mode # "unset" /\ h.mode = mode[p]
  <2>1. pc' = [pc EXCEPT ![p] = "run"]
    BY <1>4 DEF Accepts
  <2> QED BY <1>1, <1>4, <2>1, PeerStep DEF Points
<1>5. CASE h.mode # "unset" /\ h.mode # mode[p]
  <2>1. pc' = [pc EXCEPT ![p] = "failed"]
    BY <1>5 DEF Accepts
  <2> QED BY <1>1, <1>5, <2>1, PeerStep DEF Points
<1> QED BY <1>3, <1>4, <1>5
-----------------------------------------------------------------------------
(* The other steps: none of them writes to a segment.                        *)

LEMMA QuietStep ==
  ASSUME FleetInv, TypeOK', UNCHANGED <<segs, seg, mode, view>>,
         \A u \in Units : pc'[u] = pc[u] \/ pc'[u] \in {"off", "failed", "exec"}
  PROVE  FleetInv'
<1>1. SegsMature
  BY NoneMatures DEF FleetInv
<1>2. \A p \in Peers : Knows(p)'
  BY <1>1, KnowledgeStays, FleetAssumption
<1>3. \A v \in Viewers : view'[v] # 0 => Whole(segs'[view'[v]])
  BY <1>1, ViewsStay
<1> QED BY <1>1, <1>2, <1>3, Combine

LEMMA ReviveStep == ASSUME FleetInv, NEW u \in Units, Revive(u) PROVE FleetInv'
<1>1. TypeOK'
  BY DEF FleetInv, TypeOK, Points, Revive, Go, header, control
<1> QED BY <1>1, QuietStep DEF Revive, Go, header, control, FleetInv, TypeOK

LEMMA KillStep == ASSUME FleetInv, NEW u \in Units, Kill(u) PROVE FleetInv'
<1>1. TypeOK'
  BY FleetAssumption DEF FleetInv, TypeOK, Points, Kill, header, control
<1> QED BY <1>1, QuietStep DEF Kill, header, control, FleetInv, TypeOK

LEMMA AttachStep == ASSUME FleetInv, NEW v \in Viewers, Attach(v) PROVE FleetInv'
<1> USE DEF Attach, header, control
<1>1. SegsMature
  BY NoneMatures DEF FleetInv
<1>2. TypeOK'
  BY DEF FleetInv, TypeOK
<1>3. \A p \in Peers : Knows(p)'
  BY <1>1, KnowledgeStays DEF FleetInv, TypeOK
<1>4. \A w \in Viewers : view'[w] # 0 => Whole(segs'[view'[w]])
  <2>1. ASSUME NEW w \in Viewers, w # v PROVE view'[w] # 0 => Whole(segs'[view'[w]])
    BY <2>1, <1>1, ViewsStay DEF FleetInv, TypeOK
  <2>2. Whole(segs'[view'[v]])
    BY DEF FleetInv, TypeOK
  <2> QED BY <2>1, <2>2
<1> QED BY <1>1, <1>2, <1>3, <1>4, Combine

LEMMA RemoveSegmentStep == ASSUME FleetInv, RemoveSegment PROVE FleetInv'
<1>1. TypeOK'
  BY FleetAssumption, LenProperties DEF FleetInv, TypeOK, RemoveSegment
<1> QED BY <1>1, QuietStep DEF RemoveSegment

LEMMA RequestStep == ASSUME FleetInv, NEW c \in Controllers, Request(c) PROVE FleetInv'
<1>1. PICK request \in Seq(Commands) : Ask(c, request)
  BY RequestsTyped
<1>2. TypeOK'
  BY <1>1, FleetAssumption DEF FleetInv, TypeOK, Ask, header
<1> QED BY <1>1, <1>2, QuietStep DEF Ask, header

LEMMA CommandStep == ASSUME FleetInv, NEW c \in Controllers, Command(c) PROVE FleetInv'
<1> USE DEF header
<1>1. /\ jobs[c] \in Seq(Commands) /\ jobs[c] # << >>
      /\ Head(jobs[c]) \in Commands /\ Tail(jobs[c]) \in Seq(Commands)
  BY HeadTailProperties DEF FleetInv, TypeOK, Command
<1>2. jobs' \in [Controllers -> Seq(Commands)]
  BY <1>1 DEF FleetInv, TypeOK, Command
<1>3. /\ file' \in [Units -> Transports \union {absent}]
      /\ applied' \in Transports \union {absent}
      /\ pc' \in [Units -> Points]
      /\ \A u \in Units : pc'[u] = pc[u] \/ pc'[u] \in {"off", "failed", "exec"}
  <2> DEFINE cmd == Head(jobs[c])
  <2>1. /\ cmd.to \in Units /\ cmd.with \in Transports \union {absent}
    BY <1>1 DEF Commands
  <2>2. CASE cmd.do = "write" /\ file' = [file EXCEPT ![cmd.to] = cmd.with]
             /\ UNCHANGED <<pc, applied>>
    BY <2>1, <2>2 DEF FleetInv, TypeOK
  <2>3. CASE cmd.do = "log" /\ applied' = cmd.with /\ UNCHANGED <<pc, file>>
    BY <2>1, <2>3 DEF FleetInv, TypeOK
  <2>4. CASE cmd.do \in Verbs /\ Systemctl(cmd.do, cmd.to) /\ UNCHANGED <<file, applied>>
    BY <2>1, <2>4 DEF FleetInv, TypeOK, Verbs, Systemctl, Points
  <2> QED BY <2>2, <2>3, <2>4 DEF Command
<1>4. TypeOK'
  BY <1>2, <1>3 DEF FleetInv, TypeOK, Command
<1> QED BY <1>3, <1>4, QuietStep DEF Command

LEMMA CommandFailsStep ==
  ASSUME FleetInv, NEW c \in Controllers, CommandFails(c) PROVE FleetInv'
<1> USE DEF header
<1>1. jobs[c] \in Seq(Commands) /\ jobs[c] # << >> /\ Tail(jobs[c]) \in Seq(Commands)
  BY HeadTailProperties DEF FleetInv, TypeOK, CommandFails
<1>2. jobs' \in [Controllers -> Seq(Commands)]
  BY <1>1, EmptySeq DEF FleetInv, TypeOK, CommandFails
<1>3. TypeOK'
  BY <1>2, FleetAssumption DEF FleetInv, TypeOK, CommandFails
<1> QED BY <1>3, QuietStep DEF CommandFails
-----------------------------------------------------------------------------
LEMMA NextStep == FleetInv /\ [Next]_vars => FleetInv'
<1> SUFFICES ASSUME FleetInv, [Next]_vars PROVE FleetInv'
  OBVIOUS
<1>1. ASSUME NEW u \in Units, Exec(u) \/ Revive(u) \/ Kill(u) PROVE FleetInv'
  BY <1>1, ExecStep, ReviveStep, KillStep
<1>2. ASSUME NEW p \in Peers, StartPeer(p) \/ CreateFails(p) PROVE FleetInv'
  BY <1>2, CreateStep, ClaimStep, StampStep, PublishStep, SpinStep, CheckStep, AgreeStep,
     CreateFailsStep DEF StartPeer
<1>3. ASSUME NEW v \in Viewers, Attach(v) PROVE FleetInv'
  BY <1>3, AttachStep
<1>4. ASSUME NEW c \in Controllers, Request(c) \/ Command(c) \/ CommandFails(c) PROVE FleetInv'
  BY <1>4, RequestStep, CommandStep, CommandFailsStep
<1>5. CASE RemoveSegment
  BY <1>5, RemoveSegmentStep
<1>6. CASE UNCHANGED vars
  <2>1. TypeOK'
    BY <1>6 DEF vars, FleetInv, TypeOK
  <2> QED BY <1>6, <2>1, QuietStep DEF vars
<1> QED BY <1>1, <1>2, <1>3, <1>4, <1>5, <1>6 DEF Next

(* The inductive invariant. *)
THEOREM FleetInvHolds == Spec => []FleetInv
<1> QED BY InitFleet, NextStep, PTL DEF Spec

(* Type correctness of the fleet, whatever requests are made of it.          *)
THEOREM TypeCorrect == Spec => []TypeOK
<1>1. FleetInv => TypeOK
  BY DEF FleetInv
<1> QED BY <1>1, FleetInvHolds, PTL

(* createShm, initHeader and checkTransport: a header that is read is whole, *)
(* and the peers that run on one segment have one transport.                 *)
THEOREM HandshakeHolds == Spec => []Handshake
<1> QED BY InvImpliesHandshake, FleetInvHolds, PTL
=============================================================================
