------------------------- MODULE ServiceLinks_proofs --------------------------
(***************************************************************************)
(* Proofs about ServiceLinks, for any number of requests at a time and in  *)
(* all, and any number of faults.                                          *)
(***************************************************************************)
EXTENDS ServiceLinks, SequenceTheorems, TLAPS

Cmds == [verb : {"start", "stop"}, svc : Services]
Cmd(v, s) == [verb |-> v, svc |-> s]

(* A sequence of three, as it comes out of the orders.                       *)
LEMMA ThreeCommands ==
  ASSUME NEW f, f = [i \in 1 .. 3 |-> f[i]], \A i \in 1 .. 3 : f[i] \in Cmds
  PROVE  f \in Seq(Cmds) /\ Len(f) = 3
<1>1. f \in [1 .. 3 -> Cmds]
  OBVIOUS
<1> QED BY <1>1

LEMMA StopCommands ==
  LET p == Stops(SHUTDOWN_ORDER) IN
  /\ p \in Seq(Cmds) /\ Len(p) = 3
  /\ p[1] = Cmd("stop", "ingest") /\ p[2] = Cmd("stop", "inference")
  /\ p[3] = Cmd("stop", "tracking")
<1> DEFINE p == Stops(SHUTDOWN_ORDER)
<1>1. DOMAIN SHUTDOWN_ORDER = 1 .. 3
  BY DEF SHUTDOWN_ORDER
<1>2. p = [i \in 1 .. 3 |-> Cmd("stop", SHUTDOWN_ORDER[i])]
  BY <1>1 DEF Stops, Cmd
<1>3. /\ p[1] = Cmd("stop", "ingest") /\ p[2] = Cmd("stop", "inference")
      /\ p[3] = Cmd("stop", "tracking")
  BY <1>2 DEF SHUTDOWN_ORDER
<1>4. /\ Cmd("stop", "ingest") \in Cmds /\ Cmd("stop", "inference") \in Cmds
      /\ Cmd("stop", "tracking") \in Cmds
  BY DEF Cmd, Cmds, Services
<1>5. \A i \in 1 .. 3 : p[i] \in Cmds
  BY <1>3, <1>4
<1>6. p = [i \in 1 .. 3 |-> p[i]]
  BY <1>2
<1> HIDE DEF p
<1>7. p \in Seq(Cmds) /\ Len(p) = 3
  BY <1>5, <1>6, ThreeCommands
<1> QED BY <1>3, <1>7 DEF p

LEMMA StartCommands ==
  LET p == Starts(STARTUP_ORDER) IN
  /\ p \in Seq(Cmds) /\ Len(p) = 3
  /\ p[1] = Cmd("start", "tracking") /\ p[2] = Cmd("start", "inference")
  /\ p[3] = Cmd("start", "ingest")
<1> DEFINE p == Starts(STARTUP_ORDER)
<1>1. DOMAIN STARTUP_ORDER = 1 .. 3
  BY DEF STARTUP_ORDER
<1>2. p = [i \in 1 .. 3 |-> Cmd("start", STARTUP_ORDER[i])]
  BY <1>1 DEF Starts, Cmd
<1>3. /\ p[1] = Cmd("start", "tracking") /\ p[2] = Cmd("start", "inference")
      /\ p[3] = Cmd("start", "ingest")
  BY <1>2 DEF STARTUP_ORDER
<1>4. /\ Cmd("start", "tracking") \in Cmds /\ Cmd("start", "inference") \in Cmds
      /\ Cmd("start", "ingest") \in Cmds
  BY DEF Cmd, Cmds, Services
<1>5. \A i \in 1 .. 3 : p[i] \in Cmds
  BY <1>3, <1>4
<1>6. p = [i \in 1 .. 3 |-> p[i]]
  BY <1>2
<1> HIDE DEF p
<1>7. p \in Seq(Cmds) /\ Len(p) = 3
  BY <1>5, <1>6, ThreeCommands
<1> QED BY <1>3, <1>7 DEF p

(* The commands of a full restart, one by one.                               *)
LEMMA RestartPlan ==
  LET p == Plan("restart") IN
  /\ Len(p) = 6
  /\ p[1] = Cmd("stop", "ingest") /\ p[2] = Cmd("stop", "inference")
  /\ p[3] = Cmd("stop", "tracking") /\ p[4] = Cmd("start", "tracking")
  /\ p[5] = Cmd("start", "inference") /\ p[6] = Cmd("start", "ingest")
<1> DEFINE a == Stops(SHUTDOWN_ORDER)  b == Starts(STARTUP_ORDER)
<1>1. Plan("restart") = a \o b
  BY DEF Plan
<1>2. /\ a \in Seq(Cmds) /\ Len(a) = 3
      /\ a[1] = Cmd("stop", "ingest") /\ a[2] = Cmd("stop", "inference")
      /\ a[3] = Cmd("stop", "tracking")
  BY StopCommands
<1>3. /\ b \in Seq(Cmds) /\ Len(b) = 3
      /\ b[1] = Cmd("start", "tracking") /\ b[2] = Cmd("start", "inference")
      /\ b[3] = Cmd("start", "ingest")
  BY StartCommands
<1> HIDE DEF a, b
<1>4. /\ Len(a \o b) = 6
      /\ \A i \in 1 .. 6 : (a \o b)[i] = IF i <= 3 THEN a[i] ELSE b[i - 3]
  <2>1. /\ Len(a \o b) = Len(a) + Len(b)
        /\ \A i \in 1 .. Len(a) + Len(b) :
             (a \o b)[i] = IF i <= Len(a) THEN a[i] ELSE b[i - Len(a)]
    BY <1>2, <1>3, ConcatProperties, Zenon
  <2> QED BY <2>1, <1>2, <1>3
<1>5. /\ (a \o b)[1] = a[1] /\ (a \o b)[2] = a[2] /\ (a \o b)[3] = a[3]
      /\ (a \o b)[4] = b[1] /\ (a \o b)[5] = b[2] /\ (a \o b)[6] = b[3]
  BY <1>4
<1> QED BY <1>1, <1>2, <1>3, <1>4, <1>5

(* Whatever the request, it has at most six commands, for known services.    *)
LEMMA PlanType ==
  ASSUME NEW v \in Verbs
  PROVE  /\ Len(Plan(v)) \in 1 .. 6
         /\ \A i \in 1 .. Len(Plan(v)) : Plan(v)[i] \in Cmds
<1>1. CASE v = "start-up"
  <2>1. Plan(v) = Starts(STARTUP_ORDER)
    BY <1>1 DEF Plan
  <2>2. Plan(v) \in Seq(Cmds) /\ Len(Plan(v)) = 3
    BY <2>1, StartCommands
  <2> QED BY <2>2
<1>2. CASE v = "shutdown"
  <2>1. Plan(v) = Stops(SHUTDOWN_ORDER)
    BY <1>2 DEF Plan
  <2>2. Plan(v) \in Seq(Cmds) /\ Len(Plan(v)) = 3
    BY <2>1, StopCommands
  <2> QED BY <2>2
<1>3. CASE v = "restart"
  <2> DEFINE a == Stops(SHUTDOWN_ORDER)  b == Starts(STARTUP_ORDER)
  <2>1. Plan(v) = a \o b
    BY <1>3 DEF Plan
  <2>2. /\ a \in Seq(Cmds) /\ Len(a) = 3
        /\ b \in Seq(Cmds) /\ Len(b) = 3
    BY StopCommands, StartCommands
  <2> HIDE DEF a, b
  <2>3. (a \o b) \in Seq(Cmds) /\ Len(a \o b) = Len(a) + Len(b)
    BY <2>2, ConcatProperties, Zenon
  <2>4. Plan(v) \in Seq(Cmds) /\ Len(Plan(v)) = 6
    BY <2>1, <2>2, <2>3
  <2>5. \A i \in 1 .. Len(Plan(v)) : Plan(v)[i] \in Cmds
    BY <2>4, ElementOfSeq, Zenon
  <2> QED BY <2>4, <2>5
<1> QED BY <1>1, <1>2, <1>3 DEF Verbs
-----------------------------------------------------------------------------
(* A connection needs both of its ends.                                      *)
LinkInv == channel = "ready" => Running("inference") /\ Running("tracking")

(* What the links promise, with their types.                                 *)
Wired ==
  /\ frames \in {"none", "open", "dead"} /\ dets \in {"none", "open", "dead"}
  /\ channel \in {"idle", "connecting", "ready"} /\ backoff \in BOOLEAN
  /\ frames # "none" => Running("ingest")
  /\ frames = "open" => Running("inference")
  /\ dets # "none" => Running("inference")
  /\ dets = "open" => Running("tracking") /\ channel = "ready"
  /\ LinkInv

Units == [Services -> {"off", "starting", "up", "failed"}]
JobStates == [verb : Verbs, at : 1 .. 7, waits : READY_ENDPOINT \union {None}]
Counted == asked \in 0 .. MaxAsked /\ faults \in 0 .. MaxFaults /\ lone \in Jobs \union {None}

Typed == unit \in Units /\ Wired /\ job \in [Jobs -> JobStates] /\ Counted

LEMMA Parts == TypeOK /\ LinkInv <=> Typed
BY DEF Typed, TypeOK, Units, Wired, JobStates, Counted

(* How far a restart that runs alone has got says how far the fleet is down  *)
(* and up again: the client that dials only once is down from its stop until *)
(* its start, and starts only when its server was seen to listen.            *)
Stage(j) ==
  LET at == job[j].at  waits == job[j].waits IN
  /\ job[j].verb = "restart"
  /\ \A i \in Jobs \ {j} : Over(i)
  /\ at \in 2 .. 6 => unit["ingest"] = "off"
  /\ at \in 3 .. 5 => unit["inference"] = "off"
  /\ at <= 4 \/ at = 7 => waits = None
  /\ at = 5 => waits \in {None, "tracking"}
  /\ at = 6 => waits \in {None, "inference"} /\ unit["inference"] \in {"starting", "up"}
  /\ at \in {6, 7} /\ waits = None => Running("inference")
  /\ at = 7 => unit["ingest"] # "failed" /\ (Running("ingest") => frames = "open")

LoneInv == lone # None => Stage(lone)
LinksInv == TypeOK /\ LinkInv /\ LoneInv
-----------------------------------------------------------------------------
LEMMA InitLinks == Init => LinksInv
<1> SUFFICES ASSUME Init PROVE LinksInv
  OBVIOUS
<1>1. TypeOK
  <2>1. unit \in [Services -> {"off", "starting", "up", "failed"}]
    BY DEF Init
  <2>2. job \in [Jobs -> [verb : Verbs, at : 1 .. 7, waits : READY_ENDPOINT \union {None}]]
    BY DEF Init, Verbs
  <2>3. /\ asked \in 0 .. MaxAsked /\ faults \in 0 .. MaxFaults
    BY LinksAssumption DEF Init
  <2>4. /\ frames \in {"none", "open", "dead"} /\ dets \in {"none", "open", "dead"}
        /\ channel \in {"idle", "connecting", "ready"}
        /\ lone \in Jobs \union {None}
    BY DEF Init
  <2>5. backoff \in BOOLEAN /\ frames = "none" /\ dets = "none"
    BY DEF Init
  <2> QED BY <2>1, <2>2, <2>3, <2>4, <2>5 DEF TypeOK
<1>2. LinkInv /\ LoneInv
  BY DEF Init, LinkInv, LoneInv
<1> QED BY <1>1, <1>2 DEF LinksInv
-----------------------------------------------------------------------------
(* What the end of each process does to the links.                           *)
LEMMA EndsIngest ==
  ASSUME Ends("ingest"), backoff \in BOOLEAN
  PROVE  frames' = "none" /\ dets' = dets /\ channel' = channel /\ backoff' \in BOOLEAN
BY Zenon DEF Ends

LEMMA EndsInference ==
  ASSUME Ends("inference"), backoff \in BOOLEAN
  PROVE  frames' = Severed(frames) /\ dets' = "none" /\ channel' = "idle" /\ backoff' \in BOOLEAN
BY Zenon DEF Ends

LEMMA EndsTracking ==
  ASSUME Ends("tracking"), backoff \in BOOLEAN
  PROVE  /\ frames' = frames /\ dets' = Severed(dets) /\ backoff' \in BOOLEAN
         /\ channel' = IF channel = "ready" THEN "idle" ELSE channel
BY Zenon DEF Ends

(* A process that ends takes its links along.                                *)
LEMMA DownWired ==
  ASSUME unit \in Units, Wired, NEW s \in Services, NEW x \in {"off", "failed"},
         unit' = [unit EXCEPT ![s] = x], Ends(s)
  PROVE  unit' \in Units /\ Wired'
<1>1. unit' \in Units
  BY DEF Units
<1>2. unit'[s] # "up" /\ \A t \in Services \ {s} : unit'[t] = unit[t]
  BY DEF Units
<1>3. backoff \in BOOLEAN
  BY DEF Wired
<1>4. CASE s = "ingest"
  <2>1. frames' = "none" /\ dets' = dets /\ channel' = channel /\ backoff' \in BOOLEAN
    BY <1>3, <1>4, EndsIngest
  <2> QED BY <1>1, <1>2, <1>4, <2>1 DEF Wired, LinkInv, Running, Services
<1>5. CASE s = "inference"
  <2>1. frames' = Severed(frames) /\ dets' = "none" /\ channel' = "idle" /\ backoff' \in BOOLEAN
    BY <1>3, <1>5, EndsInference
  <2> QED BY <1>1, <1>2, <1>5, <2>1 DEF Wired, LinkInv, Running, Services, Severed
<1>6. CASE s = "tracking"
  <2>1. /\ frames' = frames /\ dets' = Severed(dets) /\ backoff' \in BOOLEAN
        /\ channel' = IF channel = "ready" THEN "idle" ELSE channel
    BY <1>3, <1>6, EndsTracking
  <2> QED BY <1>1, <1>2, <1>6, <2>1 DEF Wired, LinkInv, Running, Services, Severed
<1> QED BY <1>1, <1>4, <1>5, <1>6 DEF Services

(* A command that is issued leaves a job behind it, or at its end.           *)
LEMMA IssuedType ==
  ASSUME job \in [Jobs -> JobStates], NEW j \in Jobs, AtCommand(j)
  PROVE  /\ Command(j) \in Cmds
         /\ Issued(j) => job' \in [Jobs -> JobStates]
<1>1. job[j] \in JobStates
  OBVIOUS
<1>2. job[j].verb \in Verbs /\ job[j].at \in 1 .. 7
  BY <1>1 DEF JobStates
<1>3. job[j].at \in 1 .. Len(Plan(job[j].verb)) /\ Len(Plan(job[j].verb)) \in 1 .. 6
  BY <1>2, PlanType DEF AtCommand
<1>4. Command(j) \in Cmds
  BY <1>2, <1>3, PlanType DEF Command
<1>5. WaitsFor(Command(j)) \in READY_ENDPOINT \union {None}
  BY <1>4 DEF WaitsFor, Cmds
<1>6. job[j].at + 1 \in 1 .. 7
  <2> DEFINE n == Len(Plan(job[j].verb))  k == job[j].at
  <2>1. n \in 1 .. 6 /\ k \in 1 .. n
    BY <1>3
  <2> HIDE DEF n, k
  <2>2. k + 1 \in 1 .. 7
    BY <2>1
  <2> QED BY <2>2 DEF k
<1>7. ASSUME Issued(j) PROVE job' \in [Jobs -> JobStates]
  <2>1. job' = [job EXCEPT ![j] = [@ EXCEPT !.at = job[j].at + 1, !.waits = WaitsFor(Command(j))]]
    BY <1>7, <1>1 DEF Issued, JobStates
  <2>2. [job[j] EXCEPT !.at = job[j].at + 1, !.waits = WaitsFor(Command(j))] \in JobStates
    BY <1>1, <1>5, <1>6 DEF JobStates
  <2> QED BY <2>1, <2>2
<1> QED BY <1>4, <1>7
-----------------------------------------------------------------------------
LEMMA TypeStep ==
  ASSUME TypeOK, LinkInv, [Next]_vars
  PROVE  TypeOK' /\ LinkInv'
<1> USE DEF Typed
<1>1. unit \in Units /\ Wired /\ job \in [Jobs -> JobStates] /\ Counted
  BY Parts
<1> SUFFICES Typed'
  BY DEF TypeOK, LinkInv, Units, Wired, JobStates, Counted
<1>2. CASE UNCHANGED vars
  BY <1>1, <1>2 DEF vars, links, Units, Wired, LinkInv, Running, Counted
<1>3. ASSUME NEW s \in Services, Die(s) PROVE Typed'
  <2>1. unit' = [unit EXCEPT ![s] = "failed"] /\ Ends(s)
    BY <1>3 DEF Die
  <2>2. unit' \in Units /\ Wired'
    BY <1>1, <2>1, DownWired
  <2>3. Counted' /\ job' = job
    BY <1>1, <1>3, LinksAssumption DEF Die, Fault, Counted
  <2> QED BY <1>1, <2>2, <2>3
<1>4. ASSUME NEW s \in Services, Respawn(s) PROVE Typed'
  <2>1. /\ unit[s] = "failed" /\ unit' = [unit EXCEPT ![s] = "starting"]
        /\ UNCHANGED <<frames, dets, channel, backoff, job, asked, faults, lone>>
    BY <1>4 DEF Respawn, links
  <2>2. unit' \in Units
    BY <1>1, <2>1 DEF Units
  <2>3. Wired'
    BY <1>1, <2>1 DEF Units, Wired, LinkInv, Running, Services
  <2> QED BY <1>1, <2>1, <2>2, <2>3 DEF Counted
<1>5. CASE BootTracking
  <2>1. /\ unit' = [unit EXCEPT !["tracking"] = "up"]
        /\ UNCHANGED <<frames, dets, channel, backoff, job, asked, faults, lone>>
    BY <1>5 DEF BootTracking, links
  <2>2. unit' \in Units
    BY <1>1, <2>1 DEF Units
  <2>3. Wired'
    BY <1>1, <2>1 DEF Units, Wired, LinkInv, Running, Services
  <2> QED BY <1>1, <2>1, <2>2, <2>3 DEF Counted
<1>6. CASE BootInference
  <2>1. /\ unit["inference"] = "starting" /\ unit' = [unit EXCEPT !["inference"] = "up"]
        /\ \/ Running("tracking") /\ channel' = "ready" /\ dets' = "open" /\ backoff' = FALSE
           \/ channel' = "connecting" /\ dets' = "none" /\ backoff' = TRUE
        /\ UNCHANGED <<frames, job, asked, faults, lone>>
    BY <1>6 DEF BootInference
  <2>2. unit' \in Units
    BY <1>1, <2>1 DEF Units
  <2>3. Wired'
    BY <1>1, <2>1 DEF Units, Wired, LinkInv, Running, Services
  <2> QED BY <1>1, <2>1, <2>2, <2>3 DEF Counted
<1>7. CASE BootIngest
  <2>1. /\ unit' = [unit EXCEPT !["ingest"] = "up"] /\ frames' = Dial
        /\ UNCHANGED <<dets, channel, backoff, job, asked, faults, lone>>
    BY <1>7 DEF BootIngest
  <2>2. unit' \in Units
    BY <1>1, <2>1 DEF Units
  <2>3. Wired'
    BY <1>1, <2>1 DEF Units, Wired, LinkInv, Running, Services, Dial
  <2> QED BY <1>1, <2>1, <2>2, <2>3 DEF Counted
<1>8. CASE RestartCamera
  <2>1. Wired'
    BY <1>1, <1>8 DEF RestartCamera, Wired, LinkInv, Running, Dial
  <2> QED BY <1>1, <1>8, <2>1 DEF RestartCamera, Counted
<1>9. CASE BreakDetections
  <2>1. Wired'
    BY <1>1, <1>9 DEF BreakDetections, Wired, LinkInv, Running
  <2>2. Counted'
    BY <1>1, <1>9, LinksAssumption DEF BreakDetections, Fault, Counted
  <2> QED BY <1>1, <1>9, <2>1, <2>2 DEF BreakDetections
<1>10. CASE CloseBroken
  <2>1. Wired'
    BY <1>1, <1>10 DEF CloseBroken, Wired, LinkInv, Running
  <2> QED BY <1>1, <1>10, <2>1 DEF CloseBroken, Counted
<1>11. CASE Open
  <2>1. Wired'
    BY <1>1, <1>11 DEF Open, Flowing, Kick, Wired, LinkInv, Running
  <2> QED BY <1>1, <1>11, <2>1 DEF Open, Counted
<1>12. CASE BackoffEnds
  <2>1. Wired'
    BY <1>1, <1>12 DEF BackoffEnds, Wired, LinkInv, Running
  <2> QED BY <1>1, <1>12, <2>1 DEF BackoffEnds, Counted
<1>13. CASE Connect
  <2>1. Wired'
    BY <1>1, <1>13 DEF Connect, Wired, LinkInv, Running
  <2> QED BY <1>1, <1>13, <2>1 DEF Connect, Counted
<1>14. ASSUME NEW j \in Jobs, StopUnit(j) PROVE Typed'
  <2>1. Command(j) \in Cmds /\ job' \in [Jobs -> JobStates]
    BY <1>1, <1>14, IssuedType DEF StopUnit
  <2>2. Command(j).svc \in Services
    BY <2>1 DEF Cmds
  <2>3. unit' \in Units /\ Wired'
    BY <1>1, <1>14, <2>2, DownWired DEF StopUnit
  <2> QED BY <1>1, <1>14, <2>1, <2>3 DEF StopUnit, Counted
<1>15. ASSUME NEW j \in Jobs, StartUnit(j) PROVE Typed'
  <2> DEFINE s == Command(j).svc
  <2>1. Command(j) \in Cmds /\ job' \in [Jobs -> JobStates]
    BY <1>1, <1>15, IssuedType DEF StartUnit
  <2>2. s \in Services
    BY <2>1 DEF Cmds
  <2>3. /\ unit' = [unit EXCEPT ![s] = IF unit[s] \in {"off", "failed"} THEN "starting" ELSE unit[s]]
        /\ UNCHANGED <<frames, dets, channel, backoff, asked, faults, lone>>
    BY <1>15 DEF StartUnit, links
  <2> HIDE DEF s
  <2>4. unit' \in Units /\ \A t \in Services : unit[t] = "up" => unit'[t] = "up"
    BY <1>1, <2>2, <2>3 DEF Units
  <2>5. Wired'
    BY <1>1, <2>3, <2>4 DEF Wired, LinkInv, Running, Services
  <2> QED BY <1>1, <2>1, <2>3, <2>4, <2>5 DEF Counted
<1>16. ASSUME NEW j \in Jobs, CommandFails(j) PROVE Typed'
  <2>1. job' \in [Jobs -> JobStates]
    BY <1>1, <1>16, IssuedType DEF CommandFails
  <2>2. Counted'
    BY <1>1, <1>16, LinksAssumption DEF CommandFails, Fault, Counted
  <2>3. Wired' /\ unit' \in Units
    BY <1>1, <1>16 DEF CommandFails, links, Wired, LinkInv, Running
  <2> QED BY <2>1, <2>2, <2>3
<1>17. ASSUME NEW j \in Jobs, Ready(j) \/ TimesOut(j) PROVE Typed'
  <2>1. job' = [job EXCEPT ![j].waits = None] /\ UNCHANGED <<unit, frames, dets, channel, backoff>>
    BY <1>17 DEF Ready, TimesOut, links
  <2>2. job' \in [Jobs -> JobStates]
    BY <1>1, <2>1 DEF JobStates
  <2>3. Counted'
    BY <1>1, <1>17 DEF Ready, TimesOut, Counted
  <2>4. Wired' /\ unit' \in Units
    BY <1>1, <2>1 DEF Wired, LinkInv, Running
  <2> QED BY <2>2, <2>3, <2>4
<1>18. ASSUME NEW j \in Jobs, NEW v \in Verbs, Ask(j, v)
       PROVE Typed'
  <2>1. job' \in [Jobs -> JobStates]
    BY <1>1, <1>18 DEF Ask, JobStates
  <2>2. Counted'
    BY <1>1, <1>18, LinksAssumption DEF Ask, Counted
  <2>3. Wired' /\ unit' \in Units
    BY <1>1, <1>18 DEF Ask, links, Wired, LinkInv, Running
  <2> QED BY <2>1, <2>2, <2>3
<1> QED
  BY <1>2, <1>3, <1>4, <1>5, <1>6, <1>7, <1>8, <1>9, <1>10, <1>11, <1>12, <1>13, <1>14, <1>15, <1>16,
     <1>17, <1>18 DEF Next, Systemd, Boot, Send, Run
-----------------------------------------------------------------------------
(* A restart that runs alone is the only request with commands left.         *)
LEMMA OnlyLone ==
  ASSUME job \in [Jobs -> JobStates], NEW j \in Jobs, Stage(j), NEW i \in Jobs,
         AtCommand(i) \/ job[i].waits # None
  PROVE  i = j
<1> DEFINE n == Len(Plan(job[i].verb))  k == job[i].at
<1>1. job[i].verb \in Verbs /\ k \in 1 .. 7
  BY DEF JobStates
<1>2. n \in 1 .. 6
  BY <1>1, PlanType
<1>3. Over(i) <=> k > n /\ job[i].waits = None
  BY DEF Over
<1>4. AtCommand(i) => k <= n
  BY DEF AtCommand
<1> HIDE DEF n, k
<1>5. ~ Over(i)
  BY <1>1, <1>2, <1>3, <1>4
<1> QED BY <1>5 DEF Stage

(* What a step may do to a unit besides stopping it or starting it.          *)
Booted(s) ==
  \/ unit'[s] = unit[s]
  \/ unit[s] = "starting" /\ unit'[s] = "up"
  \/ unit[s] = "failed" /\ unit'[s] = "starting"

(* While its job does not move, the stage holds as long as no unit that is   *)
(* off comes up and no unit goes down, and the frame stream stays.           *)
LEMMA StageKept ==
  ASSUME NEW j \in Jobs, Stage(j), job' = job, \A s \in Services : Booted(s),
         unit'["ingest"] = "up" => (frames' = "open" \/ job[j].at # 7)
  PROVE  Stage(j)'
<1>1. Booted("ingest") /\ Booted("inference")
  BY DEF Services
<1>2. \A i \in Jobs : Over(i)' = Over(i)
  BY DEF Over
<1> QED BY <1>1, <1>2 DEF Stage, Running, Booted

(* The next command of a restart, and what its job is after it.              *)
LEMMA LoneCommand ==
  ASSUME job \in [Jobs -> JobStates], NEW j \in Jobs, Stage(j), AtCommand(j), Issued(j)
  PROVE  LET at == job[j].at IN
         /\ at \in 1 .. 6 /\ Command(j) = Plan("restart")[at]
         /\ job'[j].verb = "restart" /\ job'[j].at = at + 1
         /\ job'[j].waits = WaitsFor(Command(j))
         /\ \A i \in Jobs \ {j} : Over(i)'
<1>1. job[j] \in JobStates /\ job[j].verb = "restart"
  BY DEF Stage
<1>2. job[j].at \in 1 .. 6
  <2>1. job[j].at \in 1 .. 7 /\ Len(Plan("restart")) = 6
    BY <1>1, RestartPlan DEF JobStates
  <2>2. job[j].at <= Len(Plan("restart"))
    BY <1>1 DEF AtCommand
  <2>3. job[j].at <= 6
    BY <2>1, <2>2, Zenon
  <2> QED BY <2>1, <2>3
<1>3. Command(j) = Plan("restart")[job[j].at]
  BY <1>1 DEF Command
<1>4. /\ job'[j].verb = "restart" /\ job'[j].at = job[j].at + 1
      /\ job'[j].waits = WaitsFor(Command(j))
  BY <1>1 DEF Issued, JobStates
<1>5. \A i \in Jobs \ {j} : job'[i] = job[i]
  BY DEF Issued
<1>6. \A i \in Jobs \ {j} : Over(i)'
  BY <1>5 DEF Over, Stage
<1> QED BY <1>2, <1>3, <1>4, <1>6

LEMMA LoneStep ==
  ASSUME LinksInv, [Next]_vars
  PROVE  LoneInv'
<1>1. TypeOK /\ LinkInv /\ LoneInv /\ TypeOK' /\ LinkInv'
  BY TypeStep DEF LinksInv
<1>2. unit \in Units /\ Wired /\ job \in [Jobs -> JobStates] /\ Counted
  BY <1>1, Parts DEF Typed
<1>3. SUFFICES ASSUME NEW j \in Jobs, lone' = j PROVE Stage(j)'
  BY <1>1 DEF LoneInv, TypeOK, Stage
<1>4. ASSUME lone' = lone PROVE Stage(j) /\ lone = j
  BY <1>1, <1>3, <1>4, LinksAssumption DEF LoneInv
<1>5. ASSUME Stage(j), unit["ingest"] = "up" PROVE frames = "open" \/ job[j].at # 7
  BY <1>5 DEF Stage, Running
<1>6. CASE UNCHANGED vars
  <2>1. \A s \in Services : Booted(s)
    BY <1>6 DEF vars, Booted
  <2> QED BY <1>4, <1>5, <1>6, <2>1, StageKept DEF vars, links
<1>7. ASSUME NEW s \in Services, Die(s) PROVE FALSE
  BY <1>3, <1>7, LinksAssumption DEF Die
<1>8. ASSUME NEW s \in Services, Respawn(s) PROVE Stage(j)'
  <2>1. /\ unit[s] = "failed" /\ unit' = [unit EXCEPT ![s] = "starting"] /\ lone' = lone
        /\ job' = job /\ frames' = frames
    BY <1>8 DEF Respawn, links
  <2>2. /\ \A t \in Services : Booted(t)
        /\ unit'["ingest"] = "up" => unit["ingest"] = "up"
    BY <1>2, <2>1 DEF Units, Booted, Services
  <2> QED BY <1>4, <1>5, <2>1, <2>2, StageKept
<1>9. CASE BootTracking \/ BootInference
  <2>1. PICK s \in {"tracking", "inference"} :
          /\ unit[s] = "starting" /\ unit' = [unit EXCEPT ![s] = "up"] /\ lone' = lone
          /\ job' = job /\ frames' = frames
    BY <1>9 DEF BootTracking, BootInference, links
  <2>2. /\ \A t \in Services : Booted(t)
        /\ unit'["ingest"] = unit["ingest"]
    BY <1>2, <2>1 DEF Units, Booted, Services
  <2> QED BY <1>4, <1>5, <2>1, <2>2, StageKept
<1>10. CASE BootIngest
  <2>1. /\ unit["ingest"] = "starting" /\ unit' = [unit EXCEPT !["ingest"] = "up"]
        /\ lone' = lone /\ job' = job /\ frames' = Dial
    BY <1>10 DEF BootIngest
  <2>2. \A t \in Services : Booted(t)
    BY <1>2, <2>1 DEF Units, Booted
  <2>3. job[j].at = 7 => Running("inference")
    BY <1>4, <2>1 DEF Stage
  <2>4. frames' = "open" \/ job[j].at # 7
    BY <2>1, <2>3 DEF Dial
  <2> QED BY <1>4, <2>1, <2>2, <2>4, StageKept
<1>11. CASE RestartCamera
  <2>1. /\ unit' = unit /\ lone' = lone /\ job' = job /\ frames' \in {frames, Dial}
        /\ Running("ingest")
    BY <1>11 DEF RestartCamera
  <2>2. job[j].at = 7 => frames = "open" /\ Running("inference")
    BY <1>4, <2>1 DEF Stage
  <2>3. frames' = "open" \/ job[j].at # 7
    BY <2>1, <2>2 DEF Dial
  <2>4. \A t \in Services : Booted(t)
    BY <2>1 DEF Booted
  <2> QED BY <1>4, <2>1, <2>3, <2>4, StageKept
<1>12. CASE BreakDetections
  BY <1>3, <1>12, LinksAssumption DEF BreakDetections
<1>13. CASE Send \/ BackoffEnds \/ Connect
  <2>1. unit' = unit /\ lone' = lone /\ job' = job /\ frames' = frames
    BY <1>13 DEF Send, CloseBroken, Open, BackoffEnds, Connect
  <2>2. \A t \in Services : Booted(t)
    BY <2>1 DEF Booted
  <2> QED BY <1>4, <1>5, <2>1, <2>2, StageKept
<1>14. ASSUME NEW i \in Jobs, CommandFails(i) \/ TimesOut(i) PROVE FALSE
  BY <1>3, <1>14, LinksAssumption DEF CommandFails, TimesOut
<1>15. ASSUME NEW i \in Jobs, StopUnit(i) PROVE Stage(j)'
  <2>1. Stage(j) /\ i = j /\ AtCommand(j) /\ Issued(j) /\ Command(j).verb = "stop"
    BY <1>2, <1>4, <1>15, OnlyLone DEF StopUnit
  <2>2. unit' = [unit EXCEPT ![Command(j).svc] = "off"]
    BY <1>15, <2>1 DEF StopUnit
  <2>3. /\ job[j].at \in 1 .. 6 /\ Command(j) = Plan("restart")[job[j].at]
        /\ job'[j].verb = "restart" /\ job'[j].at = job[j].at + 1
        /\ job'[j].waits = WaitsFor(Command(j))
        /\ \A k \in Jobs \ {j} : Over(k)'
    BY <1>2, <2>1, LoneCommand
  <2>4. job'[j].waits = None
    BY <2>1, <2>3 DEF WaitsFor
  <2>5. \/ job[j].at = 1 /\ Command(j).svc = "ingest"
        \/ job[j].at = 2 /\ Command(j).svc = "inference"
        \/ job[j].at = 3 /\ Command(j).svc = "tracking"
    BY <2>1, <2>3, RestartPlan DEF Cmd
  <2>6. /\ job[j].at \in 2 .. 3 => unit["ingest"] = "off"
        /\ job[j].at = 3 => unit["inference"] = "off"
    BY <2>1 DEF Stage
  <2>7. /\ unit'["ingest"] = "off"
        /\ job[j].at \in 2 .. 3 => unit'["inference"] = "off"
    BY <1>2, <2>2, <2>5, <2>6 DEF Units, Services
  <2>8. job'[j].at \in 2 .. 4
    BY <2>3, <2>5
  <2>9. job'[j].at = job[j].at + 1
    BY <2>3
  <2> QED BY <2>3, <2>4, <2>7, <2>8, <2>9 DEF Stage
<1>16. ASSUME NEW i \in Jobs, StartUnit(i) PROVE Stage(j)'
  <2>1. Stage(j) /\ i = j /\ AtCommand(j) /\ Issued(j) /\ Command(j).verb = "start"
    BY <1>2, <1>4, <1>16, OnlyLone DEF StartUnit
  <2> DEFINE s == Command(j).svc
  <2>2. unit' = [unit EXCEPT ![s] = IF unit[s] \in {"off", "failed"} THEN "starting" ELSE unit[s]]
    BY <1>16, <2>1 DEF StartUnit
  <2>3. /\ job[j].at \in 1 .. 6 /\ Command(j) = Plan("restart")[job[j].at]
        /\ job'[j].verb = "restart" /\ job'[j].at = job[j].at + 1
        /\ job'[j].waits = WaitsFor(Command(j))
        /\ \A k \in Jobs \ {j} : Over(k)'
    BY <1>2, <2>1, LoneCommand
  <2>4. \/ job[j].at = 4 /\ s = "tracking"
        \/ job[j].at = 5 /\ s = "inference"
        \/ job[j].at = 6 /\ s = "ingest"
    BY <2>1, <2>3, RestartPlan DEF Cmd
  <2>5. job'[j].waits = IF s \in READY_ENDPOINT THEN s ELSE None
    BY <2>1, <2>3 DEF WaitsFor
  <2>6. job[j].waits = None
    BY <2>1 DEF AtCommand
  <2> HIDE DEF s
  <2>7. CASE job[j].at = 4
    <3>1. unit["ingest"] = "off" /\ unit["inference"] = "off"
      BY <2>1, <2>7 DEF Stage
    <3>2. unit'["ingest"] = "off" /\ unit'["inference"] = "off"
      BY <1>2, <2>2, <2>4, <2>7, <3>1 DEF Units, Services
    <3>3. job'[j].at = 5 /\ job'[j].waits = "tracking"
      BY <2>3, <2>4, <2>5, <2>7 DEF READY_ENDPOINT
    <3> QED BY <2>3, <3>2, <3>3 DEF Stage
  <2>8. CASE job[j].at = 5
    <3>1. unit["ingest"] = "off" /\ unit["inference"] = "off"
      BY <2>1, <2>8 DEF Stage
    <3>2. unit'["ingest"] = "off" /\ unit'["inference"] = "starting"
      BY <1>2, <2>2, <2>4, <2>8, <3>1 DEF Units, Services
    <3>3. job'[j].at = 6 /\ job'[j].waits = "inference"
      BY <2>3, <2>4, <2>5, <2>8 DEF READY_ENDPOINT
    <3> QED BY <2>3, <3>2, <3>3, LinksAssumption DEF Stage
  <2>9. CASE job[j].at = 6
    <3>1. unit["ingest"] = "off" /\ unit["inference"] = "up"
      BY <2>1, <2>6, <2>9 DEF Stage, Running
    <3>2. unit'["ingest"] = "starting" /\ unit'["inference"] = "up"
      BY <1>2, <2>2, <2>4, <2>9, <3>1 DEF Units, Services
    <3>3. job'[j].at = 7 /\ job'[j].waits = None
      BY <2>3, <2>4, <2>5, <2>9 DEF READY_ENDPOINT
    <3> QED BY <2>3, <3>2, <3>3 DEF Stage, Running
  <2> QED BY <2>4, <2>7, <2>8, <2>9
<1>17. ASSUME NEW i \in Jobs, Ready(i) PROVE Stage(j)'
  <2>1. Stage(j) /\ i = j /\ job[j].waits # None /\ Running(job[j].waits)
    BY <1>2, <1>4, <1>17, OnlyLone DEF Ready
  <2>2. job' = [job EXCEPT ![j].waits = None] /\ UNCHANGED <<unit, frames>>
    BY <1>17, <2>1 DEF Ready, links
  <2>3. job[j] \in JobStates
    BY <1>2
  <2>4. job'[j].verb = job[j].verb /\ job'[j].at = job[j].at /\ job'[j].waits = None
    BY <1>2, <2>2, <2>3 DEF JobStates
  <2>5. \A k \in Jobs \ {j} : job'[k] = job[k]
    BY <2>2
  <2>6. \A k \in Jobs \ {j} : Over(k)'
    BY <2>1, <2>5 DEF Over, Stage
  <2>7. job[j].at \in 1 .. 7
    BY <2>3 DEF JobStates
  <2>8. job[j].at \in {5, 6} /\ (job[j].at = 6 => Running("inference"))
    BY <2>1, <2>7 DEF Stage
  <2> QED BY <2>1, <2>2, <2>4, <2>6, <2>8 DEF Stage, Running
<1>18. ASSUME NEW i \in Jobs, NEW v \in Verbs, Ask(i, v) PROVE Stage(j)'
  <2>1. i = j /\ v = "restart" /\ \A k \in Jobs : Over(k)
    BY <1>3, <1>18, LinksAssumption DEF Ask
  <2>2. job' = [job EXCEPT ![j] = [verb |-> "restart", at |-> 1, waits |-> None]]
    BY <1>18, <2>1 DEF Ask
  <2>3. job'[j] = [verb |-> "restart", at |-> 1, waits |-> None]
    BY <1>2, <2>2
  <2>4. \A k \in Jobs \ {j} : job'[k] = job[k]
    BY <2>2
  <2>5. \A k \in Jobs \ {j} : Over(k)'
    BY <2>1, <2>4 DEF Over
  <2> QED BY <2>3, <2>5 DEF Stage
<1> QED
  BY <1>6, <1>7, <1>8, <1>9, <1>10, <1>11, <1>12, <1>13, <1>14, <1>15, <1>16, <1>17, <1>18
  DEF Next, Systemd, Boot, Run
-----------------------------------------------------------------------------
LEMMA LinksStep == LinksInv /\ [Next]_vars => LinksInv'
BY TypeStep, LoneStep DEF LinksInv

(* No service has a stream or a connection that is not running, in every     *)
(* reachable state, whoever dies and whatever is asked.                      *)
THEOREM TypeCorrect == Spec => []TypeOK
<1>1. LinksInv => TypeOK
  BY DEF LinksInv
<1> QED BY InitLinks, LinksStep, <1>1, PTL DEF Spec

(* restart() of the display service: when it ran alone, without a fault and  *)
(* within its timeouts, ingest has an open frame stream.                     *)
THEOREM RestartedFlowsHolds == Spec => []RestartedFlows
<1>1. LinksInv => RestartedFlows
  <2> SUFFICES ASSUME LinksInv, lone # None, Over(lone), Running("ingest") PROVE frames = "open"
    BY DEF RestartedFlows
  <2>1. Stage(lone) /\ lone \in Jobs /\ job \in [Jobs -> JobStates]
    BY Parts DEF LinksInv, LoneInv, Typed, Counted
  <2>2. job[lone] \in JobStates /\ job[lone].verb = "restart"
    BY <2>1 DEF Stage
  <2>3. job[lone].at = 7
    BY <2>2, RestartPlan DEF Over, JobStates
  <2> QED BY <2>1, <2>3 DEF Stage
<1> QED BY InitLinks, LinksStep, <1>1, PTL DEF Spec
=============================================================================
