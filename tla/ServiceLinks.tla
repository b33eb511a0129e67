----------------------------- MODULE ServiceLinks -----------------------------
(***************************************************************************)
(* The three services of the pipeline as processes that dial one another,  *)
(* and the display service that starts and stops them                      *)
(* (display_service/main.py, start_up, shutdown and restart).  Ingest      *)
(* opens its frame stream to inference once for a camera and never again   *)
(* (ingest's inference_client.cpp); inference opens its detection stream   *)
(* to tracking again whenever it broke (its tracking_client.cpp).  That is *)
(* why the order of a start matters, and why a start waits until a server  *)
(* answers before it starts the client.                                    *)
(*                                                                         *)
(* There is one camera, which delivers as long as it is read.  What the    *)
(* units are started with and the shared memory are in module Fleet.       *)
(*                                                                         *)
(* A definition marked Faulty is used by no action: it is the neighbour's  *)
(* plausible bug, which one of the properties below has to catch.          *)
(***************************************************************************)
EXTENDS Naturals, Sequences

CONSTANTS
  Jobs,       (* requests to the display service that may run at a time      *)
  None,       (* no job, no service                                          *)
  MaxAsked,   (* bound: requests in all                                      *)
  MaxFaults   (* bound: crashes, broken streams and failing commands         *)

ASSUME LinksAssumption ==
  None \notin Jobs \union {"tracking", "inference", "ingest"}
  /\ MaxAsked \in Nat /\ MaxFaults \in Nat

VARIABLES
  unit,       (* service -> the state of its systemd unit; up: it listens    *)
  frames,     (* ingest's stream to inference; dead: it broke, or never was  *)
  dets,       (* TrackingClient::stream_: inference's stream to tracking     *)
  channel,    (* TrackingClient::channel_: the connection under it           *)
  backoff,    (* TrackingClient::next_retry_ is still ahead                  *)
  job,        (* request -> what it is, the command it is at, and the
                 service it waits for                                        *)
  asked,      (* requests so far                                             *)
  faults,     (* faults so far                                               *)
  lone        (* history: the restart that began last, if no other request,
                 fault or timeout has come since it began                    *)

links == <<frames, dets, channel, backoff>>
vars  == <<unit, links, job, asked, faults, lone>>
-----------------------------------------------------------------------------
STARTUP_ORDER  == <<"tracking", "inference", "ingest">>
SHUTDOWN_ORDER == <<"ingest", "inference", "tracking">>
Services       == {"tracking", "inference", "ingest"}
READY_ENDPOINT == {"tracking", "inference"}

Stops(order)  == [i \in DOMAIN order |-> [verb |-> "stop", svc |-> order[i]]]
Starts(order) == [i \in DOMAIN order |-> [verb |-> "start", svc |-> order[i]]]
Verbs == {"start-up", "shutdown", "restart"}
Plan(v) ==
  CASE v = "start-up" -> Starts(STARTUP_ORDER)
    [] v = "shutdown" -> Stops(SHUTDOWN_ORDER)
    [] v = "restart"  -> Stops(SHUTDOWN_ORDER) \o Starts(STARTUP_ORDER)

Over(j)    == job[j].at > Len(Plan(job[j].verb)) /\ job[j].waits = None
Command(j) == Plan(job[j].verb)[job[j].at]

Init ==
  /\ unit = [s \in Services |-> "off"]
  /\ frames = "none" /\ dets = "none" /\ channel = "idle" /\ backoff = FALSE
  /\ job = [j \in Jobs |-> [verb |-> "shutdown", at |-> 4, waits |-> None]]
  /\ asked = 0 /\ faults = 0
  /\ lone = None

Running(s) == unit[s] = "up"
Fault == faults < MaxFaults /\ faults' = faults + 1
-----------------------------------------------------------------------------
(* A process ends, and with it its own streams and those of its clients.     *)
Severed(link) == IF link = "open" THEN "dead" ELSE link
Ends(s) ==
  /\ frames' = CASE s = "ingest" -> "none" [] s = "inference" -> Severed(frames)
                 [] OTHER -> frames
  /\ dets' = CASE s = "inference" -> "none" [] s = "tracking" -> Severed(dets) [] OTHER -> dets
  /\ channel' = IF s = "inference" \/ (s = "tracking" /\ channel = "ready") THEN "idle" ELSE channel
  /\ backoff' = (backoff /\ s # "inference")

Die(s) ==
  /\ unit[s] \in {"starting", "up"}
  /\ Fault
  /\ unit' = [unit EXCEPT ![s] = "failed"]
  /\ Ends(s)
  /\ lone' = None
  /\ UNCHANGED <<job, asked>>

(* Restart=on-failure.                                                       *)
Respawn(s) ==
  /\ unit[s] = "failed"
  /\ unit' = [unit EXCEPT ![s] = "starting"]
  /\ UNCHANGED <<links, job, asked, faults, lone>>

(* Ingest: the readers of the seeded cameras open their streams; the call of *)
(* a client whose server does not listen fails at once.                      *)
(* Faulty: the call counts as a stream whoever answers. *)
DialAnyway == "open"
Dial == IF Running("inference") THEN "open" ELSE "dead"

BootTracking ==
  /\ unit["tracking"] = "starting"
  /\ unit' = [unit EXCEPT !["tracking"] = "up"]
  /\ UNCHANGED <<links, job, asked, faults, lone>>

BootIngest ==
  /\ unit["ingest"] = "starting"
  /\ unit' = [unit EXCEPT !["ingest"] = "up"]
  /\ frames' = Dial
  /\ UNCHANGED <<dets, channel, backoff, job, asked, faults, lone>>

(* TrackingClient::start waits two seconds for the connection, and then      *)
(* opens the stream or leaves it to send; the frame server comes after it.   *)
BootInference ==
  /\ unit["inference"] = "starting"
  /\ unit' = [unit EXCEPT !["inference"] = "up"]
  /\ \/ Running("tracking") /\ channel' = "ready" /\ dets' = "open" /\ backoff' = FALSE
     \/ channel' = "connecting" /\ dets' = "none" /\ backoff' = TRUE
  /\ UNCHANGED <<frames, job, asked, faults, lone>>

(* StopStream and StartStream of the camera: a new reader dials again.  The  *)
(* channel of a stream that broke may still be backing off.                  *)
RestartCamera ==
  /\ Running("ingest")
  /\ frames' \in {frames, Dial} /\ (Dial = "dead" => frames' = "dead")
  /\ UNCHANGED <<unit, dets, channel, backoff, job, asked, faults, lone>>

(* A handler of the tracking service ends with an exception.                 *)
BreakDetections ==
  /\ dets = "open" /\ Fault
  /\ dets' = "dead"
  /\ lone' = None
  /\ UNCHANGED <<unit, frames, channel, backoff, job, asked>>
-----------------------------------------------------------------------------
(* TrackingClient::send, called by a worker for each frame it is sent.       *)
Flowing == Running("ingest") /\ Running("inference") /\ frames = "open"

(* Write fails: close_locked.                                                *)
CloseBroken ==
  /\ Flowing /\ dets = "dead"
  /\ dets' = "none" /\ backoff' = TRUE
  /\ UNCHANGED <<unit, frames, channel, job, asked, faults, lone>>

(* open_locked: asking for the state of an idle channel makes it connect.    *)
(* Faulty: the state is only asked for. *)
KickNothing == channel
Kick == IF channel = "idle" THEN "connecting" ELSE channel

Open ==
  /\ Flowing /\ dets = "none" /\ ~ backoff
  /\ IF channel = "ready"
     THEN dets' = "open" /\ UNCHANGED <<channel, backoff>>
     ELSE channel' = Kick /\ backoff' = TRUE /\ UNCHANGED dets
  /\ UNCHANGED <<unit, frames, job, asked, faults, lone>>

Send == CloseBroken \/ Open

BackoffEnds ==
  /\ backoff
  /\ backoff' = FALSE
  /\ UNCHANGED <<unit, frames, dets, channel, job, asked, faults, lone>>

(* gRPC connects in the background, when the server is there.                *)
Connect ==
  /\ channel = "connecting" /\ Running("inference") /\ Running("tracking")
  /\ channel' = "ready"
  /\ UNCHANGED <<unit, frames, dets, backoff, job, asked, faults, lone>>
-----------------------------------------------------------------------------
(* POST /start-up, /shutdown or /restart; requests run side by side.         *)
Ask(j, v) ==
  /\ Over(j) /\ asked < MaxAsked
  /\ asked' = asked + 1
  /\ job' = [job EXCEPT ![j] = [verb |-> v, at |-> 1, waits |-> None]]
  /\ lone' = IF v = "restart" /\ \A i \in Jobs : Over(i) THEN j ELSE None
  /\ UNCHANGED <<unit, links, faults>>

(* _run_lifecycle: after a start that somebody will dial it waits.           *)
(* Faulty: it does not. *)
WaitsForNobody(c) == None
WaitsFor(c) == IF c.verb = "start" /\ c.svc \in READY_ENDPOINT THEN c.svc ELSE None

Issued(j) == job' = [job EXCEPT ![j].at = @ + 1, ![j].waits = WaitsFor(Command(j))]
AtCommand(j) == job[j].at <= Len(Plan(job[j].verb)) /\ job[j].waits = None

(* systemctl stop returns when the process is gone, systemctl start when it  *)
(* is there; a unit that is up or on its way is not started again.           *)
StopUnit(j) ==
  LET s == Command(j).svc IN
  /\ AtCommand(j) /\ Command(j).verb = "stop"
  /\ unit' = [unit EXCEPT ![s] = "off"]
  /\ Ends(s)
  /\ Issued(j)
  /\ UNCHANGED <<asked, faults, lone>>

StartUnit(j) ==
  LET s == Command(j).svc IN
  /\ AtCommand(j) /\ Command(j).verb = "start"
  /\ unit' = [unit EXCEPT ![s] = IF @ \in {"off", "failed"} THEN "starting" ELSE @]
  /\ Issued(j)
  /\ UNCHANGED <<links, asked, faults, lone>>

(* A systemctl that fails is logged, and counts as done.                     *)
CommandFails(j) ==
  /\ AtCommand(j)
  /\ Fault
  /\ Issued(j)
  /\ lone' = None
  /\ UNCHANGED <<unit, links, asked>>

(* _wait_ready: the port answers, or the time is up; either way it goes on.  *)
Ready(j) ==
  /\ job[j].waits # None /\ Running(job[j].waits)
  /\ job' = [job EXCEPT ![j].waits = None]
  /\ UNCHANGED <<unit, links, asked, faults, lone>>

TimesOut(j) ==
  /\ job[j].waits # None
  /\ job' = [job EXCEPT ![j].waits = None]
  /\ lone' = None
  /\ UNCHANGED <<unit, links, asked, faults>>
-----------------------------------------------------------------------------
Systemd == \E s \in Services : Respawn(s)
Boot    == BootTracking \/ BootInference \/ BootIngest
Run(j)  == StopUnit(j) \/ StartUnit(j) \/ CommandFails(j) \/ Ready(j) \/ TimesOut(j)

Next ==
  \/ \E s \in Services : Die(s)
  \/ Systemd \/ Boot \/ RestartCamera \/ BreakDetections
  \/ Send \/ BackoffEnds \/ Connect
  \/ \E j \in Jobs : Run(j) \/ \E v \in Verbs : Ask(j, v)

Spec == Init /\ [][Next]_vars

(* A camera that is read delivers, and its frames get to the workers; time   *)
(* passes; gRPC connects to a server that listens.                           *)
FairSpec == Spec /\ WF_vars(Send) /\ WF_vars(BackoffEnds) /\ WF_vars(Connect)
-----------------------------------------------------------------------------
(* Every variable keeps its type, and no service has a stream or a           *)
(* connection that is not running.                                           *)
TypeOK ==
  /\ unit \in [Services -> {"off", "starting", "up", "failed"}]
  /\ frames \in {"none", "open", "dead"} /\ dets \in {"none", "open", "dead"}
  /\ channel \in {"idle", "connecting", "ready"} /\ backoff \in BOOLEAN
  /\ job \in [Jobs -> [verb : Verbs, at : 1 .. 7, waits : READY_ENDPOINT \union {None}]]
  /\ asked \in 0 .. MaxAsked /\ faults \in 0 .. MaxFaults
  /\ lone \in Jobs \union {None}
  /\ frames # "none" => Running("ingest")
  /\ frames = "open" => Running("inference")
  /\ dets # "none" => Running("inference")
  /\ dets = "open" => Running("tracking") /\ channel = "ready"

(* main.py, restart: a full restart that ran alone, without a fault and      *)
(* within its timeouts, leaves an ingest that is up with an open frame       *)
(* stream, and it stays so until a fault or the next request.                *)
RestartedFlows ==
  lone # None /\ Over(lone) /\ Running("ingest") => frames = "open"

(* The detection stream heals: if in the end the three services stay up and  *)
(* frames flow, it is open in the end, whatever it went through before.      *)
(* tracking_client.hpp calls it self-healing; the comments on the start      *)
(* order in display_service/main.py deny it.                                 *)
DetectionsHeal == <>[]Flowing /\ <>[]Running("tracking") => <>[](dets = "open")
=============================================================================
