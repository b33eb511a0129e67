------------------------------- MODULE Fleet -------------------------------
(***************************************************************************)
(* Starting, configuring and restarting the services, and the handshake by *)
(* which those that map the shared-memory segment agree on the transport:  *)
(* control_service (FleetController, SystemdBackend), the lifecycle routes *)
(* of display_service/main.py, and createShm, initHeader and               *)
(* checkTransport of common/shm.cpp.                                       *)
(*                                                                         *)
(* The segment outlives every process.  A process goes through the header  *)
(* one shared-memory access at a time and can die between any two; systemd *)
(* starts it again.  Removing the segment leaves those that have it mapped *)
(* with the old one, so segments are numbered.                             *)
(*                                                                         *)
(* A definition marked Faulty is used by no action: it is the neighbour's  *)
(* plausible bug, which one of the properties below has to catch.          *)
(***************************************************************************)
EXTENDS Naturals, SequencesExt

CONSTANTS
  Peers,       (* services that map the segment: ingest, inference           *)
  Viewers,     (* processes with a ShmReader: tracking, display              *)
  SERVICES,    (* the services that control configures, in its order         *)
  STARTUP_ORDER,
  Controllers, (* threads of the facade that serve a request                 *)
  MaxOps,      (* bound: requests                                            *)
  MaxFaults,   (* bound: killed processes and failing system calls         *)
  MaxSegs      (* bound: segments that are created                           *)

Units == Range(SERVICES)

ASSUME FleetAssumption ==
  /\ Peers \subseteq Units
  /\ SERVICES \in Seq(Units) /\ SERVICES # << >>
  /\ STARTUP_ORDER \in Seq(Units)
  /\ MaxOps \in Nat /\ MaxFaults \in Nat /\ MaxSegs \in Nat \ {0}

VARIABLES
  segs,     (* the headers of all segments that were ever created            *)
  cur,      (* the one that /dev/shm names, 0 for none                       *)
  file,     (* FRAME_TRANSPORT in the env file of each service               *)
  pc,       (* where the process of each unit is                             *)
  mode,     (* FRAME_TRANSPORT in the environment of the process             *)
  seg,      (* the segment a peer has mapped, 0 for none                     *)
  view,     (* the segment a viewer has mapped, 0 for none                   *)
  jobs,     (* what each controller has still to do                          *)
  applied,  (* the transport last logged as applied, if nothing came since   *)
  ops, faults

header == <<segs, cur, seg>>
control == <<jobs, applied, ops, file>>
vars == <<segs, cur, file, pc, mode, seg, view, jobs, applied, ops, faults>>
-----------------------------------------------------------------------------
Transports == {"grpc", "shm"}
absent == "absent"

(* Faulty: what the file says, also if it says nothing. *)
frameTransportVerbatim(value) == value
(* frameTransport: everything but "shm" is gRPC. *)
frameTransport(value) == IF value = "shm" THEN "shm" ELSE "grpc"

(* A segment as ftruncate leaves it. *)
Fresh == [magic |-> "fresh", version |-> "none", mode |-> "unset"]

(* A unit is off until it is started, and failed between a crash and its     *)
(* restart.                                                                  *)
Points == {"off", "failed", "exec", "create", "claim", "stamp", "publish",
           "spin", "check", "agree", "run"}

(* The units can be enabled at boot (WantedBy), or wait for a start.         *)
Init ==
  /\ segs = << >> /\ cur = 0
  /\ file = [u \in Units |-> "shm"]
  /\ \E boot \in {"off", "exec"} : pc = [u \in Units |-> boot]
  /\ mode = [u \in Units |-> "grpc"]
  /\ seg = [p \in Peers |-> 0]
  /\ view = [v \in Viewers |-> 0]
  /\ jobs = [c \in Controllers |-> << >>]
  /\ applied = absent
  /\ ops = 0 /\ faults = 0
-----------------------------------------------------------------------------
(* What a process does when it starts.                                       *)

Go(u, here, there) == pc[u] = here /\ pc' = [pc EXCEPT ![u] = there]

(* systemd reads the env file and runs the program; it maps nothing yet.     *)
Exec(u) ==
  /\ Go(u, "exec", IF u \in Peers THEN "create" ELSE "run")
  /\ mode' = [mode EXCEPT ![u] = frameTransport(file[u])]
  /\ seg' = [p \in Peers |-> IF p = u THEN 0 ELSE seg[p]]
  /\ view' = [v \in Viewers |-> IF v = u THEN 0 ELSE view[v]]
  /\ UNCHANGED <<segs, cur, faults, control>>

(* mapShm: the segment that is there, or a new one.                          *)
Create(p) ==
  /\ Go(p, "create", "claim")
  /\ IF cur # 0 THEN UNCHANGED <<segs, cur>>
     ELSE /\ segs' = Append(segs, Fresh)
          /\ cur' = Len(segs) + 1
  /\ seg' = [seg EXCEPT ![p] = cur']
  /\ UNCHANGED <<mode, view, faults, control>>

(* mapShm fails: checkTransport then does nothing, and the process runs on.  *)
CreateFails(p) ==
  /\ faults < MaxFaults
  /\ faults' = faults + 1
  /\ Go(p, "create", "run")
  /\ UNCHANGED <<header, mode, view, control>>

(* initHeader: the compare-and-swap of magic from 0.                         *)
Claim(p) ==
  /\ pc[p] = "claim"
  /\ IF segs[seg[p]].magic = "fresh"
     THEN /\ segs' = [segs EXCEPT ![seg[p]].magic = "claiming"]
          /\ pc' = [pc EXCEPT ![p] = "stamp"]
     ELSE /\ pc' = [pc EXCEPT ![p] = "spin"]
          /\ UNCHANGED segs
  /\ UNCHANGED <<cur, seg, mode, view, faults, control>>

(* Faulty: the magic before the version. *)
WrittenMagicFirst(h, n) ==
  IF n = 1 THEN [h EXCEPT !.magic = "ready"] ELSE [h EXCEPT !.version = "ours"]
(* The two stores of the winner. *)
Written(h, n) ==
  IF n = 1 THEN [h EXCEPT !.version = "ours"] ELSE [h EXCEPT !.magic = "ready"]

Stamp(p) ==
  /\ Go(p, "stamp", "publish")
  /\ segs' = [segs EXCEPT ![seg[p]] = Written(@, 1)]
  /\ UNCHANGED <<cur, seg, mode, view, faults, control>>

Publish(p) ==
  /\ Go(p, "publish", "check")
  /\ segs' = [segs EXCEPT ![seg[p]] = Written(@, 2)]
  /\ UNCHANGED <<cur, seg, mode, view, faults, control>>

(* The loser waits until the winner has published.                           *)
Spin(p) ==
  /\ Go(p, "spin", "check")
  /\ segs[seg[p]].magic # "claiming"
  /\ UNCHANGED <<header, mode, view, faults, control>>

Whole(s) == s.magic = "ready" /\ s.version = "ours"

(* checkTransport: the header, else abort.                                   *)
Check(p) ==
  /\ Go(p, "check", IF Whole(segs[seg[p]]) THEN "agree" ELSE "failed")
  /\ UNCHANGED <<header, mode, view, faults, control>>

(* Faulty: whoever finds a transport there aborts. *)
AcceptsFirst(have, want) == have = "unset"
Accepts(have, want) == have \in {"unset", want}

(* checkTransport: the compare-and-swap of transport_mode, else abort.       *)
Agree(p) ==
  LET have == segs[seg[p]].mode IN
  /\ Go(p, "agree", IF Accepts(have, mode[p]) THEN "run" ELSE "failed")
  /\ segs' = IF have = "unset" THEN [segs EXCEPT ![seg[p]].mode = mode[p]] ELSE segs
  /\ UNCHANGED <<cur, seg, mode, view, faults, control>>

(* Restart=on-failure. *)
Revive(u) ==
  /\ Go(u, "failed", "exec")
  /\ UNCHANGED <<header, mode, view, faults, control>>

(* ShmReader.__init__, tried again with each frame until it succeeds, and    *)
(* then never again.                                                         *)
Attach(v) ==
  /\ view[v] = 0 /\ cur # 0
  /\ v \in Units => pc[v] = "run" /\ mode[v] = "shm"
  /\ Whole(segs[cur])
  /\ view' = [view EXCEPT ![v] = cur]
  /\ UNCHANGED <<header, pc, mode, faults, control>>
-----------------------------------------------------------------------------
(* What can happen to it.                                                    *)

(* A crash, or a SIGKILL. *)
Kill(u) ==
  /\ faults < MaxFaults
  /\ faults' = faults + 1
  /\ pc[u] \notin {"off", "failed", "exec"}
  /\ pc' = [pc EXCEPT ![u] = "failed"]
  /\ UNCHANGED <<header, mode, view, control>>

(* The operator's rm /dev/shm/sec-sys-shm. *)
RemoveSegment ==
  /\ cur # 0 /\ ops < MaxOps /\ Len(segs) < MaxSegs
  /\ cur' = 0 /\ ops' = ops + 1
  /\ applied' = absent
  /\ UNCHANGED <<segs, file, pc, mode, seg, view, jobs, faults>>
-----------------------------------------------------------------------------
(* Control: a request is a sequence of commands.                             *)

Verbs == {"start", "stop", "restart"}
Commands ==
  [do : Verbs \union {"write", "log"}, to : Units, with : Transports \union {absent}]

Cmd(do, u, value) == [do |-> do, to |-> u, with |-> value]
Each(do, order) == [i \in DOMAIN order |-> Cmd(do, order[i], absent)]

(* apply_config for one service after the other.  The whole file is          *)
(* replaced, so a call without FRAME_TRANSPORT drops it, and write_text      *)
(* truncates it first.                                                       *)
Render(order, value) ==
  [i \in 1 .. 2 * Len(order) |->
     Cmd("write", order[(i + 1) \div 2], IF i % 2 = 1 THEN absent ELSE value)]

(* The requests: set_frame_transport; configure, with or without a           *)
(* transport; start, stop and restart of one service; the facade's start-up, *)
(* shutdown and restart.  Waiting for a port changes nothing, and as it is   *)
(* given up after a while, it is left out.                                   *)
SetFrameTransport(t) ==
  Render(SERVICES, t) \o Each("restart", SERVICES) \o <<Cmd("log", SERVICES[1], t)>>
Configure(u, value, restart) ==
  Render(<<u>>, value) \o IF restart THEN <<Cmd("restart", u, absent)>> ELSE << >>
StartUp  == Each("start", STARTUP_ORDER)
Shutdown == Each("stop", Reverse(STARTUP_ORDER))

Ask(c, request) ==
  /\ jobs[c] = << >> /\ ops < MaxOps
  /\ ops' = ops + 1
  /\ jobs' = [jobs EXCEPT ![c] = request]
  /\ applied' = absent
  /\ UNCHANGED <<header, file, pc, mode, view, faults>>

Request(c) ==
  \/ \E t \in Transports : Ask(c, SetFrameTransport(t))
  \/ \E u \in Units, value \in Transports \union {absent}, restart \in BOOLEAN :
       Ask(c, Configure(u, value, restart))
  \/ \E verb \in Verbs, u \in Units : Ask(c, <<Cmd(verb, u, absent)>>)
  \/ \E request \in {StartUp, Shutdown, Shutdown \o StartUp} : Ask(c, request)

(* systemctl: a process that is setting up the header finishes it, as        *)
(* SIGTERM only sets a flag; anywhere else it can be killed at the latest    *)
(* when systemd's patience ends.                                             *)
Systemctl(verb, u) ==
  /\ pc[u] \notin {"stamp", "publish"}
  /\ pc' = [pc EXCEPT ![u] =
       CASE verb = "start" -> IF pc[u] = "off" THEN "exec" ELSE pc[u]
         [] verb = "stop" -> "off"
         [] verb = "restart" -> "exec"]

(* The next command.                                                         *)
Command(c) ==
  /\ jobs[c] # << >>
  /\ jobs' = [jobs EXCEPT ![c] = Tail(@)]
  /\ LET cmd == Head(jobs[c]) IN
     \/ /\ cmd.do = "write"
        /\ file' = [file EXCEPT ![cmd.to] = cmd.with]
        /\ UNCHANGED <<pc, applied>>
     \/ /\ cmd.do = "log"
        /\ applied' = cmd.with
        /\ UNCHANGED <<pc, file>>
     \/ /\ cmd.do \in Verbs
        /\ Systemctl(cmd.do, cmd.to)
        /\ UNCHANGED <<file, applied>>
  /\ UNCHANGED <<header, mode, view, ops, faults>>

(* systemctl fails: _run logs it and goes on.  A file cannot be written: the *)
(* exception ends the request.                                               *)
CommandFails(c) ==
  /\ faults < MaxFaults
  /\ faults' = faults + 1
  /\ jobs[c] # << >>
  /\ \/ /\ Head(jobs[c]).do \in Verbs
        /\ jobs' = [jobs EXCEPT ![c] = Tail(@)]
     \/ /\ Head(jobs[c]).do = "write"
        /\ jobs' = [jobs EXCEPT ![c] = << >>]
  /\ UNCHANGED <<header, file, pc, mode, view, applied, ops>>
-----------------------------------------------------------------------------
StartPeer(p) ==
  \/ Create(p) \/ Claim(p) \/ Stamp(p) \/ Publish(p) \/ Spin(p) \/ Check(p) \/ Agree(p)

Next ==
  \/ \E u \in Units : Exec(u) \/ Revive(u) \/ Kill(u)
  \/ \E p \in Peers : StartPeer(p) \/ CreateFails(p)
  \/ \E v \in Viewers : Attach(v)
  \/ \E c \in Controllers : Request(c) \/ Command(c) \/ CommandFails(c)
  \/ RemoveSegment

(* Processes and controllers that can go on do, and systemd restarts what    *)
(* failed.                                                                   *)
Fairness ==
  /\ \A u \in Units : WF_vars(Exec(u)) /\ WF_vars(Revive(u))
  /\ \A p \in Peers : WF_vars(StartPeer(p))
  /\ \A c \in Controllers : WF_vars(Command(c))

Spec == Init /\ [][Next]_vars /\ Fairness
-----------------------------------------------------------------------------
(* Type correctness.  *)
TypeOK ==
  /\ segs \in Seq([magic : {"fresh", "claiming", "ready"}, version : {"none", "ours"},
                   mode : Transports \union {"unset"}])
  /\ Len(segs) <= MaxSegs
  /\ cur \in 0 .. Len(segs) /\ (cur = 0 => Len(segs) < MaxSegs)
  /\ file \in [Units -> Transports \union {absent}]
  /\ pc \in [Units -> Points]
  /\ mode \in [Units -> Transports]
  /\ seg \in [Peers -> 0 .. Len(segs)]
  /\ view \in [Viewers -> 0 .. Len(segs)]
  /\ jobs \in [Controllers -> Seq(Commands)]
  /\ applied \in Transports \union {absent}
  /\ ops \in 0 .. MaxOps /\ faults \in 0 .. MaxFaults

(* The handshake: whoever reads the header of a segment, the viewers         *)
(* included, finds it whole, though creators race and die in the middle; so  *)
(* no process aborts over a header.  And the peers that run on one segment   *)
(* have one transport, through any restarts, requests and removals.          *)
Handshake ==
  /\ \A p \in Peers : pc[p] \in {"check", "agree"} => Whole(segs[seg[p]])
  /\ \A v \in Viewers : view[v] # 0 => Whole(segs[view[v]])
  /\ \A p, q \in Peers :
       pc[p] = "run" /\ pc[q] = "run" /\ seg[p] = seg[q] /\ seg[p] # 0
         => mode[p] = mode[q]

(* The configuration does not stand in the way: nobody has a request open,   *)
(* one transport for all peers that should be up, the segment is free or     *)
(* agrees, and none was left by a process that died while claiming it.       *)
Settled ==
  /\ \A c \in Controllers : jobs[c] = << >>
  /\ \E t \in Transports :
       /\ \A p \in Peers : pc[p] # "off" => frameTransport(file[p]) = t
       /\ cur # 0 => segs[cur].mode \in {"unset", t}
  /\ \A i \in DOMAIN segs :
       segs[i].magic = "claiming"
         => \E p \in Peers : seg[p] = i /\ pc[p] \in {"stamp", "publish"}

(* If the configuration is settled for good, every service that should be    *)
(* up comes up and stays up, whatever races, crashes and removals of the     *)
(* segment there were: nobody waits on a header or aborts again and again.   *)
ComesUp == <>[]Settled => <>[](\A u \in Units : pc[u] \in {"off", "run"})

(* "FRAME_TRANSPORT=%s applied fleet-wide" (fleet_controller.py:54): after   *)
(* this message, and until the next request, all peers come up with it.      *)
AppliedFleetWide ==
  \A t \in Transports :
    (applied = t) ~> (applied # t \/ \A p \in Peers : pc[p] = "run" /\ mode[p] = t)
=============================================================================
