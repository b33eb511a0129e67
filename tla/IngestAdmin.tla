---------------------------- MODULE IngestAdmin -----------------------------
(***************************************************************************)
(* The ingest service at run time (ingest_server.cpp, rtsp_reader.cpp,     *)
(* main.cpp): gRPC threads run the admin calls AddCamera, StartStream,     *)
(* StopStream, RemoveCamera and ListCameras side by side, each camera has  *)
(* a reader thread that pumps frames, and the main thread samples the      *)
(* cameras for the metrics until SIGTERM and then takes everything down.   *)
(*                                                                         *)
(* IngestServer::mtx_ is held by whoever is at a step inside the scope of  *)
(* a lock_guard.  A section is two steps: Lock waits for the mutex, takes  *)
(* it and looks the camera up, and a second one acts on what was found and *)
(* leaves the scope.  Clearing a reader's running_ flag and joining its    *)
(* thread are steps of their own.  A camera may freeze: cap.open and       *)
(* cap.read return when they like.                                         *)
(*                                                                         *)
(* A definition marked Faulty is used by no action: it is the neighbour's  *)
(* plausible bug, which one of the properties below has to catch.          *)
(***************************************************************************)
EXTENDS Naturals, FiniteSets

CONSTANTS
  Ids,        (* stream ids                                                 *)
  Urls,
  Handlers,   (* threads that serve admin calls                             *)
  Threads,    (* reader threads that may exist at once                      *)
  None

(* A reader is active, or held by a handler that is stopping it, so there    *)
(* is always a thread left to spawn.                                         *)
ASSUME IngestAssumption ==
  /\ IsFiniteSet(Ids) /\ IsFiniteSet(Handlers) /\ IsFiniteSet(Threads)
  /\ Cardinality(Threads) >= Cardinality(Ids) + Cardinality(Handlers)
  /\ None \notin Ids \cup Urls \cup Handlers \cup Threads

VARIABLES
  known,      (* IngestServer::known_: id -> url                            *)
  active,     (* IngestServer::active_: id -> the thread of its reader      *)
  reader,     (* thread -> the RtspReader it runs                           *)
  call,       (* handler -> the admin call it serves                        *)
  main,       (* where the main thread is                                   *)
  leaving     (* the readers the main thread has moved out of active_       *)

adminVars == <<known, active, reader, call, main, leaving>>
-----------------------------------------------------------------------------
NoReader == [at |-> "none", id |-> None, url |-> None, running |-> FALSE]
NoCall   == [at |-> "idle", op |-> None, id |-> None, url |-> None,
             found |-> None, reader |-> None]

AdminInit ==
  /\ known = [i \in Ids |-> None]
  /\ active = [i \in Ids |-> None]
  /\ reader = [t \in Threads |-> NoReader]
  /\ call = [h \in Handlers |-> NoCall]
  /\ main = "serve"
  /\ leaving = {}

(* Where a call waits for mtx_, and where it is inside the scope of one of   *)
(* the lock_guards: stopStream's ends before reader->stop().                 *)
(* Faulty: stopStream's scope is the whole function. *)
ScopeOverJoin == {"adding", "starting", "taking", "erasing", "listing", "flag", "join"}
Waiting == {"add", "start", "take", "erase", "list"}
Scope   == {"adding", "starting", "taking", "erasing", "listing"}

MutexFree ==
  /\ \A h \in Handlers : call[h].at \notin Scope
  /\ main # "sampling"

Reply(h) == call' = [call EXCEPT ![h] = NoCall]
-----------------------------------------------------------------------------
(* Admin calls.  gRPC starts no call once Shutdown was asked for.            *)
Serving == {"serve", "sample", "sampling"}

Request(h, at, op, i, u) ==
  /\ main \in Serving
  /\ call[h].at = "idle"
  /\ call' = [call EXCEPT ![h] =
                [at |-> at, op |-> op, id |-> i, url |-> u, found |-> None, reader |-> None]]
  /\ UNCHANGED <<known, active, reader, main, leaving>>

(* The lock_guard and the lookup: active_.find, and known_.find for the url  *)
(* of a stream to start.                                                     *)
Enter(h, from, to, found, url) ==
  /\ call[h].at = from /\ MutexFree
  /\ call' = [call EXCEPT ![h].at = to, ![h].found = found, ![h].url = url]
  /\ UNCHANGED <<known, active, reader, main, leaving>>

Lock(h) ==
  LET i == call[h].id IN
  \/ Enter(h, "add", "adding", active[i], call[h].url)
  \/ Enter(h, "start", "starting", active[i], known[i])
  \/ Enter(h, "take", "taking", active[i], None)
  \/ Enter(h, "erase", "erasing", None, None)
  \/ Enter(h, "list", "listing", None, None)

(* spawnReader: a new RtspReader, started and put into active_.  Which of    *)
(* the free threads runs it makes no difference.                             *)
FreeThread == CHOOSE t \in Threads : reader[t] = NoReader

Spawn(i, u) ==
  /\ reader' = [reader EXCEPT ![FreeThread] =
                  [at |-> "head", id |-> i, url |-> u, running |-> TRUE]]
  /\ active' = [active EXCEPT ![i] = FreeThread]

AddCamera(h) ==
  LET i == call[h].id IN
  /\ call[h].at = "adding"
  /\ \/ /\ call[h].found # None                   (* stream already running  *)
        /\ UNCHANGED <<known, active, reader>>
     \/ /\ call[h].found = None
        /\ known' = [known EXCEPT ![i] = call[h].url]
        /\ Spawn(i, call[h].url)
  /\ Reply(h)
  /\ UNCHANGED <<main, leaving>>

(* Faulty: the lookup in known_ is not checked. *)
StartStreamUnchecked(h) ==
  LET i == call[h].id IN
  /\ call[h].at = "starting" /\ call[h].found = None
  /\ Spawn(i, call[h].url)
  /\ Reply(h)
  /\ UNCHANGED <<known, main, leaving>>

StartStream(h) ==
  LET i == call[h].id IN
  /\ call[h].at = "starting"
  /\ \/ /\ call[h].found # None \/ call[h].url = None
        /\ UNCHANGED <<active, reader>>            (* running, or unknown id  *)
     \/ /\ call[h].found = None /\ call[h].url # None
        /\ Spawn(i, call[h].url)
  /\ Reply(h)
  /\ UNCHANGED <<known, main, leaving>>

(* What a stop is followed by: a remove goes on to forget the camera.        *)
AfterStop(h) ==
  IF call[h].op = "remove"
  THEN [call[h] EXCEPT !.at = "erase", !.found = None, !.reader = None]
  ELSE NoCall

(* stopStream under the mutex: the reader is moved out of active_.           *)
TakeReader(h) ==
  LET t == call[h].found IN
  /\ call[h].at = "taking"
  /\ \/ /\ t = None                               (* stream not running      *)
        /\ call' = [call EXCEPT ![h] = AfterStop(h)]
        /\ UNCHANGED active
     \/ /\ t # None
        /\ call' = [call EXCEPT ![h].at = "flag", ![h].found = None, ![h].reader = t]
        /\ active' = [active EXCEPT ![call[h].id] = None]
  /\ UNCHANGED <<known, reader, main, leaving>>

(* RtspReader::stop: the flag, and then the join.  The reader is destroyed.  *)
ClearRunning(h) ==
  /\ call[h].at = "flag"
  /\ reader' = [reader EXCEPT ![call[h].reader].running = FALSE]
  /\ call' = [call EXCEPT ![h].at = "join"]
  /\ UNCHANGED <<known, active, main, leaving>>

Join(h) ==
  LET t == call[h].reader IN
  /\ call[h].at = "join" /\ reader[t].at = "gone"
  /\ reader' = [reader EXCEPT ![t] = NoReader]
  /\ call' = [call EXCEPT ![h] = AfterStop(h)]
  /\ UNCHANGED <<known, active, main, leaving>>

(* removeCamera takes the mutex a second time to forget the camera.          *)
EraseKnown(h) ==
  /\ call[h].at = "erasing"
  /\ known' = [known EXCEPT ![call[h].id] = None]
  /\ Reply(h)
  /\ UNCHANGED <<active, reader, main, leaving>>

(* The walk over known_ and active_ changes nothing.                         *)
ListCameras(h) ==
  /\ call[h].at = "listing"
  /\ Reply(h)
  /\ UNCHANGED <<known, active, reader, main, leaving>>

Serve(h) ==
  \/ Lock(h)
  \/ AddCamera(h) \/ StartStream(h) \/ ListCameras(h)
  \/ TakeReader(h) \/ ClearRunning(h) \/ Join(h) \/ EraseKnown(h)
-----------------------------------------------------------------------------
(* Reader threads (run_loop).  running_ is looked at only at the heads of    *)
(* the two loops.                                                            *)

Goto(t, from, to) ==
  /\ reader[t].at = from
  /\ reader' = [reader EXCEPT ![t].at = to]
  /\ UNCHANGED <<known, active, call, main, leaving>>

OuterHead(t) == Goto(t, "head", IF reader[t].running THEN "opening" ELSE "gone")
(* Faulty: the frame pump is an endless loop. *)
InnerHeadBlind(t) == Goto(t, "pump", "reading")
InnerHead(t) == Goto(t, "pump", IF reader[t].running THEN "reading" ELSE "head")
PublishFrame(t) == Goto(t, "publish", "pump")

(* cap.open: pump frames, or sleep and retry.  cap.read: a frame to publish, *)
(* or a dead capture to reconnect.                                           *)
Opened(t)  == \E to \in {"pump", "head"} : Goto(t, "opening", to)
Grabbed(t) == \E to \in {"publish", "head"} : Goto(t, "reading", to)

Run(t)    == OuterHead(t) \/ InnerHead(t) \/ PublishFrame(t)
Camera(t) == Opened(t) \/ Grabbed(t)
-----------------------------------------------------------------------------
(* The main thread.  Once a second it lists the cameras for the metrics,     *)
(* and it looks for SIGTERM only in between.                                 *)

MainGoto(from, to) ==
  /\ main = from /\ main' = to
  /\ UNCHANGED <<known, active, reader, call, leaving>>

SampleDue  == MainGoto("serve", "sample")
SampleLock == MutexFree /\ MainGoto("sample", "sampling")
Sampled    == MainGoto("sampling", "serve")

Signal == MainGoto("serve", "drain")

(* Server::Shutdown returns when the last admin call has ended.              *)
(* Faulty: Shutdown does not wait for calls in flight. *)
NobodyWaited == TRUE
CallsEnded == \A h \in Handlers : call[h] = NoCall

(* Then the readers are moved out of active_ under the mutex, which nobody   *)
(* is left to wait for.                                                      *)
MoveReaders ==
  /\ main = "drain" /\ CallsEnded /\ MutexFree
  /\ leaving' = {active[i] : i \in {j \in Ids : active[j] # None}}
  /\ active' = [i \in Ids |-> None]
  /\ main' = "stop"
  /\ UNCHANGED <<known, reader, call>>

(* They are stopped one after the other: the next one runs on until this one *)
(* has been joined.                                                          *)
StopOne(t) ==
  /\ main = "stop" /\ t \in leaving
  /\ reader' = [reader EXCEPT ![t].running = FALSE]
  /\ main' = "join"
  /\ UNCHANGED <<known, active, call, leaving>>

JoinOne(t) ==
  /\ main = "join" /\ t \in leaving
  /\ reader[t].at = "gone"
  /\ reader' = [reader EXCEPT ![t] = NoReader]
  /\ leaving' = leaving \ {t}
  /\ main' = "stop"
  /\ UNCHANGED <<known, active, call>>

Exit == leaving = {} /\ MainGoto("stop", "exit")

Shutdown == MoveReaders \/ (\E t \in Threads : StopOne(t) \/ JoinOne(t)) \/ Exit
-----------------------------------------------------------------------------
AdminNext ==
  \/ \E h \in Handlers :
       \/ \E i \in Ids :
            \/ \E u \in Urls : Request(h, "add", "add", i, u)
            \/ Request(h, "start", "start", i, None)
            \/ Request(h, "take", "stop", i, None)
            \/ Request(h, "take", "remove", i, None)
       \/ Request(h, "list", "list", None, None)
       \/ Serve(h)
  \/ \E t \in Threads : Run(t) \/ Camera(t)
  \/ SampleDue \/ SampleLock \/ Sampled
  \/ Signal
  \/ Shutdown

AdminSpec == AdminInit /\ [][AdminNext]_adminVars

(* Threads are scheduled; a camera owes nobody anything.  A mutex that is    *)
(* free now and then is promised to nobody: std::mutex is not fair.          *)
AdminFairSpec ==
  /\ AdminSpec
  /\ \A h \in Handlers : WF_adminVars(Serve(h))
  /\ \A t \in Threads : WF_adminVars(Run(t))
  /\ WF_adminVars(SampleLock \/ Sampled)
  /\ WF_adminVars(Shutdown)
-----------------------------------------------------------------------------
Live(t) == reader[t].at # "none"

AdminTypeOK ==
  /\ known \in [Ids -> Urls \cup {None}]
  /\ active \in [Ids -> Threads \cup {None}]
  /\ reader \in [Threads ->
       [at : {"none", "head", "opening", "pump", "reading", "publish", "gone"},
        id : Ids \cup {None}, url : Urls \cup {None}, running : BOOLEAN]]
  /\ \A t \in Threads : Live(t) => reader[t].id # None /\ reader[t].url # None
  /\ call \in [Handlers ->
       [at : {"idle", "flag", "join"} \cup Waiting \cup Scope,
        op : {"add", "start", "stop", "remove", "list", None},
        id : Ids \cup {None}, url : Urls \cup {None},
        found : Threads \cup {None}, reader : Threads \cup {None}]]
  /\ main \in Serving \cup {"drain", "stop", "join", "exit"}
  /\ leaving \subseteq Threads

Owners(t) ==
  {<<"active", i>> : i \in {j \in Ids : active[j] = t}} \cup
  {<<"handler", h>> : h \in {g \in Handlers : call[g].reader = t}} \cup
  {<<"main", o>> : o \in {t} \cap leaving}

(* The unique_ptr discipline across the unlocked gap of a stop: a reader     *)
(* that lives is in active_, or is being stopped by one thread, and never    *)
(* both; nobody holds a reader that was destroyed.                           *)
OneOwner == \A t \in Threads : Cardinality(Owners(t)) = IF Live(t) THEN 1 ELSE 0

(* Whatever calls overlap: a camera that is listed as running at a url is    *)
(* read from that url, under its own id.                                     *)
UrlAgrees ==
  \A i \in Ids : active[i] # None =>
    /\ reader[active[i]].id = i
    /\ known[i] \in {None, reader[active[i]].url}

(* Two threads read one camera only while a call is stopping one of them: a  *)
(* start in the gap of a stop is the only way, and the shutdown is none.     *)
OneUnlessStopped ==
  \A t, u \in Threads :
    Live(t) /\ Live(u) /\ t # u /\ reader[t].id = reader[u].id =>
      \E h \in Handlers : call[h].reader \in {t, u}

(* "join OUTSIDE the lock: a frozen stream can't wedge admin": whatever the  *)
(* cameras do, and also while a stop waits for a frozen one, every call and  *)
(* the metrics sampler get through to mtx_, provided that a thread is not    *)
(* passed over for ever while the mutex is free again and again.             *)
AdminNotWedged ==
  /\ \A h \in Handlers :
       SF_adminVars(Lock(h)) => (call[h].at \in Waiting ~> call[h].at \notin Waiting)
  /\ SF_adminVars(SampleLock) => (main = "sample" ~> main # "sample")

(* A stop returns if its own camera does not freeze, whatever the others do. *)
Joined(t) == \E h \in Handlers : call[h].at = "join" /\ call[h].reader = t
StopReturns ==
  \A t \in Threads : WF_adminVars(Camera(t)) => (Joined(t) ~> ~ Joined(t))

(* SIGTERM ends the process if no camera freezes, and then no reader thread  *)
(* is left behind, although admin calls were in flight when it arrived.      *)
Terminates == (\A t \in Threads : WF_adminVars(Camera(t))) => (main = "drain" ~> main = "exit")
CleanExit  == main = "exit" => \A t \in Threads : ~ Live(t)

(* Who owns a reader, from the call that starts it to the end of the         *)
(* process: one owner, the url that is listed, a camera of its own unless it *)
(* is being stopped, and nobody at the exit.                                 *)
Owned == OneOwner /\ UrlAgrees /\ OneUnlessStopped /\ CleanExit

(* Every stop ends, that of one camera and that of the process.              *)
StopsEnd == StopReturns /\ Terminates
-----------------------------------------------------------------------------
(* ingest_server.hpp, on the two maps: active_ is the subset of known_ with  *)
(* a live reader.                                                            *)
ActiveIsKnown == \A i \in Ids : active[i] # None => known[i] # None

(* shm.cpp, at find_or_claim: "each stream should still have a single        *)
(* writer".  Two threads are never in writeFrame for one stream.             *)
SingleWriter ==
  \A t, u \in Threads :
    /\ reader[t].at = "publish" /\ reader[u].at = "publish"
    /\ reader[t].id = reader[u].id
    => t = u
=============================================================================
