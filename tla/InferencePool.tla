--------------------------- MODULE InferencePool ----------------------------
(***************************************************************************)
(* The inference service: the gRPC handlers that receive frames, the one   *)
(* FrameQueue they push to, the pool of workers that pop from it, and the  *)
(* main thread that takes them down (services/inference_service/src).      *)
(*                                                                         *)
(* push, pop and shutdown hold FrameQueue::mutex_ from their first line to *)
(* their last and wait only on the condition variable, so each is a step,  *)
(* and a pop that has to wait is two: it parks, and when woken it looks    *)
(* again.  A frame is the RPC it came by and its number in that RPC: gRPC  *)
(* neither loses nor reorders the messages of one call.  What the worker   *)
(* finds (a stale frame, a lapped one, a usable one) and how long ONNX     *)
(* Runtime and the tracking service take is left open.                     *)
(*                                                                         *)
(* A definition marked Faulty is used by no action: it is the neighbour's  *)
(* plausible bug, which one of the properties below has to catch.          *)
(***************************************************************************)
EXTENDS Naturals, Sequences, FiniteSets

CONSTANTS
  Calls,      (* frame RPCs of ingest: one per life of a camera's reader    *)
  Workers,    (* the threads of the pool (NUM_THREADS)                      *)
  MaxQueue,   (* the queue's max_size_, 80 in main.cpp                      *)
  MaxFrames   (* bound: the frames of one RPC                               *)

ASSUME PoolAssumption ==
  /\ IsFiniteSet(Calls) /\ IsFiniteSet(Workers) /\ Workers # {}
  /\ MaxQueue \in Nat \ {0}
  /\ MaxFrames \in Nat

VARIABLES
  queue,      (* FrameQueue::queue_                                         *)
  dropped,    (* FrameQueue::dropped_                                       *)
  closed,     (* FrameQueue::shutdown_                                      *)
  parked,     (* the workers that wait on FrameQueue::cv_                   *)
  worker,     (* worker -> where it is                                      *)
  handler,    (* RPC -> where its handler is, and the frames it has pushed  *)
  server,     (* the server thread: InferenceServer::start                  *)
  main,       (* where the main thread is                                   *)
  pushed, taken   (* history: packets pushed, packets handed to a worker    *)

queueVars == <<queue, dropped, closed, pushed, taken>>
vars == <<queueVars, parked, worker, handler, server, main>>
-----------------------------------------------------------------------------
Init ==
  /\ queue = <<>> /\ dropped = 0 /\ closed = FALSE
  /\ pushed = 0 /\ taken = 0
  /\ parked = {}
  /\ worker = [w \in Workers |-> "pop"]
  /\ handler = [c \in Calls |-> [at |-> "none", pushed |-> 0]]
  /\ server = "starting" /\ main = "run"

(* push replaces the oldest packet of a full queue.                          *)
(* Faulty: > instead of >= in the test for a full queue. *)
EnqueueOverfills(q, p) ==
  IF Len(q) > MaxQueue THEN Append(Tail(q), p) ELSE Append(q, p)
(* Faulty: the new packet is dropped, not the oldest. *)
EnqueueDropsNewest(q, p) ==
  IF Len(q) >= MaxQueue THEN q ELSE Append(q, p)
Enqueue(q, p) ==
  IF Len(q) >= MaxQueue THEN Append(Tail(q), p) ELSE Append(q, p)

CountDrop(q) == IF Len(q) >= MaxQueue THEN dropped + 1 ELSE dropped

(* notify_one: some worker that is parked, if there is one, looks again.     *)
(* Faulty: notify only when the queue was empty. *)
WakeForFirst ==
  IF queue = <<>> /\ parked # {} THEN \E w \in parked : parked' = parked \ {w}
                                 ELSE UNCHANGED parked
NotifyOne ==
  IF parked # {} THEN \E w \in parked : parked' = parked \ {w}
                 ELSE UNCHANGED parked
NotifyAll == parked' = {}
-----------------------------------------------------------------------------
(* Handlers (grpcStreamFrames).                                              *)

Goto(c, from, to) ==
  /\ handler[c].at = from
  /\ handler' = [handler EXCEPT ![c].at = to]
  /\ UNCHANGED <<queueVars, parked, worker, server, main>>

(* gRPC starts no handler after Shutdown.                                    *)
Open(c) ==
  /\ server = "listening" /\ main = "run"
  /\ Goto(c, "none", "read")

(* The client's side: it sends a frame, or it closes the call or dies, and   *)
(* Read returns false; or the frame is the last before the call is found to  *)
(* be cancelled.                                                             *)
Receive(c) == handler[c].pushed < MaxFrames /\ Goto(c, "read", "push")
Close(c)   == Goto(c, "read", "done")
Cancel(c)  == Goto(c, "push", "done")

(* Faulty: back pressure, a full queue blocks the handler. *)
PushWaitsForRoom(c) ==
  /\ handler[c].at = "push" /\ Len(queue) < MaxQueue
  /\ dropped' = dropped
  /\ queue' = Append(queue, [call |-> c, n |-> handler[c].pushed + 1])
  /\ NotifyOne
  /\ handler' = [handler EXCEPT ![c] = [at |-> "read", pushed |-> @.pushed + 1]]
  /\ pushed' = pushed + 1
  /\ UNCHANGED <<closed, taken, worker, server, main>>

Push(c) ==
  /\ handler[c].at = "push"
  /\ dropped' = CountDrop(queue)
  /\ queue' = Enqueue(queue, [call |-> c, n |-> handler[c].pushed + 1])
  /\ NotifyOne
  /\ handler' = [handler EXCEPT ![c] = [at |-> "read", pushed |-> @.pushed + 1]]
  /\ pushed' = pushed + 1
  /\ UNCHANGED <<closed, taken, worker, server, main>>
-----------------------------------------------------------------------------
(* Workers (InferenceWorker::run).                                           *)

Step(w, from, to) ==
  /\ worker[w] = from
  /\ worker' = [worker EXCEPT ![w] = to]
  /\ UNCHANGED <<queueVars, parked, handler, server, main>>

(* pop: at the predicate of the wait, and behind it the test of shutdown_.   *)
Pop(w) ==
  /\ worker[w] = "pop" /\ w \notin parked
  /\ \/ /\ closed
        /\ worker' = [worker EXCEPT ![w] = "exit"]
        /\ UNCHANGED <<queueVars, parked>>
     \/ /\ ~ closed /\ queue = <<>>
        /\ parked' = parked \cup {w}
        /\ UNCHANGED <<queueVars, worker>>
     \/ /\ ~ closed /\ queue # <<>>
        /\ queue' = Tail(queue)
        /\ taken' = taken + 1
        /\ worker' = [worker EXCEPT ![w] = "fetch"]
        /\ UNCHANGED <<dropped, closed, pushed, parked>>
  /\ UNCHANGED <<handler, server, main>>

(* A condition variable may wake a thread for no reason.                     *)
SpuriousWake(w) ==
  /\ w \in parked
  /\ parked' = parked \ {w}
  /\ UNCHANGED <<queueVars, worker, handler, server, main>>

(* A stale packet, or one whose pixels are gone, is skipped.                 *)
Skip(w)  == Step(w, "fetch", "pop")
Fetch(w) == Step(w, "fetch", "infer")

(* The workers share one detector, whose Run() is under a mutex, and one     *)
(* TrackingClient, whose send is.  While tracking does not read its stream,  *)
(* send does not return.                                                     *)
Infer(w)  == (\A v \in Workers : worker[v] # "inferring") /\ Step(w, "infer", "inferring")
Result(w) == Step(w, "inferring", "send")
Send(w)   == (\A v \in Workers : worker[v] # "sending") /\ Step(w, "send", "sending")
Sent(w)   == Step(w, "sending", "pop")

Work(w) == Pop(w) \/ Skip(w) \/ Fetch(w) \/ Infer(w) \/ Result(w) \/ Send(w)
-----------------------------------------------------------------------------
(* The server thread and the main thread.                                    *)

(* BuildAndStart sets server_, and Wait returns once the server is shut down.*)
Listen ==
  /\ server = "starting" /\ main # "crashed"
  /\ server' = "listening"
  /\ UNCHANGED <<queueVars, parked, worker, handler, main>>

MainStep(from, to) ==
  /\ main = from
  /\ main' = to
  /\ UNCHANGED <<queueVars, worker, handler>>

(* SIGTERM: the main thread leaves its loop and calls server_->Shutdown(),   *)
(* through a null pointer if the server thread has not come to set server_.  *)
Signal ==
  /\ MainStep("run", IF server = "starting" THEN "crashed" ELSE "shutdown")
  /\ UNCHANGED <<parked, server>>

(* Shutdown() has no deadline: it returns when every handler has ended.      *)
ServerDown ==
  /\ \A c \in Calls : handler[c].at \in {"none", "done"}
  /\ MainStep("shutdown", "wake")
  /\ server' = "down"
  /\ UNCHANGED parked

(* FrameQueue::shutdown; main() calls it a second time to no effect.         *)
Wake ==
  /\ main = "wake" /\ main' = "join"
  /\ closed' = TRUE
  /\ NotifyAll
  /\ UNCHANGED <<queue, dropped, pushed, taken, worker, handler, server>>

(* Faulty: the workers are not joined. *)
NobodyJoined == TRUE
WorkersJoined == \A w \in Workers : worker[w] = "exit"

(* The workers are joined, the tracking client is stopped and the server     *)
(* thread is joined.                                                         *)
StopTracking == WorkersJoined /\ MainStep("join", "stopped") /\ UNCHANGED <<parked, server>>
Exit == server = "down" /\ MainStep("stopped", "exit") /\ UNCHANGED <<parked, server>>

Shutdown == ServerDown \/ Wake \/ StopTracking \/ Exit
-----------------------------------------------------------------------------
Next ==
  \/ \E c \in Calls : Open(c) \/ Receive(c) \/ Close(c) \/ Cancel(c) \/ Push(c)
  \/ \E w \in Workers : Work(w) \/ Sent(w) \/ SpuriousWake(w)
  \/ Listen \/ Signal \/ Shutdown

Spec == Init /\ [][Next]_vars

(* Threads run; a handler that got a frame pushes it.  Whether frames come,  *)
(* calls end and tracking takes what it is sent is up to others.             *)
FairSpec ==
  /\ Spec
  /\ \A w \in Workers : WF_vars(Work(w))
  /\ \A c \in Calls : WF_vars(Push(c))
  /\ WF_vars(Listen) /\ WF_vars(Shutdown)

TrackingReads == \A w \in Workers : WF_vars(Sent(w))
CallsClose == \A c \in Calls : SF_vars(Close(c))
-----------------------------------------------------------------------------
Packets == [call : Calls, n : 1 .. MaxFrames]

TypeOK ==
  /\ queue \in Seq(Packets) /\ Len(queue) <= MaxQueue
  /\ dropped \in Nat /\ closed \in BOOLEAN /\ pushed \in Nat /\ taken \in Nat
  /\ parked \subseteq {w \in Workers : worker[w] = "pop"}
  /\ worker \in [Workers ->
       {"pop", "fetch", "infer", "inferring", "send", "sending", "exit"}]
  /\ handler \in [Calls -> [at : {"none", "read", "push", "done"}, pushed : 0 .. MaxFrames]]
  /\ \A c \in Calls : handler[c].at = "push" => handler[c].pushed < MaxFrames
  /\ server \in {"starting", "listening", "down"}
  /\ main \in {"run", "shutdown", "wake", "join", "stopped", "exit", "crashed"}

(* The invariant test_frame_queue.cpp samples at the end of one run, at      *)
(* every instant: a packet that was pushed is queued, was handed to a worker *)
(* or is counted in inference_queue_dropped_total.                           *)
Accounting == pushed = taken + dropped + Len(queue)

(* Drop-oldest across all the cameras that share the queue: of each RPC it   *)
(* holds the newest frames pushed, in their order and without a gap: behind  *)
(* a packet are all that its handler pushed after it, and none from before.  *)
NewestQueued ==
  \A i \in 1 .. Len(queue) : LET c == queue[i].call IN
    /\ queue[i].n <= handler[c].pushed
    /\ \A j \in i + 1 .. Len(queue) : queue[j].call = c => queue[i].n < queue[j].n
    /\ \A n \in queue[i].n .. handler[c].pushed :
         \E j \in i .. Len(queue) : queue[j] = [call |-> c, n |-> n]

(* push wakes one worker and pop none: it never happens that a worker is     *)
(* parked while there are more packets than workers about to look for one.   *)
Looking == {w \in Workers \ parked : worker[w] = "pop"}
NoLostWakeup == parked # {} /\ ~ closed => Len(queue) <= Cardinality(Looking)

(* Nothing that was to be waited for outlives the wait: no handler pushes    *)
(* to a queue that was shut down, no worker sends on a stopped client.       *)
CleanShutdown ==
  /\ closed => \A c \in Calls : handler[c].at \in {"none", "done"}
  /\ main \in {"stopped", "exit"} => \A w \in Workers : worker[w] = "exit"

(* "Both buffers drop rather than block": a received frame is queued even    *)
(* when the workers are all stuck behind a tracking service that hangs.      *)
HandlerNeverWaits ==
  \A c \in Calls : handler[c].at = "push" ~> handler[c].at # "push"

(* No packet is left behind in the queue while the service is up, provided   *)
(* tracking takes what it is sent.                                           *)
QueueDrains ==
  TrackingReads =>
    \A c \in Calls, n \in 1 .. MaxFrames :
      LET queued == \E i \in 1 .. Len(queue) : queue[i] = [call |-> c, n |-> n] IN
      queued ~> ~ queued \/ closed

(* SIGTERM ends the process, with every worker parked, busy or on its way    *)
(* into pop, once ingest has closed its calls.                               *)
Stops == TrackingReads /\ CallsClose => (main = "shutdown" ~> main = "exit")

(* Whoever can go on does: the handlers, the packets, the shutdown.          *)
Progress == HandlerNeverWaits /\ QueueDrains /\ Stops
=============================================================================
