----------------------- MODULE InferencePool_proofs -------------------------
(***************************************************************************)
(* Proofs about InferencePool, for every number of RPCs and workers, every *)
(* length of the queue and every number of frames.                         *)
(***************************************************************************)
EXTENDS InferencePool, FiniteSetTheorems, TLAPS

(* How far the main thread is says what it has waited for.                   *)
StageInv ==
  /\ main \in {"run", "shutdown", "crashed", "wake"} => ~ closed
  /\ main \in {"wake", "join", "stopped", "exit"} =>
       \A c \in Calls : handler[c].at \in {"none", "done"}
  /\ main \in {"stopped", "exit"} => \A w \in Workers : worker[w] = "exit"

PoolInv == TypeOK /\ Accounting /\ NoLostWakeup /\ StageInv
-----------------------------------------------------------------------------
LEMMA InitPool == Init => PoolInv
<1> SUFFICES ASSUME Init PROVE PoolInv
  OBVIOUS
<1>1. TypeOK
  <2>1. queue \in Seq(Packets) /\ Len(queue) <= MaxQueue
    BY PoolAssumption DEF Init
  <2>2. /\ handler \in [Calls -> [at : {"none", "read", "push", "done"},
                                 pushed : 0 .. MaxFrames]]
        /\ \A c \in Calls : handler[c].at # "push"
    BY PoolAssumption DEF Init
  <2>3. /\ parked \subseteq {w \in Workers : worker[w] = "pop"}
        /\ worker \in [Workers ->
             {"pop", "fetch", "infer", "inferring", "send", "sending", "exit"}]
    BY DEF Init
  <2> QED BY <2>1, <2>2, <2>3 DEF Init, TypeOK
<1>2. Accounting
  BY DEF Init, Accounting
<1>3. NoLostWakeup
  BY DEF Init, NoLostWakeup
<1>4. main = "run" /\ closed = FALSE
  BY DEF Init
<1>5. StageInv
  BY <1>4 DEF StageInv
<1> QED BY <1>1, <1>2, <1>3, <1>5 DEF PoolInv

(* What push makes of a queue within its limit.                              *)
LEMMA EnqueueType ==
  ASSUME TypeOK, NEW p \in Packets
  PROVE  LET q == Enqueue(queue, p) IN
         /\ q \in Seq(Packets) /\ Len(q) <= MaxQueue
         /\ Len(q) <= Len(queue) + 1
         /\ CountDrop(queue) \in Nat
         /\ CountDrop(queue) + Len(q) = dropped + Len(queue) + 1
<1>1. /\ queue \in Seq(Packets) /\ Len(queue) \in Nat /\ dropped \in Nat
      /\ Len(queue) <= MaxQueue /\ MaxQueue \in Nat \ {0}
  BY PoolAssumption DEF TypeOK
<1>2. CASE Len(queue) >= MaxQueue
  <2>1. Tail(queue) \in Seq(Packets) /\ Len(Tail(queue)) = Len(queue) - 1
    BY <1>1, <1>2
  <2>2. /\ Enqueue(queue, p) = Append(Tail(queue), p)
        /\ CountDrop(queue) = dropped + 1
    BY <1>2 DEF Enqueue, CountDrop
  <2>3. Append(Tail(queue), p) \in Seq(Packets) /\ Len(Append(Tail(queue), p)) = Len(queue)
    BY <1>1, <2>1
  <2> QED BY <1>1, <2>2, <2>3
<1>3. CASE ~ (Len(queue) >= MaxQueue)
  <2>1. Enqueue(queue, p) = Append(queue, p) /\ CountDrop(queue) = dropped
    BY <1>3 DEF Enqueue, CountDrop
  <2>2. Append(queue, p) \in Seq(Packets) /\ Len(Append(queue, p)) = Len(queue) + 1
    BY <1>1
  <2> QED BY <1>1, <1>3, <2>1, <2>2
<1> QED BY <1>2, <1>3

(* Any set of workers that look is finite, so it has a size.                 *)
LEMMA LookingFinite ==
  /\ IsFiniteSet(Looking) /\ Cardinality(Looking) \in Nat
  /\ IsFiniteSet(Looking') /\ Cardinality(Looking') \in Nat
<1>1. Looking \in SUBSET Workers /\ Looking' \in SUBSET Workers
  BY DEF Looking
<1>2. IsFiniteSet(Looking) /\ IsFiniteSet(Looking')
  BY <1>1, PoolAssumption, FS_Subset
<1> QED BY <1>2, FS_CardinalityType

(* While no worker stops looking and the queue does not grow, none can miss  *)
(* its wakeup.                                                               *)
LEMMA LookingKept ==
  ASSUME TypeOK, NoLostWakeup, Looking \subseteq Looking',
         parked' \subseteq parked, UNCHANGED <<queue, closed>>
  PROVE  NoLostWakeup'
<1>1. Cardinality(Looking) <= Cardinality(Looking')
  BY LookingFinite, FS_Subset
<1>2. Len(queue) \in Nat
  BY DEF TypeOK
<1> QED BY <1>1, <1>2, LookingFinite DEF NoLostWakeup
-----------------------------------------------------------------------------
(* The handlers, but for push.                                               *)
LEMMA HandlerStep ==
  ASSUME PoolInv, NEW c \in Calls, Open(c) \/ Receive(c) \/ Close(c) \/ Cancel(c)
  PROVE  PoolInv'
<1>1. /\ handler[c].at \in {"none", "read", "push"}
      /\ main \notin {"wake", "join", "stopped", "exit"}
  <2>1. handler[c].at # "done" /\ (handler[c].at = "none" => main = "run")
    BY DEF Open, Receive, Close, Cancel, Goto
  <2> QED BY <2>1 DEF PoolInv, TypeOK, StageInv
<1>2. UNCHANGED <<queueVars, parked, worker, server, main>>
  BY DEF Open, Receive, Close, Cancel, Goto
<1>3. TypeOK'
  <2>1. PICK to \in {"read", "push", "done"} :
          /\ handler' = [handler EXCEPT ![c].at = to]
          /\ to = "push" => handler[c].pushed < MaxFrames
    BY DEF Open, Receive, Close, Cancel, Goto
  <2>2. /\ handler' \in [Calls -> [at : {"none", "read", "push", "done"},
                                   pushed : 0 .. MaxFrames]]
        /\ \A d \in Calls : handler'[d].at = "push" => handler'[d].pushed < MaxFrames
    BY <2>1 DEF PoolInv, TypeOK
  <2> QED BY <1>2, <2>2 DEF PoolInv, TypeOK, queueVars
<1>4. Accounting' /\ NoLostWakeup'
  BY <1>2 DEF PoolInv, Accounting, NoLostWakeup, Looking, queueVars
<1>5. StageInv'
  BY <1>1, <1>2 DEF PoolInv, StageInv, queueVars
<1> QED BY <1>3, <1>4, <1>5 DEF PoolInv

LEMMA PushStep ==
  ASSUME PoolInv, NEW c \in Calls, Push(c)
  PROVE  PoolInv'
<1> USE PoolAssumption
<1> DEFINE p == [call |-> c, n |-> handler[c].pushed + 1]
           q == Enqueue(queue, p)
<1>1. /\ handler[c].at = "push" /\ queue' = q /\ dropped' = CountDrop(queue)
      /\ pushed' = pushed + 1
      /\ UNCHANGED <<closed, taken, worker, server, main>>
  BY DEF Push
<1>2. TypeOK /\ handler[c].pushed \in 0 .. MaxFrames /\ handler[c].pushed < MaxFrames
  BY <1>1 DEF PoolInv, TypeOK
<1>3. p \in Packets
  BY <1>2 DEF Packets
<1>4. /\ q \in Seq(Packets) /\ Len(q) <= MaxQueue /\ Len(q) <= Len(queue) + 1
      /\ CountDrop(queue) \in Nat
      /\ CountDrop(queue) + Len(q) = dropped + Len(queue) + 1
  BY <1>2, <1>3, EnqueueType
<1>5. parked' \subseteq parked
  BY DEF Push, NotifyOne
<1>6. TypeOK'
  <2>1. handler' = [handler EXCEPT ![c] = [at |-> "read", pushed |-> handler[c].pushed + 1]]
    BY DEF Push
  <2>2. /\ handler' \in [Calls -> [at : {"none", "read", "push", "done"},
                                   pushed : 0 .. MaxFrames]]
        /\ \A d \in Calls : handler'[d].at = "push" => handler'[d].pushed < MaxFrames
    BY <1>2, <2>1 DEF TypeOK
  <2>3. /\ queue' \in Seq(Packets) /\ Len(queue') <= MaxQueue
        /\ dropped' \in Nat /\ pushed' \in Nat
    BY <1>1, <1>2, <1>4 DEF TypeOK
  <2>4. parked' \subseteq {w \in Workers : worker'[w] = "pop"}
    BY <1>1, <1>2, <1>5 DEF TypeOK
  <2> QED BY <1>1, <1>2, <2>2, <2>3, <2>4 DEF TypeOK
<1>7. Accounting'
  <2>1. pushed = taken + dropped + Len(queue)
    BY DEF PoolInv, Accounting
  <2>2. taken \in Nat /\ dropped \in Nat /\ Len(queue) \in Nat /\ Len(q) \in Nat
    BY <1>2, <1>4 DEF TypeOK
  <2>3. \A d, m \in Nat :
          d + m = dropped + Len(queue) + 1 => pushed + 1 = taken + d + m
    BY <2>1, <2>2
  <2>4. pushed + 1 = taken + CountDrop(queue) + Len(q)
    <3> HIDE DEF q
    <3> QED BY <1>4, <2>2, <2>3
  <2> QED BY <1>1, <2>4 DEF Accounting
<1>8. NoLostWakeup'
  <2> SUFFICES ASSUME parked' # {}, ~ closed'
               PROVE  Len(q) <= Cardinality(Looking')
    BY <1>1 DEF NoLostWakeup
  <2>1. parked # {} /\ ~ closed
    BY <1>1, <1>5
  <2>2. PICK w \in parked : parked' = parked \ {w}
    BY <2>1 DEF Push, NotifyOne
  <2>3. w \in Workers /\ worker[w] = "pop" /\ w \notin Looking
    BY <1>2, <2>2 DEF TypeOK, Looking
  <2>4. Looking' = Looking \cup {w}
    BY <1>1, <2>2, <2>3 DEF Looking
  <2>5. Cardinality(Looking') = Cardinality(Looking) + 1
    BY <2>3, <2>4, LookingFinite, FS_AddElement
  <2>6. Len(queue) <= Cardinality(Looking)
    BY <2>1 DEF PoolInv, NoLostWakeup
  <2>7. Len(queue) \in Nat /\ Len(q) \in Nat
    BY <1>2, <1>4 DEF TypeOK
  <2> QED BY <1>4, <2>5, <2>6, <2>7, LookingFinite
<1>9. StageInv'
  <2>1. main \notin {"wake", "join", "stopped", "exit"}
    BY <1>1 DEF PoolInv, StageInv
  <2> QED BY <1>1, <2>1 DEF PoolInv, StageInv
<1> QED BY <1>6, <1>7, <1>8, <1>9 DEF PoolInv
-----------------------------------------------------------------------------
(* The workers.                                                              *)

(* Once the main thread has joined the workers, none of them takes a step.   *)
LEMMA WorkerAlive ==
  ASSUME PoolInv, NEW w \in Workers, worker[w] # "exit"
  PROVE  main \notin {"stopped", "exit"}
BY DEF PoolInv, StageInv

LEMMA PopStep ==
  ASSUME PoolInv, NEW w \in Workers, Pop(w)
  PROVE  PoolInv'
<1>1. TypeOK /\ worker[w] = "pop" /\ w \notin parked /\ w \in Looking
  BY DEF PoolInv, Pop, Looking
<1>2. /\ UNCHANGED <<handler, server, main, dropped, closed, pushed>>
      /\ main \notin {"stopped", "exit"}
  BY <1>1, WorkerAlive DEF Pop, queueVars
<1>3. StageInv'
  BY <1>2 DEF PoolInv, StageInv
<1>4. CASE closed
  <2>1. worker' = [worker EXCEPT ![w] = "exit"] /\ UNCHANGED <<queueVars, parked>>
    BY <1>4 DEF Pop
  <2>2. TypeOK'
    BY <1>1, <1>2, <2>1 DEF TypeOK, queueVars
  <2>3. Accounting' /\ NoLostWakeup'
    BY <1>4, <2>1 DEF PoolInv, Accounting, NoLostWakeup, queueVars
  <2> QED BY <1>3, <2>2, <2>3 DEF PoolInv
<1>5. CASE ~ closed /\ queue = <<>>
  <2>1. parked' = parked \cup {w} /\ UNCHANGED <<queueVars, worker>>
    BY <1>5 DEF Pop
  <2>2. TypeOK'
    BY <1>1, <1>2, <2>1 DEF TypeOK, queueVars
  <2>3. Accounting'
    BY <2>1 DEF PoolInv, Accounting, queueVars
  <2>4. Len(queue') = 0
    BY <1>5, <2>1 DEF queueVars
  <2>5. NoLostWakeup'
    BY <2>4, LookingFinite DEF NoLostWakeup
  <2> QED BY <1>3, <2>2, <2>3, <2>5 DEF PoolInv
<1>6. CASE ~ closed /\ queue # <<>>
  <2>1. /\ queue' = Tail(queue) /\ taken' = taken + 1
        /\ worker' = [worker EXCEPT ![w] = "fetch"]
        /\ UNCHANGED parked
    BY <1>6 DEF Pop
  <2>2. /\ queue \in Seq(Packets) /\ Len(queue) \in Nat /\ Len(queue) <= MaxQueue
        /\ taken \in Nat /\ dropped \in Nat
    BY <1>1 DEF TypeOK
  <2>3. queue' \in Seq(Packets) /\ Len(queue') = Len(queue) - 1 /\ Len(queue') \in Nat
    BY <1>6, <2>1, <2>2
  <2>4. TypeOK'
    <3>1. Len(queue') <= MaxQueue /\ taken' \in Nat
      BY <2>1, <2>2, <2>3, PoolAssumption
    <3>2. /\ worker' \in [Workers ->
               {"pop", "fetch", "infer", "inferring", "send", "sending", "exit"}]
          /\ parked' \subseteq {v \in Workers : worker'[v] = "pop"}
      BY <1>1, <2>1 DEF TypeOK
    <3> QED BY <1>1, <1>2, <2>3, <3>1, <3>2 DEF TypeOK
  <2>5. Accounting'
    <3>1. \A a, b, l, m \in Nat : m = l - 1 => a + b + l = (a + 1) + b + m
      OBVIOUS
    <3>2. taken + dropped + Len(queue) = (taken + 1) + dropped + Len(queue')
      BY <2>2, <2>3, <3>1
    <3> QED BY <1>2, <2>1, <3>2 DEF PoolInv, Accounting
  <2>6. NoLostWakeup'
    <3> SUFFICES ASSUME parked' # {}, ~ closed'
                 PROVE  Len(queue') <= Cardinality(Looking')
      BY DEF NoLostWakeup
    <3>1. Looking' = Looking \ {w}
      BY <1>1, <2>1 DEF Looking, TypeOK
    <3>2. Cardinality(Looking') = Cardinality(Looking) - 1
      BY <1>1, <3>1, LookingFinite, FS_RemoveElement
    <3>3. Len(queue) <= Cardinality(Looking)
      BY <1>6, <2>1 DEF PoolInv, NoLostWakeup
    <3> QED BY <2>2, <2>3, <3>2, <3>3, LookingFinite
  <2> QED BY <1>3, <2>4, <2>5, <2>6 DEF PoolInv
<1> QED BY <1>1, <1>4, <1>5, <1>6 DEF TypeOK

(* Everything else a worker does between two pops, and a spurious wakeup.    *)
LEMMA WorkStep ==
  ASSUME PoolInv, NEW w \in Workers,
         Skip(w) \/ Fetch(w) \/ Infer(w) \/ Result(w) \/ Send(w) \/ Sent(w)
  PROVE  PoolInv'
<1>1. PICK to \in {"pop", "infer", "inferring", "send", "sending"} :
        worker' = [worker EXCEPT ![w] = to]
  BY DEF Skip, Fetch, Infer, Result, Send, Sent, Step
<1>2. /\ worker[w] \notin {"pop", "exit"}
      /\ UNCHANGED <<queueVars, parked, handler, server, main>>
  BY DEF Skip, Fetch, Infer, Result, Send, Sent, Step
<1>3. TypeOK'
  <2>1. /\ worker' \in [Workers ->
             {"pop", "fetch", "infer", "inferring", "send", "sending", "exit"}]
        /\ parked \subseteq {v \in Workers : worker'[v] = "pop"}
    BY <1>1, <1>2 DEF PoolInv, TypeOK
  <2> QED BY <1>2, <2>1 DEF PoolInv, TypeOK, queueVars
<1>4. Accounting'
  BY <1>2 DEF PoolInv, Accounting, queueVars
<1>5. NoLostWakeup'
  <2>1. Looking \subseteq Looking'
    BY <1>1, <1>2 DEF PoolInv, TypeOK, Looking
  <2> QED BY <1>2, <2>1, LookingKept DEF PoolInv, queueVars
<1>6. StageInv'
  BY <1>2, WorkerAlive DEF PoolInv, StageInv, queueVars
<1> QED BY <1>3, <1>4, <1>5, <1>6 DEF PoolInv

LEMMA WakeStep ==
  ASSUME PoolInv, NEW w \in Workers, SpuriousWake(w)
  PROVE  PoolInv'
<1>1. parked' = parked \ {w} /\ UNCHANGED <<queueVars, worker, handler, server, main>>
  BY DEF SpuriousWake
<1>2. TypeOK' /\ Accounting' /\ StageInv'
  BY <1>1 DEF PoolInv, TypeOK, Accounting, StageInv, queueVars
<1>3. Looking \subseteq Looking'
  BY <1>1 DEF Looking
<1>4. NoLostWakeup'
  BY <1>1, <1>3, LookingKept DEF PoolInv, queueVars
<1> QED BY <1>2, <1>4 DEF PoolInv
-----------------------------------------------------------------------------
(* The server thread and the main thread.                                    *)
LEMMA MainThreadStep ==
  ASSUME PoolInv, Listen \/ Signal \/ Shutdown
  PROVE  PoolInv'
<1> USE DEF PoolInv
<1>1. UNCHANGED <<queue, dropped, pushed, taken, worker, handler>>
  BY DEF Listen, Signal, Shutdown, ServerDown, Wake, StopTracking, Exit, MainStep, queueVars
<1>2. /\ parked' \subseteq parked /\ closed' \in BOOLEAN
      /\ server' \in {"starting", "listening", "down"}
      /\ main' \in {"run", "shutdown", "wake", "join", "stopped", "exit", "crashed"}
  BY DEF Listen, Signal, Shutdown, ServerDown, Wake, StopTracking, Exit, MainStep,
         NotifyAll, queueVars, TypeOK
<1>3. TypeOK'
  BY <1>1, <1>2 DEF TypeOK
<1>4. Accounting'
  BY <1>1 DEF Accounting
<1>5. NoLostWakeup'
  <2>1. CASE Wake
    BY <2>1 DEF Wake, NotifyAll, NoLostWakeup
  <2>2. CASE ~ Wake
    <3>1. UNCHANGED <<parked, closed>>
      BY <2>2 DEF Listen, Signal, Shutdown, ServerDown, StopTracking, Exit, MainStep,
                  queueVars
    <3> QED BY <1>1, <3>1 DEF NoLostWakeup, Looking
  <2> QED BY <2>1, <2>2
<1>6. StageInv'
  <2>1. CASE Listen
    BY <2>1 DEF Listen, StageInv, queueVars
  <2>2. CASE Signal
    BY <2>2 DEF Signal, MainStep, StageInv, queueVars
  <2>3. CASE ServerDown
    BY <2>3 DEF ServerDown, MainStep, StageInv, queueVars
  <2>4. CASE Wake
    BY <2>4 DEF Wake, StageInv
  <2>5. CASE StopTracking
    BY <2>5 DEF StopTracking, WorkersJoined, MainStep, StageInv, queueVars
  <2>6. CASE Exit
    BY <2>6 DEF Exit, MainStep, StageInv, queueVars
  <2> QED BY <2>1, <2>2, <2>3, <2>4, <2>5, <2>6 DEF Shutdown
<1> QED BY <1>3, <1>4, <1>5, <1>6

LEMMA NextPool == PoolInv /\ [Next]_vars => PoolInv'
<1>1. ASSUME PoolInv, UNCHANGED vars PROVE PoolInv'
  BY <1>1 DEF vars, queueVars, PoolInv, TypeOK, Accounting, NoLostWakeup, Looking, StageInv
<1> QED
  BY <1>1, HandlerStep, PushStep, PopStep, WorkStep, WakeStep, MainThreadStep
     DEF Next, Work

LEMMA PoolInvHolds == Spec => []PoolInv
BY InitPool, NextPool, PTL DEF Spec
-----------------------------------------------------------------------------
(* NewestQueued of any sequence of packets q, when done[c] is the number of  *)
(* packets that RPC c has pushed.                                            *)
Newest(q, done) ==
  \A i \in 1 .. Len(q) : LET c == q[i].call IN
    /\ q[i].n <= done[c]
    /\ \A j \in i + 1 .. Len(q) : q[j].call = c => q[i].n < q[j].n
    /\ \A n \in q[i].n .. done[c] : \E j \in i .. Len(q) : q[j] = [call |-> c, n |-> n]

Done == [c \in Calls |-> handler[c].pushed]

LEMMA NewestIsQueued ==
  /\ TypeOK => (NewestQueued <=> Newest(queue, Done))
  /\ TypeOK' => (NewestQueued' <=> Newest(queue', Done'))
<1>1. ASSUME TypeOK PROVE NewestQueued <=> Newest(queue, Done)
  <2>1. \A i \in 1 .. Len(queue) : queue[i] \in Packets
    BY <1>1 DEF TypeOK
  <2>2. \A i \in 1 .. Len(queue) : Done[queue[i].call] = handler[queue[i].call].pushed
    BY <2>1 DEF Packets, Done
  <2> QED BY <2>2 DEF NewestQueued, Newest
<1>2. ASSUME TypeOK' PROVE NewestQueued' <=> Newest(queue', Done')
  <2>1. \A i \in 1 .. Len(queue') : queue'[i] \in Packets
    BY <1>2 DEF TypeOK
  <2>2. \A i \in 1 .. Len(queue') : Done'[queue'[i].call] = handler'[queue'[i].call].pushed
    BY <2>1 DEF Packets, Done
  <2> QED BY <2>2 DEF NewestQueued, Newest
<1> QED BY <1>1, <1>2

(* The oldest packet may go, for every other one only looks behind itself.   *)
LEMMA TailNewest ==
  ASSUME NEW q \in Seq(Packets), q # <<>>, NEW done, Newest(q, done)
  PROVE  Newest(Tail(q), done)
<1> DEFINE t == Tail(q)
<1>1. /\ t \in Seq(Packets) /\ Len(t) = Len(q) - 1 /\ Len(q) \in Nat
      /\ \A i \in 1 .. Len(t) : t[i] = q[i + 1]
  OBVIOUS
<1> HIDE DEF t
<1> SUFFICES ASSUME NEW i \in 1 .. Len(t)
             PROVE  /\ t[i].n <= done[t[i].call]
                    /\ \A j \in i + 1 .. Len(t) : t[j].call = t[i].call => t[i].n < t[j].n
                    /\ \A n \in t[i].n .. done[t[i].call] :
                         \E j \in i .. Len(t) : t[j] = [call |-> t[i].call, n |-> n]
  BY DEF Newest, t
<1>2. i + 1 \in 1 .. Len(q) /\ t[i] = q[i + 1]
  BY <1>1
<1>3. t[i].n <= done[t[i].call]
  BY <1>2 DEF Newest
<1>4. ASSUME NEW j \in i + 1 .. Len(t), t[j].call = t[i].call PROVE t[i].n < t[j].n
  <2>1. j + 1 \in (i + 1) + 1 .. Len(q) /\ t[j] = q[j + 1]
    BY <1>1
  <2> QED BY <1>2, <1>4, <2>1 DEF Newest
<1>5. ASSUME NEW n \in t[i].n .. done[t[i].call]
      PROVE  \E j \in i .. Len(t) : t[j] = [call |-> t[i].call, n |-> n]
  <2>1. PICK k \in i + 1 .. Len(q) : q[k] = [call |-> t[i].call, n |-> n]
    BY <1>2 DEF Newest
  <2>2. k - 1 \in i .. Len(t) /\ t[k - 1] = q[k]
    BY <1>1
  <2> QED BY <2>1, <2>2
<1> QED BY <1>3, <1>4, <1>5

(* The packet that follows the last one an RPC pushed goes behind it.        *)
LEMMA AppendNewest ==
  ASSUME NEW q \in Seq(Packets), NEW done \in [Calls -> Nat], NEW more \in [Calls -> Nat],
         NEW c \in Calls, more[c] = done[c] + 1, \A b \in Calls : b # c => more[b] = done[b],
         Newest(q, done)
  PROVE  Newest(Append(q, [call |-> c, n |-> done[c] + 1]), more)
<1>1. PICK p : p = [call |-> c, n |-> done[c] + 1]
  OBVIOUS
<1>2. PICK a : a = Append(q, p)
  OBVIOUS
<1>3. /\ Len(q) \in Nat /\ Len(a) = Len(q) + 1 /\ a[Len(q) + 1] = p
      /\ \A i \in 1 .. Len(q) : a[i] = q[i] /\ q[i] \in Packets
  BY <1>2
<1>4. p.call = c /\ p.n = done[c] + 1
  BY <1>1
<1>5. \A i \in 1 .. Len(q) : q[i].call \in Calls /\ q[i].n \in Int
  BY <1>3 DEF Packets
<1> SUFFICES ASSUME NEW i \in 1 .. Len(a)
             PROVE  /\ a[i].n <= more[a[i].call]
                    /\ \A j \in i + 1 .. Len(a) : a[j].call = a[i].call => a[i].n < a[j].n
                    /\ \A n \in a[i].n .. more[a[i].call] :
                         \E j \in i .. Len(a) : a[j] = [call |-> a[i].call, n |-> n]
  BY <1>1, <1>2 DEF Newest
<1>6. CASE i = Len(q) + 1
  <2>1. a[i] = p /\ more[a[i].call] = p.n /\ p.n \in Int
    BY <1>3, <1>4, <1>6
  <2>2. \A n \in a[i].n .. more[a[i].call] : a[i] = [call |-> a[i].call, n |-> n]
    <3>1. \A n \in p.n .. p.n : n = p.n
      BY <2>1
    <3> QED BY <1>1, <1>4, <2>1, <3>1
  <2>3. i \in i .. Len(a) /\ \A j \in i + 1 .. Len(a) : FALSE
    BY <1>3, <1>6
  <2> QED BY <2>1, <2>2, <2>3
<1>7. CASE i \in 1 .. Len(q)
  <2>1. /\ a[i] = q[i] /\ q[i].call \in Calls /\ q[i].n \in Int
        /\ q[i].n <= done[q[i].call]
    BY <1>3, <1>5, <1>7 DEF Newest
  <2>2. a[i].n <= more[a[i].call]
    <3>1. done[q[i].call] \in Nat
      BY <2>1
    <3>2. more[q[i].call] = done[q[i].call] \/ more[q[i].call] = done[q[i].call] + 1
      BY <2>1
    <3> QED BY <2>1, <3>1, <3>2
  <2>3. ASSUME NEW j \in i + 1 .. Len(a), a[j].call = a[i].call PROVE a[i].n < a[j].n
    <3>1. CASE j = Len(q) + 1
      <4>1. a[i].call = c /\ a[j].n = done[c] + 1
        BY <1>3, <1>4, <2>3, <3>1
      <4> QED BY <2>1, <4>1
    <3>2. CASE j # Len(q) + 1
      <4>1. j \in i + 1 .. Len(q) /\ a[j] = q[j]
        BY <1>3, <1>7, <3>2
      <4> QED BY <1>7, <2>1, <2>3, <4>1 DEF Newest
    <3> QED BY <3>1, <3>2
  <2>4. ASSUME NEW n \in a[i].n .. more[a[i].call]
        PROVE  \E j \in i .. Len(a) : a[j] = [call |-> a[i].call, n |-> n]
    <3>1. CASE n <= done[q[i].call]
      <4>1. PICK k \in i .. Len(q) : q[k] = [call |-> q[i].call, n |-> n]
        BY <1>7, <2>1, <3>1 DEF Newest
      <4>2. k \in i .. Len(a) /\ a[k] = q[k]
        BY <1>3, <1>7
      <4> QED BY <2>1, <4>1, <4>2
    <3>2. CASE ~ (n <= done[q[i].call])
      <4>1. q[i].call = c /\ n = done[c] + 1
        BY <2>1, <3>2
      <4>2. Len(q) + 1 \in i .. Len(a) /\ a[Len(q) + 1] = [call |-> c, n |-> n]
        BY <1>1, <1>3, <1>7, <4>1
      <4> QED BY <2>1, <4>1, <4>2
    <3> QED BY <3>1, <3>2
  <2> QED BY <2>2, <2>3, <2>4
<1> QED BY <1>3, <1>6, <1>7

LEMMA NewestStep ==
  ASSUME PoolInv, NewestQueued, [Next]_vars
  PROVE  NewestQueued'
<1>1. TypeOK /\ TypeOK'
  BY NextPool DEF PoolInv
<1>2. Newest(queue, Done)
  BY <1>1, NewestIsQueued
<1>3. Done \in [Calls -> Nat] /\ Done' \in [Calls -> Nat]
  BY <1>1 DEF TypeOK, Done
<1>4. ASSUME NEW c \in Calls, Push(c) PROVE NewestQueued'
  <2> DEFINE p == [call |-> c, n |-> Done[c] + 1]
  <2>1. queue \in Seq(Packets) /\ Len(queue) \in Nat
    BY <1>1 DEF TypeOK
  <2>2. queue' = Enqueue(queue, p)
    BY <1>4 DEF Push, Done
  <2>3. Done'[c] = Done[c] + 1 /\ \A b \in Calls : b # c => Done'[b] = Done[b]
    <3>1. /\ handler'[c].pushed = handler[c].pushed + 1
          /\ \A b \in Calls : b # c => handler'[b] = handler[b]
      BY <1>1, <1>4 DEF Push, TypeOK
    <3> QED BY <3>1 DEF Done
  <2>4. \E q \in Seq(Packets) : Newest(q, Done) /\ queue' = Append(q, p)
    <3>1. CASE Len(queue) >= MaxQueue
      <4>1. queue # <<>> /\ Tail(queue) \in Seq(Packets)
        BY <2>1, <3>1, PoolAssumption
      <4> QED BY <1>2, <2>1, <2>2, <3>1, <4>1, TailNewest DEF Enqueue
    <3>2. CASE ~ (Len(queue) >= MaxQueue)
      BY <1>2, <2>1, <2>2, <3>2 DEF Enqueue
    <3> QED BY <3>1, <3>2
  <2>5. PICK q \in Seq(Packets) : Newest(q, Done) /\ queue' = Append(q, p)
    BY <2>4
  <2>6. Newest(queue', Done')
    BY <1>3, <2>3, <2>5, AppendNewest
  <2> QED BY <1>1, <2>6, NewestIsQueued
<1>5. ASSUME NEW w \in Workers, Pop(w) PROVE NewestQueued'
  <2>1. UNCHANGED handler
    BY <1>5 DEF Pop
  <2>2. CASE queue' = queue
    BY <2>1, <2>2 DEF NewestQueued
  <2>3. CASE queue # <<>> /\ queue' = Tail(queue)
    <3>1. queue \in Seq(Packets) /\ Done' = Done
      BY <1>1, <2>1 DEF TypeOK, Done
    <3>2. Newest(queue', Done')
      BY <1>2, <2>3, <3>1, TailNewest
    <3> QED BY <1>1, <3>2, NewestIsQueued
  <2> QED BY <1>5, <2>2, <2>3 DEF Pop, queueVars
<1>6. ASSUME UNCHANGED queue, \A c \in Calls : handler'[c].pushed = handler[c].pushed
      PROVE  NewestQueued'
  <2>1. \A i \in 1 .. Len(queue) : queue[i] \in Packets
    BY <1>1 DEF TypeOK
  <2>2. \A i \in 1 .. Len(queue) : queue[i].call \in Calls
    BY <2>1 DEF Packets
  <2> QED BY <1>6, <2>2 DEF NewestQueued
<1>7. ASSUME NEW c \in Calls, Open(c) \/ Receive(c) \/ Close(c) \/ Cancel(c) PROVE NewestQueued'
  <2>1. UNCHANGED queue /\ \E to : handler' = [handler EXCEPT ![c].at = to]
    BY <1>7 DEF Open, Receive, Close, Cancel, Goto, queueVars
  <2>2. \A b \in Calls : handler'[b].pushed = handler[b].pushed
    BY <1>1, <2>1 DEF TypeOK
  <2> QED BY <1>6, <2>1, <2>2
<1>8. ASSUME UNCHANGED <<queue, handler>> PROVE NewestQueued'
  BY <1>6, <1>8
<1>9. ASSUME NEW w \in Workers,
             \/ Skip(w) \/ Fetch(w) \/ Infer(w) \/ Result(w) \/ Send(w) \/ Sent(w)
             \/ SpuriousWake(w)
      PROVE  NewestQueued'
  BY <1>8, <1>9 DEF Skip, Fetch, Infer, Result, Send, Sent, SpuriousWake, Step, queueVars
<1>10. CASE Listen \/ Signal \/ Shutdown
  BY <1>8, <1>10 DEF Listen, Signal, Shutdown, ServerDown, Wake, StopTracking, Exit, MainStep,
                     queueVars
<1>11. CASE UNCHANGED vars
  BY <1>8, <1>11 DEF vars, queueVars
<1> QED BY <1>4, <1>5, <1>7, <1>9, <1>10, <1>11 DEF Next, Work
-----------------------------------------------------------------------------
(* Every variable of the pool keeps its type; the queue never holds more     *)
(* packets than max_size_.                                                   *)
THEOREM TypeCorrect == Spec => []TypeOK
<1>1. PoolInv => TypeOK
  BY DEF PoolInv
<1> QED BY <1>1, PoolInvHolds, PTL

(* No packet is lost or counted twice, whatever the size of the queue and    *)
(* the number of producers and consumers.                                    *)
THEOREM AccountingHolds == Spec => []Accounting
<1>1. PoolInv => Accounting
  BY DEF PoolInv
<1> QED BY <1>1, PoolInvHolds, PTL

(* Whichever cameras share the queue and however long it is, it holds of     *)
(* each RPC the newest frames, in order and without a gap.                   *)
THEOREM NewestQueuedHolds == Spec => []NewestQueued
<1>1. Init => NewestQueued
  BY DEF Init, NewestQueued
<1>2. PoolInv /\ NewestQueued /\ [Next]_vars => NewestQueued'
  BY NewestStep
<1> QED BY <1>1, <1>2, PoolInvHolds, PTL DEF Spec

(* One notify_one for each push is enough for any number of workers.         *)
THEOREM NoLostWakeupHolds == Spec => []NoLostWakeup
<1>1. PoolInv => NoLostWakeup
  BY DEF PoolInv
<1> QED BY <1>1, PoolInvHolds, PTL

(* The shutdown sequence leaves no handler that pushes and no worker that    *)
(* sends, however many there are.                                            *)
THEOREM CleanShutdownHolds == Spec => []CleanShutdown
<1>1. PoolInv => CleanShutdown
  BY DEF PoolInv, TypeOK, StageInv, CleanShutdown
<1> QED BY <1>1, PoolInvHolds, PTL
=============================================================================
