----------------------------- MODULE StreamTable ----------------------------
(***************************************************************************)
(* The table of streams in the shared segment: find_or_claim, by which     *)
(* writeFrame gets the row of its stream, and the scan by which getFrame   *)
(* and ShmReader find it.  FrameRing takes up from there.                  *)
(*                                                                         *)
(* No lock guards the table.  A row is reserved by a compare-and-swap, its *)
(* id is copied, and then it is published; rows are never given back, as   *)
(* the segment outlives the processes and removing a camera does not touch *)
(* it.  A step is one access to a row, except that a look at the state and *)
(* the comparison of a published id are one step, for a published id does  *)
(* not change.                                                             *)
(*                                                                         *)
(* stream_id has 32 bytes and a longer id is cut off: Stored[s] is what is *)
(* left of s.  Two ids that start with the same 31 bytes share it.         *)
(*                                                                         *)
(* A definition marked Faulty is used by no action: it is the neighbour's  *)
(* plausible bug, which one of the properties below has to catch.          *)
(***************************************************************************)
EXTENDS Integers, FiniteSets

CONSTANTS
  Cameras,     (* stream ids                                                 *)
  Stored,      (* what a row keeps of an id                                  *)
  Doubled,     (* cameras that a start in the gap of a stop gave two readers *)
  Rows,        (* MAX_STREAMS                                                *)
  Writers,     (* threads of the ingest process                              *)
  Readers,     (* calls of getFrame and get_frame                            *)
  MaxCrash,    (* bound: how often ingest dies                               *)
  NoId

StoredIds == {Stored[s] : s \in Cameras}

ASSUME TableAssumption ==
  /\ Stored = [s \in Cameras |-> Stored[s]] /\ NoId \notin StoredIds
  /\ Doubled \subseteq Cameras
  /\ Rows \in Nat \ {0} /\ MaxCrash \in Nat
  /\ IsFiniteSet(Writers) /\ IsFiniteSet(Cameras)

VARIABLES
  state,       (* StreamRing.state                                           *)
  id,          (* StreamRing.stream_id                                       *)
  wpc, wcam, wrow,   (* a writer: where it is, its stream, the row it is at  *)
  rpc, rcam, rrow,   (* a reader                                             *)
  crashes,     (* how often ingest died                                      *)
  written,     (* history: streams that had a frame to write                 *)
  listed       (* history: whether a reader's stream had a row at the start  *)

table   == <<state, id>>
writers == <<wpc, wcam, wrow>>
readers == <<rpc, rcam, rrow, listed>>
vars    == <<table, writers, readers, crashes, written>>

Row == 1 .. Rows
-----------------------------------------------------------------------------
FREE     == 0
RESERVED == 1
READY    == 2

(* A zeroed segment.                                                         *)
Init ==
  /\ state = [i \in Row |-> FREE] /\ id = [i \in Row |-> NoId]
  /\ wpc = [t \in Writers |-> "idle"] /\ wrow = [t \in Writers |-> 1]
  /\ rpc = [r \in Readers |-> "idle"] /\ rrow = [r \in Readers |-> 1]
  /\ wcam = [t \in Writers |-> NoId] /\ rcam = [r \in Readers |-> NoId]
  /\ listed = [r \in Readers |-> FALSE]
  /\ crashes = 0 /\ written = {}
-----------------------------------------------------------------------------
Registered(i, s) == state[i] = READY /\ id[i] = s

FirstRow == 1

(* Faulty: the loop runs over the end. *)
LastRowMissed(i) == i > Rows
LastRow(i) == i = Rows

(* Faulty: a row that somebody has reserved is taken over. *)
ReservableUnready(i) == state[i] # READY
Reservable(i) == state[i] = FREE

(* Faulty: a row that is not ready ends the scan. *)
ScanEndsAtUnready(i) == state[i] # READY \/ i = Rows
ScanEnds(i) == i = Rows

(* writeFrame.  A stream has one writer, unless it is doubled.               *)
Write(t, s) ==
  /\ wpc[t] = "idle"
  /\ s \in Doubled \/ \A u \in Writers : wpc[u] # "idle" => wcam[u] # s
  /\ wpc'  = [wpc EXCEPT ![t] = "find"]
  /\ wcam' = [wcam EXCEPT ![t] = s]
  /\ wrow' = [wrow EXCEPT ![t] = FirstRow]
  /\ written' = written \union {s}
  /\ UNCHANGED <<table, readers, crashes>>

(* The loop for a row that is registered already.                            *)
Find(t) ==
  /\ wpc[t] = "find"
  /\ \/ /\ Registered(wrow[t], wcam[t])
        /\ wpc' = [wpc EXCEPT ![t] = "write"]
        /\ UNCHANGED wrow
     \/ /\ ~ Registered(wrow[t], wcam[t]) /\ wrow[t] # Rows
        /\ wrow' = [wrow EXCEPT ![t] = @ + 1]
        /\ UNCHANGED wpc
     \/ /\ ~ Registered(wrow[t], wcam[t]) /\ wrow[t] = Rows
        /\ wpc'  = [wpc EXCEPT ![t] = "reserve"]
        /\ wrow' = [wrow EXCEPT ![t] = 1]
  /\ UNCHANGED <<table, wcam, readers, crashes, written>>

(* The loop for a free row: one compare-and-swap.                            *)
Reserve(t) ==
  /\ wpc[t] = "reserve"
  /\ \/ /\ Reservable(wrow[t])
        /\ state' = [state EXCEPT ![wrow[t]] = RESERVED]
        /\ wpc' = [wpc EXCEPT ![t] = "fill"]
        /\ UNCHANGED wrow
     \/ /\ ~ Reservable(wrow[t]) /\ ~ LastRow(wrow[t])
        /\ wrow' = [wrow EXCEPT ![t] = @ + 1]
        /\ UNCHANGED <<state, wpc>>
     \/ /\ ~ Reservable(wrow[t]) /\ LastRow(wrow[t])
        /\ wpc' = [wpc EXCEPT ![t] = "full"]
        /\ UNCHANGED <<state, wrow>>
  /\ UNCHANGED <<id, wcam, readers, crashes, written>>

Fill(t) ==
  /\ wpc[t] = "fill"
  /\ id' = [id EXCEPT ![wrow[t]] = Stored[wcam[t]]]
  /\ wpc' = [wpc EXCEPT ![t] = "publish"]
  /\ UNCHANGED <<state, wcam, wrow, readers, crashes, written>>

Publish(t) ==
  /\ wpc[t] = "publish"
  /\ state' = [state EXCEPT ![wrow[t]] = READY]
  /\ wpc' = [wpc EXCEPT ![t] = "write"]
  /\ UNCHANGED <<id, wcam, wrow, readers, crashes, written>>

(* The frame is in the ring of the row, or the table was full.  Ingest sends *)
(* the notification in either case.                                          *)
Return(t) ==
  /\ wpc[t] \in {"write", "full"}
  /\ wpc'  = [wpc EXCEPT ![t] = "idle"]
  /\ wcam' = [wcam EXCEPT ![t] = NoId]
  /\ wrow' = [wrow EXCEPT ![t] = 1]
  /\ UNCHANGED <<table, readers, crashes, written>>

(* The ingest process dies with all its threads, and is started again.       *)
Crash ==
  /\ crashes < MaxCrash
  /\ \E t \in Writers : wpc[t] # "idle"
  /\ crashes' = crashes + 1
  /\ wpc'  = [t \in Writers |-> "idle"]
  /\ wcam' = [t \in Writers |-> NoId]
  /\ wrow' = [t \in Writers |-> 1]
  /\ UNCHANGED <<table, readers, written>>
-----------------------------------------------------------------------------
(* getFrame and get_frame, as far as the row.                                *)
Ask(r, s) ==
  /\ rpc[r] # "scan"
  /\ rpc' = [rpc EXCEPT ![r] = "scan"]
  /\ rcam' = [rcam EXCEPT ![r] = s]
  /\ rrow' = [rrow EXCEPT ![r] = 1]
  /\ listed' = [listed EXCEPT ![r] = \E i \in Row : Registered(i, s)]
  /\ UNCHANGED <<table, writers, crashes, written>>

Scan(r) ==
  /\ rpc[r] = "scan"
  /\ \/ /\ Registered(rrow[r], rcam[r])
        /\ rpc' = [rpc EXCEPT ![r] = "found"]
        /\ UNCHANGED rrow
     \/ /\ ~ Registered(rrow[r], rcam[r]) /\ ~ ScanEnds(rrow[r])
        /\ rrow' = [rrow EXCEPT ![r] = @ + 1]
        /\ UNCHANGED rpc
     \/ /\ ~ Registered(rrow[r], rcam[r]) /\ ScanEnds(rrow[r])
        /\ rpc' = [rpc EXCEPT ![r] = "unknown"]
        /\ UNCHANGED rrow
  /\ UNCHANGED <<table, writers, rcam, listed, crashes, written>>
-----------------------------------------------------------------------------
Next ==
  \/ \E t \in Writers :
       \/ \E s \in Cameras : Write(t, s)
       \/ Find(t) \/ Reserve(t) \/ Fill(t) \/ Publish(t) \/ Return(t)
  \/ Crash
  \/ \E r \in Readers : Scan(r) \/ \E s \in Cameras : Ask(r, s)

Spec == Init /\ [][Next]_vars
-----------------------------------------------------------------------------
TypeOK ==
  /\ state \in [Row -> {FREE, RESERVED, READY}]
  /\ id \in [Row -> StoredIds \union {NoId}]
  /\ wpc \in [Writers -> {"idle", "find", "reserve", "fill", "publish", "write", "full"}]
  /\ rpc \in [Readers -> {"idle", "scan", "found", "unknown"}]
  /\ wcam \in [Writers -> Cameras \union {NoId}] /\ rcam \in [Readers -> Cameras \union {NoId}]
  /\ wrow \in [Writers -> Row] /\ rrow \in [Readers -> Row]
  /\ listed \in [Readers -> BOOLEAN]
  /\ crashes \in 0 .. MaxCrash /\ written \subseteq Cameras

(* "two threads can never grab the same free row": from the reservation to   *)
(* the write, threads of different cameras are at different rows, whatever   *)
(* a process that died left reserved.                                        *)
NoSharedRow ==
  \A t, u \in Writers :
    /\ wpc[t] \in {"fill", "publish", "write"} /\ wpc[u] \in {"fill", "publish", "write"}
    /\ wcam[t] # wcam[u]
    => wrow[t] # wrow[u]

(* "Returns the row for `sid`, claiming a free one if needed": a camera with *)
(* a single writer at a time has one row at most, through all restarts, so   *)
(* that readers look where the writer writes.                                *)
OneRow ==
  \A s \in Cameras \ Doubled :
    \A i, j \in Row : Registered(i, Stored[s]) /\ Registered(j, Stored[s]) => i = j

(* getFrame's "unknown stream": a reader is told so only if its stream was   *)
(* not in the table when the call began.                                     *)
KnownFound == \A r \in Readers : rpc[r] = "unknown" => ~ listed[r]

(* writeFrame's "table full": it is said only if the cameras seen so far, a  *)
(* second row for those that are doubled, and what crashes left reserved     *)
(* come to the size of the table.                                            *)
FullIsHonest ==
  (\E t \in Writers : wpc[t] = "full") =>
    Rows <= Cardinality(written)
              + Cardinality(written \intersect Doubled) * (Cardinality(Writers) - 1)
              + crashes * Cardinality(Writers)

(* Who gets which row: no two cameras share one, and none has two.           *)
RowsRight == NoSharedRow /\ OneRow

(* What a call that fails says is so: of the reader and of the writer.       *)
FailuresHonest == KnownFound /\ FullIsHonest
=============================================================================
