---------------------------- MODULE DetectionFeed -----------------------------
(***************************************************************************)
(* One camera's boxes on their way from the inference workers to a         *)
(* browser: the stream handlers of the tracking service                    *)
(* (tracking_service/main.py), the tracker they share (tracker_engine.py), *)
(* the feed file they publish (detection_publisher.py), and the display,   *)
(* which reads that file and draws the boxes on a frame of the shared      *)
(* memory ring (display_service/frames.py).                                *)
(*                                                                         *)
(* Nobody takes a lock on this path.  Inference has one stream open at a   *)
(* time, but after a reconnect the handler of the broken one is still busy *)
(* with its last message while the new one starts, on the same tracker and *)
(* the same temporary file.  The ring is the atomic one of FrameStore; a   *)
(* frame is withdrawn from its slot and published again in two steps.      *)
(*                                                                         *)
(* A definition marked Faulty is used by no action: it is the neighbour's  *)
(* plausible bug, which one of the properties below has to catch.          *)
(***************************************************************************)
EXTENDS Naturals, FiniteSets, TLC

CONSTANTS
  Handlers,   (* threads of the tracking service's gRPC pool                 *)
  None,       (* no handler                                                  *)
  Depth,      (* RING_DEPTH                                                  *)
  Workers,    (* how many inference workers may hold a result at a time      *)
  MaxQueue,   (* INFERENCE_QUEUE: the notifications that wait                *)
  MaxFrames,  (* bound: the frames ingest publishes in all its lives         *)
  MaxEpoch,   (* bound: the restarts of ingest                               *)
  MaxFaults,  (* bound: broken streams, failing handlers and crashes of
                 the tracking service                                        *)
  MaxTrouble  (* bound: restarts and faults together                         *)

ASSUME FeedAssumption ==
  /\ IsFiniteSet(Handlers) /\ Handlers # {} /\ None \notin Handlers
  /\ Depth \in Nat \ {0} /\ MaxFrames \in Nat \ {0}
  /\ Workers \in Nat \ {0} /\ MaxQueue \in Nat \ {0}
  /\ MaxEpoch \in Nat /\ MaxFaults \in Nat /\ MaxTrouble \in Nat

VARIABLES
  slot,       (* slot -> the frame it holds, or NoFrame                      *)
  latest,     (* StreamRing::latest_frame_id                                 *)
  camera,     (* the reader thread of ingest: its life, frame and step,
                 and the frames of all lives                                 *)
  told,       (* FrameQueue: frames inference was notified of                *)
  results,    (* frames whose boxes a worker has and has not sent on         *)
  stream,     (* the handler of the open stream, None while it is broken     *)
  handler,    (* handler -> its step and the message it is at                *)
  engine,     (* TrackerEngine._trackers: the camera's tracker, 0 if none    *)
  matched,    (* tracker -> the frame its tracks were matched with last      *)
  name,       (* the feed directory: the temporary and the published file    *)
  file,       (* file -> its content, when that was written, and by whom     *)
  clock,      (* the wall clock: records written so far                      *)
  viewer,     (* a browser's MJPEG stream in the display service             *)
  faults,     (* faults so far                                               *)
  overlapped, (* history: two handlers were at a message at the same time    *)
  cut         (* history: frames whose ingest was killed after it published
                 them and before it stored their id as the newest            *)

ring     == <<slot, latest, camera, told, results, cut>>
tracking == <<stream, handler, engine, matched, overlapped>>
feed     == <<name, file, clock>>
feedVars == <<ring, tracking, feed, viewer, faults>>
-----------------------------------------------------------------------------
Slots       == 0 .. Depth - 1
SlotOf(fid) == fid % Depth
Frames      == [epoch : 0 .. MaxEpoch, fid : 1 .. MaxFrames]
NoFrame     == [epoch |-> 0, fid |-> 0]
Mixed       == [epoch |-> MaxEpoch + 1, fid |-> 0]  \* matched with two frames at once
OlderOrSame(f, g) == f.epoch < g.epoch \/ (f.epoch = g.epoch /\ f.fid <= g.fid)

(* A file has a name, or a handler that still holds it open.                 *)
Files  == 1 .. Cardinality(Handlers) + 2
NoFile == 0
Empty        == [kind |-> "empty", frame |-> NoFrame, own |-> TRUE]
Garbled      == [kind |-> "garbled", frame |-> NoFrame, own |-> TRUE]
Record(f, o) == [kind |-> "record", frame |-> f, own |-> o]
Unused       == [data |-> Empty, at |-> 0, by |-> {}]

Idle     == [pc |-> "idle", frame |-> NoFrame, tracker |-> 0, own |-> TRUE, file |-> NoFile]
Waiting  == [Idle EXCEPT !.pc = "wait"]
Watching == [pc |-> "watch", rec |-> Empty, at |-> 0, wrote |-> 0, doubled |-> FALSE,
             latest |-> 0, shown |-> NoFrame]

FeedInit ==
  /\ slot = [s \in Slots |-> NoFrame] /\ latest = 0
  /\ camera = [epoch |-> 0, fid |-> 0, pc |-> "idle", total |-> 0]
  /\ told = {} /\ results = {} /\ cut = {}
  /\ stream = None
  /\ handler = [h \in Handlers |-> Idle]
  /\ engine = 0 /\ matched = [t \in 1 .. Cardinality(Handlers) |-> NoFrame]
  /\ overlapped = FALSE
  /\ name = [tmp |-> NoFile, final |-> NoFile]
  /\ file = [i \in Files |-> Unused] /\ clock = 0
  /\ viewer = Watching
  /\ faults = 0
-----------------------------------------------------------------------------
(* The bounds on what goes wrong.                                            *)
Bearable == camera.epoch + faults < MaxTrouble
Fallible == faults < MaxFaults /\ Bearable

(* The ring: writeFrame, and the notification behind it.                     *)
Withdraw ==
  /\ camera.pc = "idle" /\ camera.total < MaxFrames
  /\ camera' = [camera EXCEPT !.fid = @ + 1, !.total = @ + 1, !.pc = "write"]
  /\ slot' = [slot EXCEPT ![SlotOf(camera.fid + 1)] = NoFrame]
  /\ UNCHANGED <<latest, told, results, cut, tracking, feed, viewer, faults>>

Written == [epoch |-> camera.epoch, fid |-> camera.fid]

Publish ==
  /\ camera.pc = "write"
  /\ camera' = [camera EXCEPT !.pc = "latest"]
  /\ slot' = [slot EXCEPT ![SlotOf(camera.fid)] = Written]
  /\ UNCHANGED <<latest, told, results, cut, tracking, feed, viewer, faults>>

(* Faulty: the id the next frame will have is stored. *)
NewestIsNext == camera.fid + 1
NewestId == camera.fid

StoreLatest ==
  /\ camera.pc = "latest"
  /\ camera' = [camera EXCEPT !.pc = "notify"]
  /\ latest' = NewestId
  /\ UNCHANGED <<slot, told, results, cut, tracking, feed, viewer, faults>>

(* FrameQueue::push drops the oldest when it is full.                        *)
Oldest == CHOOSE f \in told : \A g \in told : OlderOrSame(f, g)

Notify ==
  /\ camera.pc = "notify"
  /\ camera' = [camera EXCEPT !.pc = "idle"]
  /\ told' = {Written} \union (IF Cardinality(told) < MaxQueue THEN told ELSE told \ {Oldest})
  /\ UNCHANGED <<slot, latest, results, cut, tracking, feed, viewer, faults>>

(* Ingest is killed at any step and starts to count again; the slot it was   *)
(* writing stays withdrawn.                                                  *)
RestartIngest ==
  /\ camera.epoch < MaxEpoch /\ Bearable /\ camera.fid > 0
  /\ camera' = [camera EXCEPT !.epoch = @ + 1, !.fid = 0, !.pc = "idle"]
  /\ cut' = IF camera.pc = "latest" THEN cut \union {Written} ELSE cut
  /\ UNCHANGED <<slot, latest, told, results, tracking, feed, viewer, faults>>

(* A worker takes a notification, in any order, and fetches the frame by its *)
(* id, which may be of a later life of ingest.  One that is too old by now,  *)
(* or lapped, is skipped.                                                    *)
Infer ==
  \E f \in told : LET g == slot[SlotOf(f.fid)] IN
    /\ told' = told \ {f}
    /\ \/ /\ g.fid = f.fid /\ Cardinality(results) < Workers
          /\ results' = results \union {g}
       \/ UNCHANGED results
    /\ UNCHANGED <<slot, latest, camera, cut, tracking, feed, viewer, faults>>
-----------------------------------------------------------------------------
(* The tracking service.                                                     *)
Busy(h) == handler[h].pc \notin {"idle", "wait"}

(* A handler whose stream is still open waits for the next message; the      *)
(* iterator of a broken one ends, and the handler with it.                   *)
Rest(h) == IF stream = h THEN Waiting ELSE Idle

Used(hs, nm) == {hs[h].file : h \in Handlers} \union {nm.tmp, nm.final}
Kept(hs, nm, fs) == [i \in Files |-> IF i \in Used(hs, nm) THEN fs[i] ELSE Unused]

(* TrackingClient::open: there is one stream at a time.                      *)
Connect(h) ==
  /\ stream = None /\ handler[h].pc = "idle"
  /\ stream' = h
  /\ handler' = [handler EXCEPT ![h] = Waiting]
  /\ UNCHANGED <<ring, engine, matched, overlapped, feed, viewer, faults>>

(* The stream breaks; a handler that is at a message finishes it first.      *)
Break ==
  /\ stream # None /\ Fallible
  /\ faults' = faults + 1
  /\ stream' = None
  /\ handler' = [handler EXCEPT ![stream] = IF Busy(stream) THEN @ ELSE Idle]
  /\ UNCHANGED <<ring, engine, matched, overlapped, feed, viewer>>

(* An exception ends the handler, and that breaks the stream.                *)
Dies(h) ==
  /\ handler' = [handler EXCEPT ![h] = Idle]
  /\ stream' = IF stream = h THEN None ELSE stream

(* The tracking service is killed: its files survive it.                     *)
Crash ==
  /\ Fallible /\ \E h \in Handlers : handler[h].pc # "idle"
  /\ faults' = faults + 1
  /\ stream' = None
  /\ handler' = [h \in Handlers |-> Idle]
  /\ engine' = 0 /\ matched' = [t \in DOMAIN matched |-> NoFrame]
  /\ file' = Kept(handler', name, file)
  /\ UNCHANGED <<ring, overlapped, name, clock, viewer>>

(* The stale-frame test: a message may be too old, and is skipped.           *)
Skip(h) ==
  /\ stream = h /\ handler[h].pc = "wait"
  /\ \E f \in results : results' = results \ {f}
  /\ UNCHANGED <<slot, latest, camera, told, cut, tracking, feed, viewer, faults>>

Receive(h) ==
  /\ stream = h /\ handler[h].pc = "wait"
  /\ \E f \in results :
       /\ results' = results \ {f}
       /\ handler' = [handler EXCEPT ![h].pc = "tracker", ![h].frame = f]
  /\ overlapped' = (overlapped \/ \E g \in Handlers : Busy(g))
  /\ UNCHANGED <<slot, latest, camera, told, cut, stream, engine, matched, feed, viewer, faults>>

(* TrackerEngine._tracker: get, and make one if there was none.              *)
GetTracker(h) ==
  /\ handler[h].pc = "tracker"
  /\ handler' = [handler EXCEPT ![h].tracker = engine,
                                ![h].pc = IF engine = 0 THEN "make" ELSE "match"]
  /\ UNCHANGED <<ring, stream, engine, matched, overlapped, feed, viewer, faults>>

MakeTracker(h) ==
  /\ handler[h].pc = "make"
  /\ engine' = engine + 1
  /\ handler' = [handler EXCEPT ![h].tracker = engine + 1, ![h].pc = "match"]
  /\ UNCHANGED <<ring, stream, matched, overlapped, feed, viewer, faults>>

(* BYTETracker.update matches the tracks with the boxes of the frame.  Two   *)
(* handlers that are at it at once leave tracks of both frames.              *)
Sharing(h) ==
  \E g \in Handlers \ {h} : handler[g].pc = "ids" /\ handler[g].tracker = handler[h].tracker

Match(h) ==
  /\ handler[h].pc = "match"
  /\ matched' = [matched EXCEPT ![handler[h].tracker] =
                   IF Sharing(h) THEN Mixed ELSE handler[h].frame]
  /\ handler' = [handler EXCEPT ![h].pc = "ids"]
  /\ UNCHANGED <<ring, stream, engine, overlapped, feed, viewer, faults>>

(* ByteTrackTracker.update gives the boxes the ids at the det_index its      *)
(* tracks carry by now.                                                      *)
TakeIds(h) ==
  /\ handler[h].pc = "ids"
  /\ handler' = [handler EXCEPT ![h].own = (matched[handler[h].tracker] = handler[h].frame),
                                ![h].tracker = 0,
                                ![h].pc = "alerts"]
  /\ UNCHANGED <<ring, stream, engine, matched, overlapped, feed, viewer, faults>>

(* AlertEngine.update comes next (modules AlertEngine and EventStore).  An   *)
(* exception of the detection log leaves it, and ends the handler.           *)
AlertsFail(h) ==
  /\ handler[h].pc = "alerts" /\ Fallible
  /\ faults' = faults + 1
  /\ Dies(h)
  /\ UNCHANGED <<ring, engine, matched, overlapped, feed, viewer>>
-----------------------------------------------------------------------------
(* DetectionPublisher.publish.  Opening the temporary file for writing       *)
(* creates it or empties the one that is there.                              *)
Spare == CHOOSE i \in Files : i \notin Used(handler, name)
Holding(i) == {h \in Handlers : handler[h].file = i}
(* Faulty: the published file is opened and written in place. *)
TargetIsFinal == IF name.final = NoFile THEN Spare ELSE name.final
Target == IF name.tmp = NoFile THEN Spare ELSE name.tmp

OpenTmp(h) ==
  /\ handler[h].pc = "alerts"
  /\ handler' = [handler EXCEPT ![h].pc = "write", ![h].file = Target]
  /\ name' = [name EXCEPT !.tmp = Target]
  /\ file' = [file EXCEPT ![Target] = [data |-> Empty, at |-> clock,
                                     by |-> {h} \union Holding(Target)]]
  /\ UNCHANGED <<ring, stream, engine, matched, overlapped, clock, viewer, faults>>

(* write_text: a second writer of the same file leaves its own record or a   *)
(* mixture, as their lengths decide.                                         *)
Write(h) ==
  LET i   == handler[h].file
      rec == Record(handler[h].frame, handler[h].own) IN
  /\ handler[h].pc = "write"
  /\ \E d \in {rec, Garbled} :
       /\ d = Garbled => file[i].data # Empty
       /\ file' = [file EXCEPT ![i].data = d, ![i].at = clock + 1]
  /\ clock' = clock + 1
  /\ handler' = [handler EXCEPT ![h].pc = "replace"]
  /\ UNCHANGED <<ring, stream, engine, matched, overlapped, name, viewer, faults>>

(* os.replace moves whatever has the temporary name by now.                  *)
Replace(h) ==
  /\ handler[h].pc = "replace" /\ name.tmp # NoFile
  /\ name' = [tmp |-> NoFile, final |-> name.tmp]
  /\ handler' = [handler EXCEPT ![h] = Rest(h)]
  /\ file' = Kept(handler', name', [file EXCEPT ![name.tmp].by = @ \union {h}])
  /\ UNCHANGED <<ring, stream, engine, matched, overlapped, clock, viewer, faults>>

(* The other handler has moved it: FileNotFoundError.                        *)
ReplaceFails(h) ==
  /\ handler[h].pc = "replace" /\ name.tmp = NoFile
  /\ Dies(h)
  /\ file' = Kept(handler', name, file)
  /\ UNCHANGED <<ring, engine, matched, overlapped, name, clock, viewer, faults>>
-----------------------------------------------------------------------------
(* FrameJoiner.render_bgr, for one picture after the other.  A placeholder   *)
(* is a picture too, so the viewer goes on.                                  *)
At(pc) == viewer.pc = pc
Doubled(i) == Cardinality(file[i].by) > 1

(* FrameJoiner._feed: the age is from stat, and then the record is read.     *)
Stat ==
  /\ At("watch") /\ name.final # NoFile
  /\ viewer' = [viewer EXCEPT !.pc = "read", !.at = file[name.final].at,
                              !.doubled = Doubled(name.final)]
  /\ UNCHANGED <<ring, tracking, feed, faults>>

Read ==
  LET f == file[name.final] IN
  /\ At("read")
  /\ viewer' = IF f.data.kind = "record"
               THEN [viewer EXCEPT !.pc = "exact", !.rec = f.data, !.wrote = f.at]
               ELSE Watching
  /\ UNCHANGED <<ring, tracking, feed, faults>>

Has(fid) == fid # 0 /\ slot[SlotOf(fid)].fid = fid
Shows(fid) == [viewer EXCEPT !.pc = "shown", !.shown = slot[SlotOf(fid)]]

(* Faulty: the age is taken only now. *)
GetExactStats ==
  /\ At("exact")
  /\ viewer' = IF Has(viewer.rec.frame.fid)
               THEN [Shows(viewer.rec.frame.fid) EXCEPT !.at = file[name.final].at]
               ELSE [viewer EXCEPT !.pc = "newest"]
  /\ UNCHANGED <<ring, tracking, feed, faults>>

GetExact ==
  /\ At("exact")
  /\ viewer' = IF Has(viewer.rec.frame.fid) THEN Shows(viewer.rec.frame.fid)
               ELSE [viewer EXCEPT !.pc = "newest"]
  /\ UNCHANGED <<ring, tracking, feed, faults>>

GetNewestId ==
  /\ At("newest")
  /\ viewer' = [viewer EXCEPT !.pc = "instead", !.latest = latest]
  /\ UNCHANGED <<ring, tracking, feed, faults>>

GetInstead ==
  /\ At("instead")
  /\ viewer' = IF Has(viewer.latest) THEN Shows(viewer.latest) ELSE Watching
  /\ UNCHANGED <<ring, tracking, feed, faults>>

Draw ==
  /\ At("shown")
  /\ viewer' = Watching
  /\ UNCHANGED <<ring, tracking, feed, faults>>
-----------------------------------------------------------------------------
Ingest   == Withdraw \/ Publish \/ StoreLatest \/ Notify \/ RestartIngest
Handle(h) ==
  \/ Receive(h) \/ GetTracker(h) \/ MakeTracker(h) \/ Match(h) \/ TakeIds(h)
  \/ OpenTmp(h) \/ Write(h) \/ Replace(h) \/ ReplaceFails(h)
Display  == Stat \/ Read \/ GetExact \/ GetNewestId \/ GetInstead \/ Draw

FeedNext ==
  \/ Ingest \/ Infer \/ Break \/ Crash \/ Display
  \/ \E h \in Handlers : Connect(h) \/ Skip(h) \/ Handle(h) \/ AlertsFail(h)

FeedSpec == FeedInit /\ [][FeedNext]_feedVars
-----------------------------------------------------------------------------
HandlerTypes ==
  [pc : {"idle", "wait", "tracker", "make", "match", "ids", "alerts", "write", "replace"},
   frame : Frames \union {NoFrame}, tracker : 0 .. Cardinality(Handlers),
   own : BOOLEAN, file : Files \union {NoFile}]
DataTypes ==
  [kind : {"empty", "garbled"}, frame : {NoFrame}, own : {TRUE}]
    \union [kind : {"record"}, frame : Frames, own : BOOLEAN]
FileTypes == [data : DataTypes, at : Nat, by : SUBSET Handlers]

(* Every variable keeps its type; only a handler that publishes holds a      *)
(* file, and the two names of the directory are never one file.              *)
FeedTypeOK ==
  /\ slot \in [Slots -> Frames \union {NoFrame}] /\ latest \in 0 .. MaxFrames
  /\ camera \in [epoch : 0 .. MaxEpoch, fid : 0 .. MaxFrames,
                 pc : {"idle", "write", "latest", "notify"}, total : 0 .. MaxFrames]
  /\ told \subseteq Frames /\ results \subseteq Frames /\ cut \subseteq Frames
  /\ stream \in Handlers \union {None}
  /\ handler \in [Handlers -> HandlerTypes]
  /\ \A h \in Handlers : handler[h].file # NoFile <=> handler[h].pc \in {"write", "replace"}
  /\ engine \in 0 .. Cardinality(Handlers)
  /\ matched \in [1 .. Cardinality(Handlers) -> Frames \union {NoFrame, Mixed}]
  /\ name \in [tmp : Files \union {NoFile}, final : Files \union {NoFile}]
  /\ name.tmp = name.final => name.tmp = NoFile
  /\ file \in [Files -> FileTypes] /\ clock \in Nat
  /\ viewer.pc \in {"watch", "read", "exact", "newest", "instead", "shown"}
  /\ faults \in 0 .. MaxFaults /\ overlapped \in BOOLEAN

(* A picture in the browser is never older than the frame its boxes were     *)
(* found on, whoever dies and however the messages are reordered: the exact  *)
(* frame, one of the same id from a later life of ingest, or the newest.     *)
(* Only for a frame that was never counted as the newest, because ingest was *)
(* killed first, may the newest be older, once its own slot is overwritten.  *)
ShownNotOlder == At("shown") =>
  \/ OlderOrSame(viewer.rec.frame, viewer.shown)
  \/ viewer.rec.frame \in cut /\ viewer.shown.fid # viewer.rec.frame.fid

(* The age that is shown with a picture is never less than that of its       *)
(* boxes, unless two handlers handled the file that was looked at first.     *)
AgeHonest == viewer.pc \in {"exact", "newest", "instead", "shown"} =>
  viewer.at <= viewer.wrote \/ viewer.doubled

(* The display finds an empty or garbled file only if two handlers wrote or  *)
(* moved it: a crash or an exception alone never leaves one there, and the   *)
(* next record of a handler that is alone replaces it.                       *)
FeedWhole == name.final # NoFile =>
  file[name.final].data.kind = "record" \/ Doubled(name.final)

(* The ids in the feed belong to the boxes of their own frame as long as no  *)
(* two handlers were ever at a message at the same time.                     *)
OwnIds == \A i \in Files : file[i].data.own \/ overlapped

(* What the display may rely on in the feed: whole records with their own    *)
(* ids, as long as the handlers of two streams have not met.                 *)
FeedRight == FeedWhole /\ OwnIds
=============================================================================
