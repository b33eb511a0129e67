# A TLA+ model of the multi-camera theft-detection system

This directory is a formal model of the program in this repository: TLA+
modules for the parts that carry its logic, TLC configurations that check them
on small instances, and theorems that the TLA+ proof system (TLAPS) checks for
every value of the constants. Every definition is translated from the source;
`PROJECT.json` names, for each of them, the lines it stands for.

## 1. The system

Five processes on one machine. Pixels never leave it: they go through one POSIX
shared-memory segment; what travels over gRPC is metadata.

```
 camera --RTSP--> ingest --- notification (gRPC stream) ---> inference
                    |                                          |   4 workers
                    | writeFrame                     getFrame  |
                    v                                          v
              shared memory: a ring of 100 slots per stream    | detections
                    |                                          | (gRPC stream)
                    | get_frame                                v
                 display <------ <stream>.json files ------- tracking
                    |                                        (tracker, alerts)
                 control (systemctl, env files, admin RPCs to ingest)
```

| Component | Source | State it keeps | Operations | Talks to |
|---|---|---|---|---|
| Frame ring (seqlock) | `common/shm.*`, `inference_service/src/frame_reader.hpp`, `tracking_service/shm_reader.py` | per slot: sequence number, id, dimensions, pixels; per stream: `latest` | `writeFrame`, `getFrame`, `get_frame` | ingest writes, inference and display read, nobody locks |
| Segment: header and stream table | `common/shm.*` | magic, layout, transport mode; stream id -> row | `createShm`, `openShm`, `find_or_claim`, `checkTransport` | every process |
| Ingest: camera administration | `ingest_service/src/ingest_server.*`, `ingest_admin_service.*`, `main.cpp` | `known_` (id -> url), `active_` (id -> reader) under `mtx_` | add, remove, start, stop, list; SIGTERM | called by control's RPCs; owns the reader threads |
| Ingest: RTSP reader | `rtsp_reader.*`, `frame_writer.hpp` | `running_`, the frame counter, its statistics | open, read, publish, reconnect, stop | camera; ring; notification |
| Ingest: metrics mirror | `ingest_metrics.hpp` | last seen counters | `sample` | readers' statistics, through `listCameras` |
| Inference: queue and pool | `frame_queue.hpp`, `inference_worker.*`, `inference_server.*`, `main.cpp` | the bounded queue, its drop counter, `shutdown_` | push, pop, shutdown; handlers; workers; SIGTERM | ingest pushes; ring is read; tracking is sent to |
| Inference: tracking client | `tracking_client.*`, `detection_writer.hpp` | the stream, `next_retry_`, `backoff_` | `start`, `send`, `stop` | tracking |
| Inference: detector | `detector_onnx.*`, `preprocess.*`, `postprocess.*`, `nms.*` | ONNX session | `infer` | - |
| Tracking: handlers, tracker | `tracking_service/main.py`, `tracker_engine.py`, `byte_tracker.py` | tracker of each stream; tracked, lost and removed lists | `grpcStreamDetections`, `TrackerEngine.update` | inference; alerts; feed |
| Event service: alert engine | `event_service/alert_engine.py`, `suspicion.py`, `alert_rules.py` | `_tracks` (average and hysteresis of each track), `_fired` (cooldowns), `_last_prune` | `AlertEngine.update`, `SuspicionTracker.prune`, `_prune_fired` | called by tracking |
| Event service: log and sinks | `event_service/detection_log.py`, `event_store.py` | the log of the day; alerts as JSON files, as rows of an SQLite table, on the dashboard | write a line, rotate, emit, migrate; `recent_alerts` | tracking writes, display reads |
| Detection feed | `detection_publisher.py`, `display_service/frames.py` | one JSON file per stream | write and replace; join with the ring | tracking -> display |
| Links of the services | `inference_client.cpp` (ingest), `tracking_client.cpp`, `display_service/main.py` | a stream, a channel and a backoff at each client | dial, send, reopen; start in order and wait | ingest -> inference -> tracking |
| Display facade | `display_service/main.py` | `fleet()`, a `FleetController` built on first use | `/start-up`, `/shutdown`, `/restart`, `/status`, the picture streams | control |
| Control | `control_service/*.py` | env files, systemd units | `configure`, `set_frame_transport`, `start`, `stop`, `restart`; camera calls | systemd; ingest by RPC |

### What makes them correct, and what is hard about it

* **Frame ring.** A reader gets a frame that one `writeFrame` stored whole, of
  the id it asked for, or a miss with a reason; a writer that dies anywhere
  does not poison the segment that outlives it. Hard: three processes, no lock,
  a writer that laps readers, restarts at which frame ids begin again at 1, and
  the memory orders of the accesses.
* **Ingest administration.** A reader has exactly one owner at every instant
  (the map, the call that stops it, or the main thread), a camera that hangs
  never wedges the admin calls, SIGTERM ends the process with no thread left.
  Hard: the join happens outside the mutex, so every stop has a gap in which
  other calls run.
* **Inference pool.** Every packet is queued, handed to a worker or counted as
  dropped; per camera the queue holds the newest frames in order; no wakeup is
  lost; the handlers never wait; SIGTERM ends it. Hard: one condition variable,
  spurious wakeups, workers that hang behind the tracking service, a shutdown
  in four stages.
* **Segment.** One process initialises it, all agree on the layout; a stream
  has one row. Hard: lock-free claim, crashes in between, a segment that
  outlives a change of the transport.
* **Tracking client.** Reconnects with a backoff that doubles and is reset, a
  worker is not held up. Hard: several workers share one stream and its state,
  and `stop` races them.
* **Tracker, alerts.** Each detection of a frame is used once, a track is in one
  list, an alert needs sustained suspicion and respects the cooldown. Hard:
  frames arrive out of order, handler threads overlap after a reconnect, one
  prune runs for all the streams on the clock of one.
* **Event log and sinks.** Nothing is raised that cannot be replayed, no alert
  gets lost in a sink that did not fail, evidence has its alert. Hard: the sinks
  are written outside the lock, each may fail by itself, the process may be
  killed between any two of them, the log rotates and the table is migrated.
* **Detection feed.** A reader of the file sees one whole record with its own ids,
  and a picture is not older than its boxes. Hard: nobody locks anything, and
  after a reconnect two handlers share the tracker and the temporary file.
* **Links, fleet.** A restart of the fleet brings every service to the configured
  transport and leaves the streams open. Hard: of two streams in a row one heals
  itself and the other does not, so the order of a start is what opens it.

## 2. The modules

| Module | Models | Kind |
|---|---|---|
| `FrameStore` | what a ring promises: an atomic store of frames | abstract specification |
| `FrameRing` | `writeFrame`, `getFrame` and `ShmReader.get_frame`, access by access | implements `FrameStore` |
| `FrameRing_proofs` | inductive invariants and proofs for `FrameRing`, and its refinement | proofs |
| `StreamTable` | `find_or_claim` and the readers' scans, row by row | state machine |
| `Ingest_proofs` | inductive invariants and proofs for `StreamTable` and `IngestAdmin` | proofs |
| `MC_StreamTable` | the checked instances: ids that fit, and one that does not | model checking |
| `SeqlockOrder` | one slot under the memory orders the code asks for, any number of writers | state machine |
| `IngestAdmin` | `IngestServer`, the reader threads' loops, the main thread | state machine |
| `InferencePool` | handlers, `FrameQueue`, workers, tracking client's write lock, the main thread | state machine |
| `InferencePool_proofs` | inductive invariant and proofs for `InferencePool` | proofs |
| `AlertEngine` | the stale test of the tracking handler, `AlertEngine.update`, the suspicion state, the sustain rule | state machine |
| `AlertEngine_proofs` | inductive invariant and proofs for `AlertEngine` | proofs |
| `MC_AlertEngine` | the checked instance: its tracks | model checking |
| `TrackLists` | `BYTETracker.update` of one stream, and the ids `TrackerEngine` writes | state machine |
| `Tracking_proofs` | inductive invariants and proofs for `TrackLists` and `DetectionFeed` | proofs |
| `EventStore` | the rest of `AlertEngine.update`: the detection log, the sinks, their table, kills and failures | state machine |
| `EventStore_proofs` | inductive invariants and proofs for `EventStore` | proofs |
| `DetectionFeed` | from the ring through inference and the tracking handlers to a browser | state machine, on the atomic ring of `FrameStore` |
| `MC_DetectionFeed` | the checked instance: its symmetry | model checking |
| `ServiceLinks` | the streams between the services, and the requests that start and stop these | state machine |
| `ServiceLinks_proofs` | inductive invariant and proofs for `ServiceLinks` | proofs |
| `Fleet` | start, configuration and restart of the services; `initHeader`, `checkTransport` | state machine |
| `Fleet_proofs` | inductive invariant and proofs for `Fleet` | proofs |
| `MC_Fleet` | the checked instances: services and their order | model checking |

`Ingest_proofs` and `Tracking_proofs` each hold what is proved of one service: the
table's writers are the readers that `IngestAdmin` starts, and the lists are those of
the tracker that the handlers of `DetectionFeed` share. `IngestAdmin` and
`DetectionFeed` prefix the names of their specification (`AdminSpec`, `FeedSpec`) so
that both modules of a service can be extended at once.

In each module a definition marked *Faulty* belongs to no behaviour. It is a
plausible bug of the definition that follows it (a dropped re-check, a
`notify_one` too few), kept to show which property would catch it: `mutants` in
`PROJECT.json` pairs them.

### FrameRing

A step is one access to shared memory. `seq`, `body` and `latest` are the
segment; `wpc`, `wfid`, `wk` the program counter and locals of the one thread
that writes the stream; `rpc`, `want`, `s1`, `rk`, `copy`, `tries` those of the
calls of `getFrame`. The writer's steps are those of `writeFrame` in its order:
`Lock` (`seq | 1`), `Fill` word by word, `Unlock`, `StoreLatest`, and `Note`, the
notification that `publish` sends last. A reader takes `Sample`, `Copy` word by
word, `Check`, and may repeat them until `GiveUp`. `Restart` kills the writer
between any two accesses; its counter starts again, so a frame is modelled as
an epoch and an id, of which the code sees only the id.

A slot has `Words` words, the first of which is the id. The dimensions and the
pixels are the others: a frame that mixes two writes in any of them is torn. The
4 attempts of the C++ reader and the 6 of the Python one are one constant. The
sanity test of the Python reader on torn dimensions is a retry or a miss like
the ones beside it, and is merged with them.

`absent` is a history variable: whether the frame asked for was missing from
its slot at some instant of the call.

### StreamTable

A step is one access to one row: `Find` (state and id of a published row),
`Reserve` (one compare-and-swap), `Fill` (`strncpy`), `Publish`. `Return` stands for
the rest of `writeFrame`, which is `FrameRing`'s, and the notification that ingest
sends whether the write succeeded or not. `Crash` kills all writers at once, as
they are threads of ingest; the table outlives them. A stream has one writer at
a time except those in `Doubled`: section 3 says, under `ingest_admin`, how two
come about. `Stored` says what a row keeps of an id, the identity unless the id is too
long. The result for `FrameRing`, which starts from a registered row: a stream
with one writer has one row, and everybody finds it (`OneRow`, `KnownFound`).

### SeqlockOrder

The same code with the ordering C++ gives it. A release store does not hold
back the plain stores that *follow* it, an acquire load not the plain loads
that *precede* it; so the stores of a write may become visible before the odd
number, and the loads of a copy may be done after the checking load. Each of
the pending accesses is a step, in any order those rules leave
(`ProgramOrder = FALSE`) or in program order (`TRUE`).

### IngestAdmin

Admin calls run on gRPC threads (`Handlers`). `mtx_` is state: a thread holds it while
it is inside the scope of a `lock_guard` (`Scope`; `"sampling"` for the main thread), and
`Lock` and `SampleLock` wait until nobody does (`MutexFree`). Taking the mutex and
looking the camera up is one step, acting on what was found and leaving the scope
another; what the code does between two scopes (clear `running_`, join) is outside,
each a step of its own. Where a scope ends is thus a property of the definitions, and
its mutant is the join inside it. Reader threads loop
as `run_loop` does and look at `running_` only at the heads of its two loops;
`cap.open` and `cap.read` may return at any time or never. The main thread samples
the cameras (`SampleDue`, `SampleLock`, `Sampled`) and looks for SIGTERM between two
samples; `MoveReaders`, `StopOne`, `JoinOne` and `Exit` are what it does after it, when
the calls in flight have returned. `known` and `active` are total functions with `None`
for an absent key. The thread start in `spawnReader` opens the notification stream
under the mutex; that call is taken to return, as is the `Finish` of a reader's
stream, because its server never waits (`HandlerNeverWaits` below).

### InferencePool

`push`, `pop` and `shutdown` hold the queue's mutex from first to last line but
for the wait, so they are single steps; a pop that has to wait parks in `parked`
and, when notified or woken spuriously, evaluates its predicate again. A packet
is its RPC and its number there, which is all the properties tell apart; the
worker's verdict on it (stale, lapped, usable) is free. `Infer` and `Send` are
guarded by the detector's and the tracking client's mutexes; `Sent` is a return
of the synchronous gRPC write, which may never come. `Signal`, `ServerDown`,
`Wake`, `StopTracking`, `Exit` are the stages of the shutdown. If SIGTERM comes
before the server thread has set `server_`, the main thread dereferences null:
`main = "crashed"`.

### AlertEngine

One step is one frame: the handler of the tracking service and everything it
calls in the event service, under the engine's lock (handlers that overlap are in
`DetectionFeed`). `track` is `SuspicionTracker._tracks`, `fired`
is `_fired`, `lastPrune` is `_last_prune`; a track or record that is not in the
dictionary is one with stamp 0. The step takes any stamp up to `MaxAge` behind
the clock, which is what passes the stale test of `main.py`, so frames of one
track may come in any order and two cameras may lag one another. The average
is in percent and rounded down; `Signals` are the values of class weight times
confidence. Whether the tracker gives a person the same id again is its
business, hence any set of tracks of the stream may be in a frame.

The sinks and the detection log, which write out what is decided here, are
`EventStore`'s.
`lastNow`, `calm` and `alerts` are history variables for the properties. A
`TRACKING_MAX_AGE_MS` of 0 turns the stale test off; the model is of the program
with the test on, as it is by default.

### TrackLists

One step is one frame of one stream, `BYTETracker.update` from end to end. `tracks`
holds the `STrack` of each id, `tracked`, `lost` and `removed` are the three lists
(of the first two only membership matters), `frame` is `frame_id`. Which boxes
overlap is the environment's: each of the three associations takes any
one-to-one matching of what the code offers it, and `remove_duplicate_stracks`
gets any set of overlapping pairs. Boxes and the Kalman filter are left out.
`next` is `STrack._count`, a class variable, so another stream's tracker can
take an id at any time (`Elsewhere`).

Two habits of the code are kept. What a frame ages out is subtracted from the
lost list only by the next frame, as `removed_stracks` is extended after the
subtraction; in that frame the track can still be matched, and is tracked
again. From then on its id is in `removed`, so that the next time it is lost it is
forgotten in the same frame. `MaxLost >= 1` is the assumption that
`int(frame_rate / 30 * track_buffer)` is not zero, `Keep >= MaxTracks` that fewer ids
are given away than the 1000 that are remembered: what a tracker does with an id
that was pushed out of `removed_stracks` is outside the model. `gone`, the tracks
that were removed or dropped as duplicates, is a history variable.

### EventStore

`AlertEngine.update` from the other side: what a frame decides is any choice its
records allow (`Observe`), and a step is whatever another thread or a kill may come
between. `Update`, `Line`, `OpenFails`, `WriteFails` are `DetectionLogger.log`, with the
rotation at midnight; `TakeAlert`, `CreateFile`, `WriteText`, `Insert`, `Dashboard` are
`_emit`, which gives each alert to one sink after the other; `SinkFails` and
`CommitFails` are the exceptions it catches. An insert whose commit fails stays in
the open transaction of the shared connection, and is committed by the next
(`open`). `AddColumn` is one `ALTER TABLE` of the migration in `SqliteSink.__init__`;
an error of it is passed over, whether the column existed or not (`slipped`).
`Posted` is the thread that posts to the dashboard, `RecentAlerts` the display's
query, which turns every error into an empty list. `Crash` forgets all that is in
memory. `failed`, `cut` and `slipped` are history variables.

A frame decides at most one alert or piece of evidence for a track, so the two
name it. The clock does not go back over midnight. The dashboard is configured; the
picture that is saved beside an alert is left out.

### DetectionFeed

One camera from `writeFrame` to the browser. The ring is `FrameStore`'s, with the
gap in which a slot is withdrawn (`Withdraw`, `Publish`), because `FrameRing` refines
it; `told` is the queue of inference and `results` the frames its workers hold,
taken and sent in any order. `stream` is the handler of the open gRPC stream; after
`Break` its handler is still busy with its last message while `Connect` starts
another. A handler's steps are those of the loop in `main.py`: the tracker is
looked up and made without a lock (`GetTracker`, `MakeTracker`), matched, asked for the
ids (`Match`, `TakeIds`), and the record is written to the temporary file and moved
(`OpenTmp`, `Write`, `Replace`). Files have an identity of their own besides the two
names, as a handler writes on into a file that another has moved. `Stat` to `Draw`
are one picture of `FrameJoiner.render_bgr`.

The segment is mapped, and no two ids are made one file name by `_safe`. The fetch
of pixels by the tracking service and its latency trace, both optional, are left
out: nothing here reads them. `overlapped` is a history variable, as are `cut` (the
frames whose ingest was killed between publishing them and storing `latest`), `by`
(who handled a file) and the `wrote` and `doubled` of the viewer.

### ServiceLinks

`unit` is systemd's view of the three services. Ingest's stream to inference is
opened with the reader and never again (`Dial`); `RestartCamera` is a new reader.
`CloseBroken`, `Open`, `BackoffEnds` and `Connect` are `send`, `open_locked`, the passing of
the backoff and gRPC's connection behind it, whose length is not modelled, only
whether it is over. A request is the sequence of its commands (`Plan`), and requests
run side by side as the routes are handled by threads. After the start of a
service somebody dials, a request waits until its port answers or the time is up
(`Ready`, `TimesOut`). `lone` is a history variable: the restart that nothing has
disturbed yet.

### Fleet

Three layers in one state machine. *The segment:* `segs` holds the header of
every segment there ever was and `cur` the one `/dev/shm` names, since `rm`
leaves the old mapping to whoever has it. *A process:* `Exec` is systemd reading
the env file and starting the program; `Create` to `Agree` are `createShm`,
`initHeader` and `checkTransport` an access at a time; `Attach` is a Python reader,
which tests the header until it succeeds and never again. An abort, a crash and
a SIGKILL lead to `failed`, and `Restart=on-failure` to `exec` (`Revive`); the pause of
two seconds keeps systemd's start limit from being reached, so it is left out. If
`shm_open` fails, the handshake does nothing and the process runs on (`CreateFails`).
*The control service:* a request is the sequence of its commands, and requests
of different threads interleave command by command. `apply_config` truncates a
file and then fills it, two commands. A `systemctl` that fails is logged and
passed over; a file that cannot be written ends the request with an exception
(`CommandFails`).

SIGTERM only sets a flag in ingest and inference, so a `systemctl` stop waits for
the two stores of `initHeader` (the guard of `Systemctl`), while `Kill` may come
anywhere. Units may be enabled at boot or wait for a start; `Init` has both.
Waiting for ports changes no state here; what it is good for is in `ServiceLinks`. The compose backend differs from the systemd one in its command line only.
All peers are built with one `SHM_VERSION`. Of the env files only `FRAME_TRANSPORT`
is kept.

## 3. What is checked

All runs take at most about two minutes. Some properties are conjunctions: the
parts, which have their own names in the modules, are listed with them.

### `frame_ring` (pass; FrameRing, 423,904 states)

One reader, two slots, two words, two attempts, three frames in each of three
lives of the writer. Readers change no shared memory and do not see each other,
so a second one adds interleavings but no behaviour of the first. Three frames
lap a ring of two slots, two attempts are enough to fail once and then succeed
or give up, two crashes leave both slots odd or one of them twice.

* `HitIsRight`, first `NoTornRead`: id, dimensions and pixels of a hit are of one
  write of the id asked for. Then `NeverOlder`: ids repeat after a restart; who was
  told of a frame in one life of the writer is never given one of an *earlier*
  life. A later life's frame of the same id can be returned, and the model has
  behaviours that do so.
* `ImplementsStore`: the ring refines `FrameStore`. The mapping makes a slot
  empty while its number is odd. A miss of the store is of a frame that really
  was absent at some instant of the call, so this contains `NoSpuriousMiss`.
* `Heals`: if the last writer keeps running, every slot is whole infinitely
  often. `seq + 1` in place of `seq | 1` breaks this.

### `seqlock_weak` (violation: `NoHalfWrittenFrame`)

The README says a reader "can never observe a half-written frame". On a weakly
ordered machine (aarch64; the benchmarks run on a Jetson) it can: either the
pixels of the next frame become visible before its odd number, or the copy is
completed after the check. With `ProgramOrder = TRUE` and one writer the same
module has no violation, which is what `FrameRing` assumes and x86 provides;
with a second writer it has one even then. The repair would be a release fence
behind the odd store and an acquire fence before the checking load.

### `stream_table` (pass; MC_StreamTable, 2,091,993 states)

Three streams, one of them doubled, a table of three rows, two crashes: few
enough rows for every cause of a full table (streams, a second row of the doubled
one, rows lost in crashes) to occur. The writers are symmetric, and a reader
changes nothing.

* `RowsRight`, first `NoSharedRow`: from the reservation on, writers of different streams are at
  different rows, also when a dead process left a row reserved for ever.
  Then `OneRow`: a stream with one writer at a time has one row at most, so that
  readers look where it writes.
* `FailuresHonest`, first `KnownFound`: a reader told "unknown stream" asked before there was a row.
  Then `FullIsHonest`: `writeFrame` fails only if streams, doublings and crashes come to
  the size of the table. Rows are never freed, so removed cameras count.

The instance `LongStored` of `MC_StreamTable`, with a camera "longId" of 32 bytes or
more (`Stored <- LongStored`, invariant `OneRow`), has a counterexample: the id is cut
off by `strncpy` and compared whole, so its writer never finds its row and claims
another with each frame, contrary to "claiming a free one if needed". 16 frames
fill the table, and cameras that register later have no pixels, though inference
is notified of each frame.

### `ingest_admin` (pass; IngestAdmin, 154,646 states)

Two calls at a time on one camera with two urls, SIGTERM at any moment. Calls
for different cameras share nothing but the mutex; with two handlers every pair
of operations overlaps in every order, and three threads suffice for one
camera (assumption `IngestAssumption`).

* `Owned`, first `OneOwner`: a reader that lives is in `active_`, or held by one stopping
  thread, never both; nobody holds a destroyed one.
  Then `UrlAgrees`: a listed camera is read from the url it is listed with;
  `OneUnlessStopped`: two threads read one camera only while a call is stopping one of
  them. And `CleanExit`: no reader thread is alive after the exit. The mutex is needed
  for it: with `MutexFree` always true TLC finds a violation.
* `AdminNotWedged`: a call that waits for the mutex gets it, and so does the main
  thread's sample, whatever the cameras do. The comment at `stopStream` claims it. Its
  premise is that a thread is not passed over for ever by others that take the mutex
  (`SF` of its `Lock`). It hangs on where the join is: inside the scope, one frozen camera
  keeps the mutex for good, and every other call and the sampler with it.
* `StopsEnd`, first `StopReturns`: a stop returns if its *own* camera does not
  freeze. Then `Terminates`: SIGTERM ends the process if no camera freezes for good.

Two statements of the repository do not hold of this module, as TLC shows with
`ActiveIsKnown` and `SingleWriter` as the invariant of `AdminSpec` under the same constants.
`removeCamera` is two critical sections: a start between them leaves a running
reader whose camera is not in `known_`, contrary to the header's "`active_` is
the subset with a live reader", and which `listCameras` does not list. And as
`stopStream` gives up the entry of `active_` before it joins, a start in the gap
runs a second reader of the stream while the first may be in `writeFrame`,
contrary to "each stream should still have a single writer" in `shm.cpp`. By
`OneUnlessStopped` there is no other way to two. Under
`SingleWriter` `FrameRing`'s results apply; without it `SeqlockOrder` shows what
happens.

### `inference_pool` (pass; InferencePool, 77,098 states)

Two RPCs of up to three frames, two workers, a queue of two. Six frames overfill
the queue whatever the workers have; two workers are the fewest for which a
lost wakeup, a notify that reaches the wrong worker or a blocked mutex matter.

* `NewestQueued`: of every RPC the queue holds the newest frames, in order and
  without a gap, although all the cameras share it.
* `NoLostWakeup`: nobody is parked while there are more packets than workers
  about to look.
* `CleanShutdown`: nobody pushes into a closed queue or sends on a stopped
  client.
* `Progress`, first `HandlerNeverWaits`: a received frame is queued even if every worker hangs
  behind tracking ("both buffers drop rather than block").
  Then `QueueDrains`: if tracking takes what it is sent, no packet stays queued.
  Then `Stops`: SIGTERM ends the process if tracking takes what it is sent *and*
  ingest closes its streams: `Shutdown()` has no deadline and waits for them.

### `alert_engine` (pass; MC_AlertEngine, 1,366,208 states)

One track that may be suspicious or not in any frame, and a second camera, whose
frames show nothing but move the engine's one pruning clock. A second track
would share only that clock. The windows keep the order they have in the
program (cooldown above stale above evidence period, frames younger than stale),
and eight instants are enough for an alert, its cooldown, the next alert, and
prunings before and between them.

* `OnTime`, first `CooldownKept`: two alerts of a track are a cooldown apart, *minus the age of a
  frame*. The slack is real: a frame of the other camera can prune the record at
  the very end of the cooldown, and an older frame of the track then alerts.
  Then `SustainKept`: a track alerts only when it was last seen calm a sustain window
  ago, with the same slack.
* `EvidenceBounded`: the pieces of evidence saved in one cooldown.
* `NoMissedAlert`: if the rule fires for a track as last seen, the track has an
  alert younger than a cooldown. No record that outlives its alert, and no
  evidence saved in the cooldown, silences a track.
* `Forgotten`: the age of what the engine keeps is bounded, though it prunes only
  on frames and on the clock of whichever camera sent one.

### `track_lists` (pass; TrackLists, 225,184 states)

Two detections in a frame, three ids, six frames, a track lost for more than two
frames ages out. Two detections are the fewest for which an id can go to the
wrong one; six frames are a birth, a confirmation, the three frames to ageing,
and the frame in which an aged track is found again or dropped. Three ids allow
a tracked, a lost and a new track together.

* `OneIdEach`: the id written into a detection is that of the track matched with
  it *in this frame*. `det_index` outlives its frame; what protects the caller is
  that nothing stays in the tracked list without a match.
* `ListsRight`, first `OneList`: no track is tracked and lost at once, so no frame
  matches it twice. Then `Remembered`: a track neither removed nor a duplicate is in the list of its
  state; lost ones are at most `MaxLost` frames old, one more if just aged out.
* `TwoInARow`: but for the first frame of a stream, a person gets an id when
  matched in two frames in a row.

### `event_store` (pass; EventStore, 2,777,970 states)

Two handlers, one track, three frames over two days, two faults. Two handlers are
the fewest whose sinks interleave; three frames are an alert, its evidence, and a
commit that takes an open row along; two faults are a kill in the migration and a
second in the next one, or a failure and a kill. Another track would put more
alerts in one frame, which the order of `_emit` makes a sequence like that of two
frames; the proofs are for any number.

* `Replayable`: whatever can be seen of an alert anywhere, now or after a kill, its
  frame is in the detection log. It holds because the line comes before the
  decision; an exception of the log ends the handler.
* `NothingLost`: an alert that has left `_emit`, and was not cut short by a kill, is
  in every store whose *own* sink did not fail on it, and evidence stays off the
  dashboard.
* `EvidenceHasAlert`: stored evidence belongs to an alert, never to evidence, and that
  alert is in the same store unless it is on its way (two handlers: the evidence
  may be first), was cut short, or was refused by that sink.
* `Resumes`: a rotation that failed is taken up by the next line, and a start that is
  done has all the columns, also when an earlier one was killed over them, unless
  an error was passed over. That exception is the code's: an error such as a locked
  database is taken for a column that exists, and then every insert fails until the
  next start.

### `detection_feed` (pass; MC_DetectionFeed, 5,384,915 states)

Two handlers, a ring of two slots, four frames in all, two restarts of ingest, or one
of them and one fault of tracking. Four frames lap the ring and let a restarted ingest
repeat an id; two workers send out of order; a fault breaks a stream, kills the service
or fails in the alerts, and two handlers are as many as one reconnect makes. The third
life of ingest is what the exception below needs: with two it is never reached.

* `ShownNotOlder`: what a browser shows is never older than the frame its boxes are
  of, whoever dies and however messages are reordered, with one exception. If ingest
  is killed between the release of a slot and the store of `latest`, its frame can be
  read but was never the newest. Its ids start again in the next life, so inference
  may hold an old notification of the same number and fetch that frame by it.
  The life after withdraws its slot, and the display, which no longer finds the exact
  frame, falls back to `latest`, still that of the life before. `cut` records the
  frames this can happen to, and the property excuses no others.
* `AgeHonest`: the age beside a picture is never less than that of its boxes, unless
  two handlers had the file that was looked at first; `stat` comes before `read`, so a
  replacement in between makes the boxes younger than their age.
* `FeedRight`, first `FeedWhole`: the display finds an empty or garbled file only if
  two handlers wrote or moved it; a kill or an exception alone never leaves one.
  Then `OwnIds`: the ids in the feed are of the boxes of their own frame as long as no
  two handlers were at a message at a time. Both exceptions are reached: handlers
  that overlap do spoil the feed.

### `service_links` (pass; ServiceLinks, 149,549 states)

Two requests side by side, three in all, two faults: enough for a restart that is
left alone after a start that was disturbed, and for a service that dies twice.

* `RestartedFlows`: a restart of the fleet that ran alone, without a fault and within
  its timeouts, leaves an ingest that is up with an open frame stream, and it stays
  so. That is what the order and the waiting are for: without the waiting ingest
  dials an inference that does not listen, and never again.
* `DetectionsHeal`: if in the end the services stay up and frames flow, the
  detection stream is open in the end. An idle channel has to be asked to connect,
  or it never does.

The frame stream has no such property: after inference alone was restarted it stays
broken until a new reader dials. No document promises more of it.

The repository disagrees with itself about the detection stream. That it heals is what
`README.md:123`, `tracking_client.hpp:4` and `tracking_service/main.py:109` say, what
`tracking_client.cpp` does, and what `DetectionsHeal` shows. Comments in
`display_service/main.py` say the opposite: "tracking has no reconnect and must be up
before inference dials it" (47-48), "the peer dials it once, no reconnect" (219-220),
and that a restart of one unit "would leave inference/ingest holding a dead connection
(their gRPC clients have no reconnect)" (261-263). They are right of ingest's frame
stream alone. What the start order is needed for is therefore only that inference is
up before ingest; that tracking is up before inference saves detections at the start,
and nothing would stay broken without. `PROJECT.json` records the disagreement as a
finding, at this run.

### `fleet` (pass; MC_Fleet, 1,158,960 states)

Ingest and inference, the two services that go through the handshake, and the
display as a viewer; one controller; two requests or removals of the segment,
one fault, two segments. Two peers are the fewest that race for a header; one
fault lets either die at any point, and both faults of the control service are
in it. Two requests change the transport there and back. Tracking has no
handshake of its own and would only lengthen each sequence of commands.

* `Handshake`: whoever reads a header finds it whole, though those who make it
  race and die in between; so nobody aborts over a half-made header. And peers
  that run on one segment have one transport, whatever was configured, removed
  and restarted meanwhile.
* `ComesUp`: if the configuration is settled for good, every service that should
  be up comes up and stays up. `Settled` is the premise: no request is open, the
  files of the peers that should be up name one transport, the segment is free
  or has it, and no segment was left in `CLAIMING` by a process that died there.
  The last condition is the code's: a loser of the race waits without a bound
  for a winner that may be dead, and only a removal of the segment helps.

### `fleet_applied` (violation: `AppliedFleetWide`)

`set_frame_transport` ends with the message that the transport is "applied
fleet-wide". On a fleet that ran with the other transport the segment still has
it, and `shm.hpp` says that it must be removed first; nothing in the control
service does that. Each restarted peer aborts, systemd restarts it, and so on.

### Fairness

Weak fairness of a thread's own steps only: a thread that can go on is
scheduled. `std::mutex` promises nothing to a thread that others pass over, and where
a mutex is state (`mtx_` in `IngestAdmin`) that is a premise and not part of the
specification; sections that are one step do not wait inside. There is no fairness for what the environment owes:
frames, calls, crashes, signals, cameras that answer, a tracking service that
reads. Where a property needs some of it, the property says so as its premise
(`TrackingReads`, `CallsClose`, `WF_adminVars(Camera(t))`, `SF_adminVars(Lock(h))`,
`SF_adminVars(SampleLock)`, `WF_vars(Write)`).
In `Fleet` systemd restarts what failed (`Revive`), processes
start (`Exec`, `StartPeer`) and open requests go on (`Command`); faults, requests and
removals have no fairness. In `ServiceLinks` frames that flow are sent (`Send`), time
passes (`BackoffEnds`) and gRPC connects to a server that listens (`Connect`);
requests, boots and faults have no fairness. `CallsClose` is strong fairness, as a client's `Close` is disabled whenever a
frame of it is being pushed.

### Bounds

`MaxFrame`, `MaxEpoch`, `MaxFrames`, `MaxWrites`, `MaxCrash`, `MaxTracks`, `MaxTime`, `MaxDays`, `MaxOps`,
`MaxAsked`, `MaxFaults`, `MaxTrouble` (faults of tracking and restarts of ingest
together) and `MaxSegs` are guards on the actions they bound. Sequence numbers, epochs and counters are unbounded numbers:
`Slot::seq` has 32 bits and moves by two for each frame of its slot, and a wrong
match needs a full wrap, years of frames, within one `getFrame`.

## 4. What is proved

`FrameRing_proofs`, from `ConstantsAssumption` (at least two slots, at least one
word and one attempt) for any number of readers:

* `TypeCorrect`: `Spec => []TypeOK`.
* `HitIsRightHolds`, from the two that follow and `NeverOlderHolds`.
* `NoTornReadHolds`: `Spec => []NoTornRead`. `NoTornRead` speaks of a reader that
  has finished; to be inductive it needs what the reader knows on the way.
  `SlotInv`: a slot with an even number is whole and holds a frame that belongs
  there. `WriterInv`: the writer's slot is odd while it is filled, and the
  words filled so far are its frame's. `CopyInv`: the number sampled is even and
  not above the slot's, and *while the two are equal* the words copied so far
  are the slot's. Locking a slot raises its number above every number sampled
  from it (lemma `MarkIsOdd`), so `CopyInv` asks nothing of a reader that was
  overtaken; the case that matters is `CheckStep`, where an unmoved even number
  and `SlotInv` together make the copy whole.
* `NoSpuriousMissHolds`: `AbsentInv` says when the history variable is set: a slot
  without the wanted frame, an attempt lost, or a sampled number that moved
  on. A reader that gives up has lost an attempt.
* `NeverOlderHolds`: `EpochInv` says that a slot never goes back behind the life of
  a frame that was announced, stored in `latest` or asked for.
* `LatestReadableHolds`: `LatestInv` says that the writer which stored `latest` is at
  most one frame further on, and successive frames have different slots
  (lemma `NextSlotDiffers`; this is where two slots are needed).
* `StoreImplemented`: `Spec => ImplementsStore`. `Lock` maps to `Withdraw`, `Unlock` to
  `Publish`, a matching `Check` to `Hit`; the other `Check` and `GiveUp` map to `Miss`,
  which is allowed because of `NoSpuriousMiss`; everything else stutters.

`Ingest_proofs`, of `StreamTable`, from `TableAssumption`, for any table, writers,
readers and number of crashes:

* `TypeCorrect`, `KnownFoundHolds`; and under `Fits` (ids that fit, without which it is
  refuted, see `stream_table`) `RowsRightHolds`, which is `NoSharedRow` and `OneRow`. Lemma `TableGrows`
  carries them: registered rows stay, and only a `Publish` adds one. `HoldInv` says
  what a writer knows of its row, `PassedInv` that the rows its scan has passed are
  not its stream's, which stays true because with one writer nobody else
  publishes the stream (`SingleInv`, lemma `NewRow`), and `AheadInv` that a row a
  reader will miss is still ahead of it.
* `FailuresHonestHolds`, from `KnownFoundHolds` and `FullIsHonestHolds`, the latter by
  counting, also under `Fits`. `LostInv`: the rows reserved by nobody who is alive are
  no more than a crash leaves, one per writer and crash. `PastInv`: the rows that a
  writer has passed on its way to "full" are taken. `ByInv` picks for every registered
  row a writer that published it, no two rows of one stream the same, so that a stream
  has at most as many rows as writers (lemma `RowsHeld`). `FullCount` adds them up.

`Ingest_proofs`, of `IngestAdmin`, from the assumption on its constants, for any
cameras, handlers and threads:

* `AdminTypeCorrect`. A start needs an unused name for its thread, and there is one:
  while a call is open the main thread owns no reader, and the cameras and the *other*
  calls cannot own as many as there are names (lemma `RoomToSpawn`, by counting).
* `OwnedHolds`. `OwnInv` names the three places a reader can be owned from
  (`active_`, a call that has taken it out, the readers moved for the shutdown) and
  says that no two of them hold the same one and that together they hold exactly those
  that live, so that none lives when the last is empty at the exit. `CallInv` and
  `MainInv` say what a call and the main thread hold at each point. `SectionInv` is the
  mutual exclusion, one thread at most in a scope, and what it is for: what a call
  looked up when it took the mutex still holds when it acts on it. `OneUnlessStopped`
  needs `LeavingInv`: the main thread holds readers of different cameras.

`InferencePool_proofs`, from `PoolAssumption`:

* `TypeCorrect`, which bounds the queue; `AccountingHolds`; `NewestQueuedHolds`;
  `NoLostWakeupHolds`; `CleanShutdownHolds`. The invariant is `PoolInv`: `TypeOK`, `Accounting`,
  `NoLostWakeup`, and `StageInv`, which says what each stage of the shutdown has
  waited for. `NoLostWakeup` is inductive because a push adds one packet and
  takes one worker out of the parked, if there is one, and a worker parks only
  when the queue is empty. `NewestQueued` is inductive beside the types: it says
  of each packet in the queue which ones of its RPC are behind it, place by place, since
  a filter of the sequence would be recursive. Lemmas `TailNewest` and `AppendNewest` say
  what a pop and a push do to any sequence of which it holds.

`AlertEngine_proofs`, from `AlertAssumption` (a frame is not stale, the cooldown and
the evidence period are positive), for any windows, streams and tracks:

* `TypeCorrect`, `OnTimeHolds` (from `CooldownKeptHolds` and `SustainKeptHolds`),
  `EvidenceBoundedHolds`, `NoMissedAlertHolds`, `ForgottenHolds`: every property of the run. `RecordInv` says
  that a record is that of the latest alert, and that a track without one had no
  alert for a cooldown *by the clock*; `CooldownKept` follows from it and from a
  frame being at most `MaxAge` behind the clock. `CalmInv` says that whatever
  suspicion a track has began after it was seen calm, and needs lemma `EwmaRange`:
  one observation of a new track cannot raise it, as `ALPHA < RAISE_AT`. `EvidenceInv`
  charges each piece of evidence a period of the cooldown, `PruneInv` bounds
  everything by the last pruning. An update is proved in two lemmas on what
  happens to one track before pruning and one on what pruning leaves.

`Tracking_proofs`, of `TrackLists`, from `TrackAssumption`, for any matchings and
overlaps:

* `TypeCorrect`, `OneIdEachHolds`, `ListsRightHolds` (from `OneListHolds` and
  `RememberedHolds`), `TwoInARowHolds`: every property of the run. Lemma `FrameAssociates` reduces the three associations and
  the births to one matching with disjoint tracks and disjoint detections
  (`Associated`), and lemma `MergeStep` does the merge for any such matching. The
  invariant adds `MemoryInv`: only live tracks are lost, so the tentative ones
  need no place there; and a lost track whose state is `Removed` is in `removed`,
  which is why it is gone a frame later and the bound of `Remembered` is
  `MaxLost + 1`.

`Tracking_proofs`, of `DetectionFeed`, from `FeedAssumption`, for any ring, queue,
workers, handlers, restarts and faults. Each action is first reduced to what it makes
of the handler, the files or the viewer (`MovedTo`, `Opens`, `Writes`, `Moves`,
`Leaves`, `ViewerSteps`), and the invariants are proved over those:

* `FeedTypeCorrect`. There are as many trackers and files as handlers need: those who
  are about to make a tracker and the trackers made are together no more than the
  handlers (`Making`), and whoever opens a file finds one that is neither named nor
  held (lemma `SpareIsUnused`, by counting).
* `FeedRightHolds`, from `FileInv` and `OwnIdsInv`. `FileInv` says that a file under the
  final name is whole unless two handlers had it; what is stable in it is *who* handled
  a file. `OwnIdsInv` says that as long as no handlers overlapped the ids a handler holds
  are of the frame it matched.
* `AgeHonestHolds`. `AgeInv`: a file under its temporary name was stamped after the one
  it will replace, so whatever the viewer may still read is no older than what it
  looked at.
* `ShownNotOlderHolds`. `RingInv` is about lives of ingest, since ids repeat.
  `NewestInv`: `latest` was stored in some life `e` (`StoredIn`), and every frame in a
  slot or on its way to the browser is no newer than that frame of `e`, or is about to
  be stored (`Pending`), or never was and is in `cut`. `SeenInv`: for each such frame no
  slot holds one of its number from a life before, as a slot never goes back; this is
  what makes the exact frame and the newest one right when they are looked up by
  number. `InsteadInv` is what is left of `NewestInv` once the display has read `latest`.
* `RingIsStore`: `FeedSpec => Store!Spec`, where `Store` is `FrameStore` without calls
  that take longer than the step that reads. What ingest does to the ring here, in all
  its lives, is what the store allows its writer, so that the feed rests on the object
  that `FrameRing` is proved to implement (`StoreImplemented`). It needs `WithdrawnInv`,
  that the slot being written is withdrawn. No run checks it.

`Fleet_proofs`, from `FleetAssumption`, for any number of peers, viewers, services,
controllers, requests, faults and segments:

* `TypeCorrect` and `HandshakeHolds`. `Knows` says what a peer knows of its header at
  each point of the handshake, and nothing of who claimed it: a second winner
  would do no harm. It is inductive because headers only mature
  (`Matures`): a claimed one is never fresh again, a whole one stays whole, a
  transport is written once. Lemma `KnowledgeStays` turns that into the stability
  of whatever other peers and viewers know; `PeerStep` is what remains of the
  actions of the handshake, `QuietStep` of all others.

`EventStore_proofs`, from `StoreAssumption`, for any number of handlers, tracks, frames,
days and faults:

* `TypeCorrect`, `ReplayableHolds`, `NothingLostHolds`, `EvidenceHasAlertHolds`, `ResumesHolds`:
  every property of the run. `HandlerInv` says that no two handlers are at one frame
  and that what a handler has to emit was raised on its own; each step of a handler
  is first reduced to what it makes of that handler (`Becomes`), so that lemma
  `HandlerMoved` is proved once for all. `LineFirst`, a handler beyond the log has its
  line, gives `Replayable`. `DecisionInv` says that what was decided is of a frame no
  handler has yet to show the engine, hence decided once and for good, and that an
  alert on record was decided to be one; all steps but `Observe` do nothing to it
  (`Undeciding`). `SinkInv` adds to `NothingLost` what a handler in the middle of its
  sinks has behind it (`Passed`); a file that is whole is emptied again only by the
  handler that is at its alert, of which there is one (`NotRewritten`).
  `EvidenceHasAlert` needs nothing further. `ResumeInv` counts the columns this start
  has passed.

`ServiceLinks_proofs`, from `LinksAssumption`, for any number of requests and faults:

* `TypeCorrect` and `RestartedFlowsHolds`. The invariant says how far the units must
  be at each command of the undisturbed restart: off behind its stop, on the way
  behind its start, up behind the wait. It is inductive because the commands of
  every other request are over as long as `lone` stands, and because a plan has one
  place for each command.

Only model-checked: the six liveness properties `Heals`, `AdminNotWedged`, `StopsEnd`,
`Progress`, `ComesUp` and `DetectionsHeal`, as the prover has neither fairness nor
ENABLED. Every other property of a passing run is a theorem; `RowsRight` and
`FailuresHonest` have the hypothesis `Fits`, the first because it is refuted without.
Nothing is proved of `SeqlockOrder`, whose one run is a violation.

## 5. What is not modelled

* Inference: the detector, pre- and postprocessing, greedy NMS. Floating-point
  code that keeps no state and runs in one thread; what follows takes any boxes.
* Tracking: the Kalman filter and the overlaps, numerics as well; `TrackLists` takes
  any matching. The optional fetch of pixels and the latency trace.
* Ingest: the metrics mirror and the readers' `Stats`. A counter copied once a second
  into Prometheus; nothing acts on it.
* Metrics exposition, HTML routes, the picture beside an alert: output only.
* Generated stubs, scripts, installation: no state of the program's own. Of the
  systemd units the restart policy is in `Fleet`, `ServiceLinks`, `DetectionFeed` and
  `EventStore`.
* ONNX Runtime, FFmpeg, gRPC, SQLite and systemd are seen only through what the code
  does with their answers; such definitions are mapped to the lines that use
  those answers, and none is marked external.
* Two small effects at the files. A `write_text` of the feed that fails (a full disk)
  may leave a part of the temporary file behind; the next `open` truncates it, and
  nobody reads it under that name. And SQLite may roll an open transaction back by
  itself when a statement fails; the rows that are lost with it are those of alerts
  whose own sink failed already.

The modules meet at what one proves or checks and another starts from: `FrameRing`
implements the ring that `DetectionFeed` runs on (`RingIsStore`), `StreamTable` gives
`FrameRing` its registered row, `IngestAdmin` says when a stream has one writer
(`OneUnlessStopped`), `InferencePool` that a frame stream is never held up,
`AlertEngine` decides what `EventStore` stores, and `Fleet` brings up what
`ServiceLinks` connects.

## 6. Plan

What is left, in this order:

1. The readers' side of `RingIsStore`: that a fetch which is one step in `DetectionFeed`
   may be several in `FrameStore`, as a frame that is gone meanwhile is a miss.
2. `SingleWriter` of `IngestAdmin` for behaviours in which no start overlaps a stop of
   the same camera, from `OneUnlessStopped`: the premise of `FrameRing` and `OneRow`.
3. The safe half of the liveness properties: what must hold in the states in which
   their premises leave a thread waiting.
