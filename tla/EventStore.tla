------------------------------ MODULE EventStore ------------------------------
(***************************************************************************)
(* What becomes of an alert: AlertEngine.update seen from its input and    *)
(* output (event_service/alert_engine.py, detection_log.py,                *)
(* event_store.py).  A stream handler of the tracking service writes the   *)
(* frame to the detection log, lets the engine decide under its lock, and  *)
(* then hands each alert to the sinks one by one, outside the lock: a      *)
(* directory of JSON files, an SQLite table, the dashboard.  The display   *)
(* service reads the table.  What the engine decides, and when, is module  *)
(* AlertEngine; here it may decide anything its records allow.             *)
(*                                                                         *)
(* Any of this may fail, and the service may be killed between any two     *)
(* steps.  A frame decides at most one alert for each track, so an alert   *)
(* is named by the two.  The wall clock does not go back over midnight.    *)
(*                                                                         *)
(* A definition marked Faulty is used by no action: it is the neighbour's  *)
(* plausible bug, which one of the properties below has to catch.          *)
(***************************************************************************)
EXTENDS Naturals, Sequences

CONSTANTS
  Handlers,   (* threads that handle a stream from inference                 *)
  Tracks,     (* the keys of AlertEngine._fired                              *)
  MaxFrames,  (* bound: the frames that arrive                               *)
  MaxDays,    (* bound: the days that pass                                   *)
  MaxFaults   (* bound: crashes and failing operations                       *)

ASSUME StoreAssumption ==
  MaxFrames \in Nat /\ MaxDays \in Nat \ {0} /\ MaxFaults \in Nat

VARIABLES
  today,      (* the date                                                    *)
  log,        (* DetectionLogger: _day, and whether _fh is open              *)
  logged,     (* the frames that have a line in the log                      *)
  arrived,    (* the frames handed to AlertEngine.update so far              *)
  handler,    (* handler -> its step, its frame, the alerts it has to emit   *)
  fired,      (* AlertEngine._fired: the alert of a track, or NoAlert        *)
  decided,    (* alert -> what the engine made of it: Alert.suppressed and
                 Alert.parent_id                                             *)
  json,       (* alert -> its file under alerts/                             *)
  start,      (* SqliteSink.__init__: the column it is at, Up when done      *)
  columns,    (* columns the table has beyond those of its first version     *)
  rows,       (* the committed rows of the table                             *)
  open,       (* the rows of a transaction whose commit failed               *)
  board,      (* alert -> what the dashboard has got of it                   *)
  page,       (* display: the alerts recent_alerts returned last             *)
  faults,     (* faults so far                                               *)
  failed,     (* history: alert -> the sinks that failed on it               *)
  cut,        (* history: alerts whose emission a crash cut short            *)
  slipped     (* history: a column was not added by this start, and the
                 error was passed over                                       *)

logging  == <<log, logged>>
store    == <<json, columns, rows, open, board>>
history  == <<failed, cut>>
life     == <<start, slipped>>
vars     == <<today, logging, arrived, handler, fired, decided, store, life, page, faults, history>>
-----------------------------------------------------------------------------
Alerts  == [frame : 1 .. MaxFrames, track : Tracks]
NoAlert == [frame |-> 0, track |-> "none"]
Undecided == [kind |-> "none", parent |-> NoAlert]

NewColumns == <<"suppressed", "parent_id", "frame_age_s">>
All        == {NewColumns[i] : i \in 1 .. 3}
Up         == 4

Idle == [pc |-> "idle", frame |-> 0, todo |-> {}, alert |-> NoAlert]

(* A table that is new has all columns; an older one has the first ones.     *)
Init ==
  /\ today = 1
  /\ log = [day |-> 0, open |-> FALSE] /\ logged = {}
  /\ arrived = 0
  /\ handler = [h \in Handlers |-> Idle]
  /\ fired = [k \in Tracks |-> NoAlert]
  /\ decided = [a \in Alerts |-> Undecided]
  /\ json = [a \in Alerts |-> "none"]
  /\ start = 1 /\ slipped = FALSE
  /\ \E n \in 0 .. 3 : columns = {NewColumns[i] : i \in 1 .. n}
  /\ rows = {} /\ open = {}
  /\ board = [a \in Alerts |-> "none"]
  /\ page = {}
  /\ faults = 0
  /\ failed = [a \in Alerts |-> {}] /\ cut = {}

Fault == faults < MaxFaults /\ faults' = faults + 1
-----------------------------------------------------------------------------
(* SqliteSink.__init__: each ALTER TABLE commits by itself, and an error is  *)
(* taken for a column that exists.                                           *)
AddColumn ==
  /\ start < Up
  /\ columns' = columns \union {NewColumns[start]}
  /\ start' = start + 1
  /\ UNCHANGED <<today, logging, arrived, handler, fired, decided, json, rows, open, board,
                 slipped, page, faults, history>>

AddColumnFails ==
  /\ start < Up /\ NewColumns[start] \notin columns
  /\ Fault
  /\ start' = start + 1 /\ slipped' = TRUE
  /\ UNCHANGED <<today, logging, arrived, handler, fired, decided, store, page, history>>

(* The service is killed and started again: what it holds in memory is lost, *)
(* and so is the open transaction.                                           *)
Crash ==
  /\ Fault
  /\ log' = [day |-> 0, open |-> FALSE]
  /\ handler' = [h \in Handlers |-> Idle]
  /\ fired' = [k \in Tracks |-> NoAlert]
  /\ start' = 1 /\ slipped' = FALSE
  /\ open' = {}
  /\ board' = [a \in Alerts |-> IF board[a] = "posting" THEN "dropped" ELSE board[a]]
  /\ cut' = cut \union UNION {handler[h].todo : h \in Handlers}
  /\ UNCHANGED <<today, logged, arrived, decided, json, columns, rows, page, failed>>

Midnight ==
  /\ today < MaxDays
  /\ today' = today + 1
  /\ UNCHANGED <<logging, arrived, handler, fired, decided, store, life, page, faults, history>>
-----------------------------------------------------------------------------
(* A tracked frame arrives: AlertEngine.update.                              *)
Update(h) ==
  /\ start = Up /\ handler[h].pc = "idle" /\ arrived < MaxFrames
  /\ arrived' = arrived + 1
  /\ handler' = [handler EXCEPT ![h].pc = "log", ![h].frame = arrived + 1]
  /\ UNCHANGED <<today, logging, fired, decided, store, life, page, faults, history>>

(* DetectionLogger.log, under its lock: the file is opened again on the      *)
(* first line of a day.  An exception is not caught, and ends the handler    *)
(* before the engine has seen the frame.                                     *)
NewDay == log.day # today

Line(h) ==
  /\ handler[h].pc = "log"
  /\ NewDay \/ log.open
  /\ log' = [day |-> today, open |-> TRUE]
  /\ logged' = logged \union {handler[h].frame}
  /\ handler' = [handler EXCEPT ![h].pc = "observe"]
  /\ UNCHANGED <<today, arrived, fired, decided, store, life, page, faults, history>>

(* Faulty: the engine goes on without the line. *)
GoesOn(h) == [handler EXCEPT ![h].pc = "observe"]
Leaves(h) == [handler EXCEPT ![h] = Idle]
(* Faulty: the day is noted before the file is open. *)
DayNoted == [day |-> today, open |-> FALSE]
DayKept == [log EXCEPT !.open = FALSE]

OpenFails(h) ==
  /\ handler[h].pc = "log" /\ NewDay
  /\ Fault
  /\ log' = DayKept
  /\ handler' = Leaves(h)
  /\ UNCHANGED <<today, logged, arrived, fired, decided, store, life, page, history>>

(* A file that was closed fails each time.                                   *)
WriteFails(h) ==
  /\ handler[h].pc = "log"
  /\ IF NewDay \/ log.open THEN Fault ELSE UNCHANGED faults
  /\ log' = IF NewDay THEN [day |-> today, open |-> TRUE] ELSE log
  /\ handler' = Leaves(h)
  /\ UNCHANGED <<today, logged, arrived, fired, decided, store, life, page, history>>

(* The engine decides, for each track, under its lock: nothing, an alert, or *)
(* evidence for the alert on record.  When a record runs out is left open.   *)
(* Faulty: evidence takes the place of its alert in the record. *)
OnRecordLast(k, what, a) == IF what = "none" THEN fired[k] ELSE a
OnRecord(k, what, a) == IF what = "alert" THEN a ELSE fired[k]

Observe(h) ==
  /\ handler[h].pc = "observe"
  /\ \E what \in [Tracks -> {"none", "alert", "evidence"}] :
       LET alert(k) == [frame |-> handler[h].frame, track |-> k]
           todo == {alert(k) : k \in {t \in Tracks : what[t] # "none"}} IN
       /\ \A k \in Tracks : what[k] = "evidence" => fired[k] # NoAlert
       /\ decided' = [a \in Alerts |->
            IF a \in todo
            THEN [kind |-> what[a.track],
                  parent |-> IF what[a.track] = "alert" THEN NoAlert ELSE fired[a.track]]
            ELSE decided[a]]
       /\ fired' = [k \in Tracks |-> OnRecord(k, what[k], alert(k))]
       /\ handler' = [handler EXCEPT ![h] =
            IF todo = {} THEN Idle ELSE [@ EXCEPT !.pc = "next", !.todo = todo]]
  /\ UNCHANGED <<today, logging, arrived, store, life, page, faults, history>>
-----------------------------------------------------------------------------
(* AlertEngine._emit: the alerts first, then the evidence, and for each one  *)
(* sink after the other.                                                     *)
Moves(h, pc) == handler' = [handler EXCEPT ![h].pc = pc]

TakeAlert(h) ==
  /\ handler[h].pc = "next"
  /\ \E a \in handler[h].todo :
       /\ decided[a].kind = "evidence" => \A b \in handler[h].todo : decided[b].kind = "evidence"
       /\ handler' = [handler EXCEPT ![h].pc = "json", ![h].alert = a]
  /\ UNCHANGED <<today, logging, arrived, fired, decided, store, life, page, faults, history>>

(* JsonDirSink.emit: the directories and the file, and then its text.        *)
CreateFile(h) ==
  /\ handler[h].pc = "json"
  /\ json' = [json EXCEPT ![handler[h].alert] = "empty"]
  /\ Moves(h, "text")
  /\ UNCHANGED <<today, logging, arrived, fired, decided, columns, rows, open, board, life,
                 page, faults, history>>

WriteText(h) ==
  /\ handler[h].pc = "text"
  /\ json' = [json EXCEPT ![handler[h].alert] = "whole"]
  /\ Moves(h, "sqlite")
  /\ UNCHANGED <<today, logging, arrived, fired, decided, columns, rows, open, board, life,
                 page, faults, history>>

(* SqliteSink.emit, under its lock.                                          *)
Insert(h) ==
  /\ handler[h].pc = "sqlite" /\ columns = All
  /\ rows' = rows \union open \union {handler[h].alert}
  /\ open' = {}
  /\ Moves(h, "dashboard")
  /\ UNCHANGED <<today, logging, arrived, fired, decided, json, columns, board, life, page,
                 faults, history>>

(* DashboardSink.emit starts a thread to post the alert; evidence stays out. *)
(* Then the handler goes to its next alert, or to its next frame.            *)
(* Faulty: the last alert stays in the list. *)
EmittedStays(h) == [handler EXCEPT ![h].pc = "idle"]
Emitted(h) ==
  LET rest == handler[h].todo \ {handler[h].alert} IN
  [handler EXCEPT ![h] =
     IF rest = {} THEN Idle ELSE [@ EXCEPT !.pc = "next", !.todo = rest, !.alert = NoAlert]]

Dashboard(h) ==
  LET a == handler[h].alert IN
  /\ handler[h].pc = "dashboard"
  /\ board' = [board EXCEPT ![a] = IF decided[a].kind = "evidence" THEN @ ELSE "posting"]
  /\ handler' = Emitted(h)
  /\ UNCHANGED <<today, logging, arrived, fired, decided, json, columns, rows, open, life, page,
                 faults, history>>

(* An exception of a sink is caught, and the next sink gets the alert.       *)
Step == [json |-> "json", text |-> "json", sqlite |-> "sqlite"]
(* Faulty: the exception ends the loop over the sinks. *)
AfterFailureOut(h) == "dashboard"
AfterFailure(h) == IF handler[h].pc = "sqlite" THEN "dashboard" ELSE "sqlite"

SinkFails(h) ==
  /\ handler[h].pc \in DOMAIN Step
  /\ IF handler[h].pc = "sqlite" /\ columns # All THEN UNCHANGED faults ELSE Fault
  /\ failed' = [failed EXCEPT ![handler[h].alert] = @ \union {Step[handler[h].pc]}]
  /\ Moves(h, AfterFailure(h))
  /\ UNCHANGED <<today, logging, arrived, fired, decided, store, life, page, cut>>

(* The row is inserted, and its commit fails: it waits for the next one.     *)
CommitFails(h) ==
  LET a == handler[h].alert IN
  /\ handler[h].pc = "sqlite" /\ columns = All
  /\ Fault
  /\ open' = open \union {a}
  /\ failed' = [failed EXCEPT ![a] = @ \union {"sqlite"}]
  /\ Moves(h, AfterFailure(h))
  /\ UNCHANGED <<today, logging, arrived, fired, decided, json, columns, rows, board, life, page,
                 cut>>

(* DashboardSink._post: a post that fails is dropped.                        *)
Posted(a) ==
  /\ board[a] = "posting"
  /\ \E what \in {"got", "dropped"} : board' = [board EXCEPT ![a] = what]
  /\ UNCHANGED <<today, logging, arrived, handler, fired, decided, json, columns, rows, open,
                 life, page, faults, history>>

(* The display's recent_alerts: an error, such as that of a table without    *)
(* the columns it asks for, is an empty list.                                *)
RecentAlerts ==
  /\ \/ {"suppressed", "frame_age_s"} \subseteq columns
        /\ page' = {a \in rows : decided[a].kind = "alert"}
     \/ page' = {}
  /\ UNCHANGED <<today, logging, arrived, handler, fired, decided, store, life, faults, history>>
-----------------------------------------------------------------------------
Handle(h) ==
  \/ Update(h) \/ Line(h) \/ OpenFails(h) \/ WriteFails(h) \/ Observe(h)
  \/ TakeAlert(h) \/ CreateFile(h) \/ WriteText(h) \/ Insert(h) \/ Dashboard(h)
  \/ SinkFails(h) \/ CommitFails(h)

Next ==
  \/ AddColumn \/ AddColumnFails \/ Crash \/ Midnight \/ RecentAlerts
  \/ \E h \in Handlers : Handle(h)
  \/ \E a \in Alerts : Posted(a)

Spec == Init /\ [][Next]_vars
-----------------------------------------------------------------------------
Steps == {"idle", "log", "observe", "next", "json", "text", "sqlite", "dashboard"}

(* Every variable keeps its type; a handler has alerts to emit exactly while *)
(* it is emitting, and each of them was decided.                             *)
TypeOK ==
  /\ today \in 1 .. MaxDays
  /\ log \in [day : 0 .. MaxDays, open : BOOLEAN]
  /\ logged \subseteq 1 .. MaxFrames /\ arrived \in 0 .. MaxFrames
  /\ handler \in [Handlers -> [pc : Steps, frame : 0 .. MaxFrames, todo : SUBSET Alerts,
                               alert : Alerts \union {NoAlert}]]
  /\ \A h \in Handlers :
       /\ handler[h].todo = {} <=> handler[h].pc \in {"idle", "log", "observe"}
       /\ handler[h].pc \in {"json", "text", "sqlite", "dashboard"} =>
            handler[h].alert \in handler[h].todo
  /\ fired \in [Tracks -> Alerts \union {NoAlert}]
  /\ decided \in [Alerts -> [kind : {"none", "alert", "evidence"}, parent : Alerts \union {NoAlert}]]
  /\ json \in [Alerts -> {"none", "empty", "whole"}]
  /\ start \in 1 .. Up /\ columns \subseteq All /\ slipped \in BOOLEAN
  /\ rows \subseteq Alerts /\ open \subseteq Alerts /\ page \subseteq Alerts
  /\ board \in [Alerts -> {"none", "posting", "got", "dropped"}]
  /\ faults \in 0 .. MaxFaults
  /\ failed \in [Alerts -> SUBSET {"json", "sqlite"}] /\ cut \subseteq Alerts

(* Whatever can be seen of an alert anywhere, now or after a crash, the      *)
(* frame it was raised on is in the detection log and can be replayed.       *)
Seen(a) == json[a] # "none" \/ a \in rows \union open \union page \/ board[a] # "none"
Replayable == \A a \in Alerts : Seen(a) => a.frame \in logged

(* An alert that is not being emitted and was not cut short by a crash is in *)
(* every store whose own sink did not fail on it, and evidence does not get  *)
(* to the dashboard.                                                         *)
Emitting(a) == \E h \in Handlers : a \in handler[h].todo
Settled(a) == decided[a].kind # "none" /\ ~ Emitting(a) /\ a \notin cut
NothingLost == \A a \in Alerts :
  /\ Settled(a) =>
       /\ json[a] = "whole" \/ "json" \in failed[a]
       /\ a \in rows \/ "sqlite" \in failed[a]
       /\ decided[a].kind = "alert" => board[a] # "none"
  /\ decided[a].kind = "evidence" => board[a] = "none"

(* Evidence that is stored belongs to an alert, not to other evidence, and   *)
(* that alert is stored too, unless it is still being emitted, a crash cut   *)
(* it short, or the sink failed on it.                                       *)
Stored(a, sink) == IF sink = "json" THEN json[a] = "whole" ELSE a \in rows
EvidenceHasAlert == \A a \in Alerts : \A sink \in {"json", "sqlite"} :
  LET p == decided[a].parent IN
  Stored(a, sink) /\ decided[a].kind = "evidence" =>
    /\ p \in Alerts /\ decided[p].kind = "alert"
    /\ Stored(p, sink) \/ Emitting(p) \/ p \in cut \/ sink \in failed[p]

(* What a failure left half done the next attempt does: after a rotation     *)
(* that failed the log is opened again, and a start completes the columns    *)
(* that an earlier one was killed over.                                      *)
Resumes ==
  /\ log.day = today => log.open
  /\ start = Up => columns = All \/ slipped
=============================================================================
