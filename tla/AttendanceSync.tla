--------------------------- MODULE AttendanceSync ---------------------------
(***************************************************************************)
(* Attendance records on their way from the devices' logs to the table     *)
(* `attendances`: app/core/attendance_sync_manager.py, which admits one    *)
(* run at a time and keeps its status and the settings of the daily run,   *)
(* and AttendanceService.sync_from_device (app/services/attendance.py),    *)
(* which reads one device and writes what the table lacks.  An action is   *)
(* the code between two awaits; the close of a run's session is one with   *)
(* the await before it.  Counters of the status are modelled by the sets   *)
(* of log entries they count.                                              *)
(***************************************************************************)
EXTENDS Naturals, FiniteSets

CONSTANTS Devices,      \* ip addresses of devices; each has its own serial number
          Entries,      \* entries that appear in the devices' attendance logs
          DeviceOf,     \* entry -> its device
          Punches,      \* what an entry says: [user_id, timestamp]
          PunchOf,      \* entry -> punch; one person can be twice in a second
          Tasks,        \* coroutines of manual and scheduled runs
          Updates,      \* requests that change the settings
          Bodies,       \* the settings they ask for
          Times,        \* times of day of the daily run
          MaxRequests,  \* bound: runs asked for and settings changed
          None          \* no device, no serial number, no daily run

Settings == [enabled : BOOLEAN, time : Times, device_ips : SUBSET Devices]

ASSUME AttendanceSyncAssumption ==
  /\ IsFiniteSet(Entries)
  /\ DeviceOf \in [Entries -> Devices]
  /\ PunchOf \in [Entries -> Punches]
  /\ Bodies \subseteq Settings
  /\ MaxRequests \in Nat
  /\ None \notin Devices \cup Times

VARIABLES log,          \* the entries in the devices' logs
          table,        \* attendances: <<punch, device_sn>> -> number of rows
          running,      \* _running, and status["running"]
          status,       \* _status
          tasks,        \* task -> the run it carries out
          settings,     \* _settings
          row,          \* attendance_sync_settings, id 1
          schedule,     \* time of the job attendance_daily_sync, or None
          updates,      \* update -> where its save is
          started,      \* number of requests
          unsaved,      \* history: a save failed and none has saved `settings` since
          inserted,     \* history: what the last run inserted
          reported      \* history: punches that completed runs fetched
runVars == <<running, status, tasks, inserted, reported>>
settingsVars == <<settings, row, schedule, updates, unsaved>>
vars == <<log, table, runVars, settingsVars, started>>

Serials == Devices \cup {None}      \* get_serial_number may find none

Counts == [fetched : SUBSET Entries, synced : SUBSET Entries, duplicate : SUBSET Entries]
NoCounts == [fetched |-> {}, synced |-> {}, duplicate |-> {}]

Stages == {"idle", "starting", "fetching", "processing", "saving", "completed", "failed"}

\* A run at an await: the device it reads, the devices after it, the entries
\* not looked at, and those it added to its session or found in the table.
Task == [pc : {"idle", "start", "load_ips", "fetch", "serial", "scan", "commit"},
         incremental : BOOLEAN,
         device : Devices \cup {None},
         left : SUBSET Devices,
         device_sn : Serials,
         todo : SUBSET Entries,
         added : SUBSET Entries,
         found : SUBSET Entries,
         total : Counts]

Idle == [pc |-> "idle", incremental |-> TRUE, device |-> None, left |-> {},
         device_sn |-> None, todo |-> {}, added |-> {}, found |-> {}, total |-> NoCounts]

\* A save of the settings: the columns it loaded and those it will write.
Update == [pc : {"idle", "load", "refresh"}, loaded : {None}, mem : {None}]
          \cup [pc : {"commit"}, loaded : Settings, mem : Settings]
NoUpdate == [pc |-> "idle", loaded |-> None, mem |-> None]

TypeOK ==
  /\ log \subseteq Entries
  /\ table \in [Punches \X Serials -> Nat]
  /\ running \in BOOLEAN
  /\ status \in [stage : Stages, counts : Counts]
  /\ tasks \in [Tasks -> Task]
  /\ settings \in Settings /\ row \in Settings
  /\ schedule \in Times \cup {None}
  /\ updates \in [Updates -> Update]
  /\ started \in 0 .. MaxRequests
  /\ unsaved \in BOOLEAN
  /\ inserted \subseteq Entries
  /\ reported \subseteq Punches

DailyRun(s) == IF s.enabled THEN s.time ELSE None

(* The application has started: initialize() has read or written the       *)
(* settings row, start() has scheduled the daily run.                      *)
Init ==
  /\ log \in SUBSET Entries
  /\ table = [k \in Punches \X Serials |-> 0]
  /\ running = FALSE
  /\ status = [stage |-> "idle", counts |-> NoCounts]
  /\ tasks = [t \in Tasks |-> Idle]
  /\ settings \in Bodies /\ row = settings /\ schedule = DailyRun(settings)
  /\ updates = [x \in Updates |-> NoUpdate]
  /\ started = 0
  /\ unsaved = FALSE
  /\ inserted = {}
  /\ reported = {}

Request == started < MaxRequests /\ started' = started + 1

(* Somebody punches: the device appends to its log.                        *)
Punch(e) ==
  /\ e \notin log
  /\ log' = log \cup {e}
  /\ UNCHANGED <<table, runVars, settingsVars, started>>

-----------------------------------------------------------------------------
(* Runs *)

Put(t, q) == tasks' = [tasks EXCEPT ![t] = q]
Stage(stage) == status' = [status EXCEPT !.stage = stage]

BeginRun_Unguarded(stage) ==   \* mutated form: the flag is not looked at
  /\ running' = TRUE
  /\ status' = [stage |-> stage, counts |-> NoCounts]
  /\ inserted' = {}

(* _begin_run: RuntimeError while a run is going on. *)
BeginRun(stage) ==
  /\ ~running
  /\ running' = TRUE
  /\ status' = [stage |-> stage, counts |-> NoCounts]
  /\ inserted' = {}

Reading(q, d) ==
  [q EXCEPT !.pc = "fetch", !.device = d, !.left = @ \ {d},
            !.device_sn = None, !.todo = {}, !.added = {}, !.found = {}]

(* start_manual_sync: the flag is taken before the coroutine is queued.    *)
StartManualSync(t, d, incremental) ==
  /\ tasks[t] = Idle
  /\ Request
  /\ BeginRun("starting")
  /\ Put(t, [Idle EXCEPT !.pc = "start", !.incremental = incremental, !.left = {d}])
  /\ UNCHANGED <<log, table, reported, settingsVars>>

(* The queued coroutine of a manual run reaches its device. *)
RunManualSync(t) ==
  /\ tasks[t].pc = "start"
  /\ \E d \in tasks[t].left : Put(t, Reading(tasks[t], d))
  /\ Stage("fetching")
  /\ UNCHANGED <<log, table, running, inserted, reported, settingsVars, started>>

(* _run_scheduled_job: the daily job queues run_scheduled_sync, which      *)
(* first asks for the active devices.                                      *)
RunScheduledJob(t) ==
  /\ tasks[t] = Idle
  /\ schedule # None
  /\ Request
  /\ Put(t, [Idle EXCEPT !.pc = "load_ips"])
  /\ UNCHANGED <<log, table, running, status, inserted, reported, settingsVars>>

(* run_scheduled_sync goes on with the selected devices that are active;   *)
(* without one, or while another run is going on, it ends.                 *)
RunScheduledSync(t) ==
  /\ tasks[t].pc = "load_ips"
  /\ \/ \E active \in SUBSET Devices :
          LET ips == IF settings.device_ips = {} THEN active ELSE settings.device_ips \cap active
          IN \E d \in ips : /\ BeginRun("fetching")
                            /\ Put(t, Reading([tasks[t] EXCEPT !.left = ips], d))
     \/ /\ Put(t, Idle)
        /\ UNCHANGED <<running, status, inserted>>
  /\ UNCHANGED <<log, table, reported, settingsVars, started>>

(* get_attendance_safe answers with the whole log, or with nothing when it *)
(* does not recognise the device's buffer.                                 *)
FetchDone(t) ==
  LET q == tasks[t] IN
  /\ q.pc = "fetch"
  /\ \E entries \in {{e \in log : DeviceOf[e] = q.device}, {}} :
       /\ Put(t, [q EXCEPT !.pc = "serial", !.todo = entries])
       /\ status' = [status EXCEPT !.stage = "processing",
                                   !.counts.fetched = entries]
  /\ UNCHANGED <<log, table, running, inserted, reported, settingsVars, started>>

DeviceCounts(q) ==
  [fetched |-> q.todo \cup q.added \cup q.found, synced |-> q.added, duplicate |-> q.found]

(* The loop over the records: after the last one the counts are shown and  *)
(* the session is committed.                                               *)
Scanned(t, q) ==
  IF q.todo = {}
  THEN /\ Put(t, [q EXCEPT !.pc = "commit"])
       /\ status' = [stage |-> "saving", counts |-> DeviceCounts(q)]
  ELSE /\ Put(t, [q EXCEPT !.pc = "scan"])
       /\ UNCHANGED status

(* A full run looks nothing up and so has no await in the loop. *)
SerialDone(t) ==
  LET q == tasks[t] IN
  /\ q.pc = "serial"
  /\ \E sn \in {q.device, None} :
       Scanned(t, IF q.incremental THEN [q EXCEPT !.device_sn = sn]
                  ELSE [q EXCEPT !.device_sn = sn, !.todo = {}, !.added = q.todo])
  /\ UNCHANGED <<log, table, running, inserted, reported, settingsVars, started>>

ExistsRecord_AnyTime(punch, sn) ==   \* mutated form: the timestamp is not compared
  \E p \in Punches : p.user_id = punch.user_id /\ table[<<p, sn>>] > 0

(* exists_record: in the table, not among the session's pending rows. *)
ExistsRecord(punch, sn) == table[<<punch, sn>>] > 0

ScanRecord(t, e) ==
  LET q == tasks[t] IN
  /\ q.pc = "scan" /\ e \in q.todo
  /\ Scanned(t, IF ExistsRecord(PunchOf[e], q.device_sn)
                THEN [q EXCEPT !.todo = @ \ {e}, !.found = @ \cup {e}]
                ELSE [q EXCEPT !.todo = @ \ {e}, !.added = @ \cup {e}])
  /\ UNCHANGED <<log, table, running, inserted, reported, settingsVars, started>>

Plus(a, b) == [fetched   |-> a.fetched \cup b.fetched,
               synced    |-> a.synced \cup b.synced,
               duplicate |-> a.duplicate \cup b.duplicate]

Insert_Replaces(q) ==   \* mutated form: a full run starts the device's rows afresh
  /\ table' = [k \in Punches \X Serials |->
                 (IF ~q.incremental /\ k[2] = q.device_sn THEN 0 ELSE table[k])
                 + Cardinality({e \in q.added : <<PunchOf[e], q.device_sn>> = k})]
  /\ inserted' = inserted \cup q.added

(* db.commit() of the rows of one device. *)
Insert(q) ==
  /\ table' = [k \in Punches \X Serials |->
                 table[k] + Cardinality({e \in q.added : <<PunchOf[e], q.device_sn>> = k})]
  /\ inserted' = inserted \cup q.added

FinishRun_LastDevice(total, last) ==   \* mutated form: only the last device is counted
  /\ running' = FALSE
  /\ status' = [stage |-> "completed", counts |-> last]
  /\ reported' = reported \cup {PunchOf[e] : e \in total.fetched}

(* _finish_run, with the counts of all devices. *)
FinishRun(total, last) ==
  /\ running' = FALSE
  /\ status' = [stage |-> "completed", counts |-> total]
  /\ reported' = reported \cup {PunchOf[e] : e \in total.fetched}

CommitDone(t) ==
  LET q == tasks[t]  total == Plus(q.total, DeviceCounts(q)) IN
  /\ q.pc = "commit"
  /\ Insert(q)
  /\ \/ /\ q.left = {}
        /\ FinishRun(total, DeviceCounts(q))
        /\ Put(t, Idle)
     \/ /\ \E d \in q.left : Put(t, Reading([q EXCEPT !.total = total], d))
        /\ Stage("fetching")
        /\ UNCHANGED <<running, reported>>
  /\ UNCHANGED <<log, settingsVars, started>>

FailRun_KeepsFlag(t) ==   \* mutated form: the run is shown as failed and not released
  LET q == tasks[t] IN
  /\ q.pc \in {"fetch", "scan", "commit"}
  /\ \/ q.pc = "commit" /\ Insert(q)
     \/ UNCHANGED <<table, inserted>>
  /\ Stage("failed")
  /\ Put(t, Idle)
  /\ UNCHANGED <<log, running, reported, settingsVars, started>>

(* An exception of the device or of the database ends the run.  A COMMIT   *)
(* whose answer is lost may have taken effect.                             *)
FailRun(t) ==
  LET q == tasks[t] IN
  /\ q.pc \in {"fetch", "scan", "commit"}
  /\ \/ q.pc = "commit" /\ Insert(q)
     \/ UNCHANGED <<table, inserted>>
  /\ running' = FALSE
  /\ Stage("failed")
  /\ Put(t, Idle)
  /\ UNCHANGED <<log, reported, settingsVars, started>>

-----------------------------------------------------------------------------
(* Settings *)

UpdateSettings_NoTime(x, body) ==   \* mutated form: a disabled daily run keeps no time
  /\ updates[x] = NoUpdate
  /\ Request
  /\ settings' = [body EXCEPT !.time = DailyRun(body)]
  /\ updates' = [updates EXCEPT ![x] = [NoUpdate EXCEPT !.pc = "load"]]
  /\ UNCHANGED <<log, table, runVars, row, schedule, unsaved>>

(* update_settings changes the settings in memory and then saves them. *)
UpdateSettings(x, body) ==
  /\ updates[x] = NoUpdate
  /\ Request
  /\ settings' = body
  /\ updates' = [updates EXCEPT ![x] = [NoUpdate EXCEPT !.pc = "load"]]
  /\ UNCHANGED <<log, table, runVars, row, schedule, unsaved>>

(* _save_settings_to_db copies what is in memory by then onto the row it   *)
(* has loaded.                                                             *)
SaveLoad(x) ==
  /\ updates[x].pc = "load"
  /\ updates' = [updates EXCEPT ![x] = [pc |-> "commit", loaded |-> row, mem |-> settings]]
  /\ UNCHANGED <<log, table, runVars, settings, row, schedule, unsaved, started>>

(* The columns that differ from the loaded ones are written.               *)
Saved(loaded, mem) ==
  [f \in {"enabled", "time", "device_ips"} |-> IF mem[f] # loaded[f] THEN mem[f] ELSE row[f]]

SaveCommit(x) ==
  /\ updates[x].pc = "commit"
  /\ row' = Saved(updates[x].loaded, updates[x].mem)
  /\ unsaved' = (unsaved /\ updates[x].mem # settings)
  /\ updates' = [updates EXCEPT ![x] = [NoUpdate EXCEPT !.pc = "refresh"]]
  /\ UNCHANGED <<log, table, runVars, settings, schedule, started>>

RefreshSchedule_FromRow(x) ==   \* mutated form: the job is set from the row
  /\ updates[x].pc = "refresh"
  /\ schedule' = DailyRun(row)
  /\ updates' = [updates EXCEPT ![x] = NoUpdate]
  /\ UNCHANGED <<log, table, runVars, settings, row, unsaved, started>>

(* The session is closed, _refresh_schedule replaces the job. *)
RefreshSchedule(x) ==
  /\ updates[x].pc = "refresh"
  /\ schedule' = DailyRun(settings)
  /\ updates' = [updates EXCEPT ![x] = NoUpdate]
  /\ UNCHANGED <<log, table, runVars, settings, row, unsaved, started>>

(* A database error: memory keeps the new settings, the job (and the row,  *)
(* unless it was committed) the old.                                       *)
SaveFails(x) ==
  /\ updates[x].pc # "idle"
  /\ unsaved' = TRUE
  /\ updates' = [updates EXCEPT ![x] = NoUpdate]
  /\ UNCHANGED <<log, table, runVars, settings, row, schedule, started>>

(* The process is restarted; initialize() and start() run again. *)
Restart ==
  /\ running \/ (\E t \in Tasks : tasks[t] # Idle) \/ (\E x \in Updates : updates[x] # NoUpdate)
  /\ running' = FALSE
  /\ status' = [stage |-> "idle", counts |-> NoCounts]
  /\ tasks' = [t \in Tasks |-> Idle]
  /\ updates' = [x \in Updates |-> NoUpdate]
  /\ settings' = row /\ schedule' = DailyRun(row)
  /\ unsaved' = FALSE
  /\ inserted' = {}
  /\ UNCHANGED <<log, table, row, started, reported>>

-----------------------------------------------------------------------------
Step(t) ==
  \/ RunManualSync(t) \/ RunScheduledSync(t) \/ FetchDone(t) \/ SerialDone(t)
  \/ (\E e \in Entries : ScanRecord(t, e)) \/ CommitDone(t) \/ FailRun(t)

Save(x) == SaveLoad(x) \/ SaveCommit(x) \/ RefreshSchedule(x) \/ SaveFails(x)

Next ==
  \/ \E e \in Entries : Punch(e)
  \/ \E t \in Tasks : \/ \E d \in Devices, incremental \in BOOLEAN : StartManualSync(t, d, incremental)
                      \/ RunScheduledJob(t)
                      \/ Step(t)
  \/ \E x \in Updates : (\E body \in Bodies : UpdateSettings(x, body)) \/ Save(x)
  \/ Restart

Spec == Init /\ [][Next]_vars

(* The event loop resumes a coroutine whose await is over; calls to the    *)
(* device and to the database end, with an answer or with a timeout.       *)
FairSpec == Spec /\ \A t \in Tasks : WF_vars(Step(t))

-----------------------------------------------------------------------------
(* Properties *)

Working(t) == tasks[t].pc \notin {"idle", "load_ips"}

(* At most one coroutine is past _begin_run, and the flag is up exactly    *)
(* while there is one: a run that fails, is refused or finds no device     *)
(* neither blocks the next nor lets two in (attendance_sync_manager.py:    *)
(* 196-247).                                                               *)
OneRun ==
  /\ \A t, w \in Tasks : Working(t) /\ Working(w) => t = w
  /\ running <=> \E t \in Tasks : Working(t)

(* The manager implements the promise of RunFlag: runs begin one at a time *)
(* and the flag follows them, through refusals, failures and restarts      *)
(* (attendance_sync_manager.py:196-247).                                   *)
Flag == INSTANCE RunFlag
          WITH Runs <- Tasks, flag <- running, holders <- {t \in Tasks : Working(t)}

ImplementsRunFlag == Flag!Spec

(* The punch has a row, whatever serial number the row has. *)
Recorded(p, rows) == \E sn \in Serials : rows[<<p, sn>>] > 0

(* What a synchronisation is for, as PunchTransfer says it: a punch gets   *)
(* from a log to the table in a run and by nothing else, stays there, and  *)
(* is reported by completed runs alone, when it has a row - whichever      *)
(* device fails, answers nothing or has lost its serial number             *)
(* (attendance.py:25-90, attendance_sync_manager.py:159-194).              *)
Transfer == INSTANCE PunchTransfer
              WITH punched <- {PunchOf[e] : e \in log},
                   recorded <- {p \in Punches : Recorded(p, table)}

ImplementsPunchTransfer == Transfer!Spec

(* An incremental run inserts no row that the table already has: only a    *)
(* full run adds to a key with rows, whatever else was asked for while the *)
(* loop was waiting (attendance.py:47-62).                                 *)
IncrementalAddsOnlyNew ==
  [][\A k \in Punches \X Serials :
       table'[k] # table[k] =>
         \/ table[k] = 0
         \/ \E t \in Tasks : tasks[t].pc = "commit" /\ ~tasks[t].incremental]_vars

(* The counts shown for a completed run are those of the rows it inserted, *)
(* over all of its devices, and every fetched entry is counted once.       *)
CompletedCounts ==
  status.stage = "completed" =>
    /\ status.counts.synced = inserted
    /\ status.counts.fetched = status.counts.synced \cup status.counts.duplicate
    /\ status.counts.synced \cap status.counts.duplicate = {}

(* Every punch that a completed run fetched has a row, through failures,   *)
(* restarts and lost serial numbers.                                       *)
ReportedIsRecorded == \A p \in reported : Recorded(p, table)

(* Once no change of the settings is under way, and unless saving them     *)
(* failed, the daily run is the one the settings ask for, in whatever      *)
(* order overlapping changes were saved (attendance_sync_manager.py:84-88).*)
ScheduleFollowsSettings ==
  (\A x \in Updates : updates[x] = NoUpdate) /\ ~unsaved => schedule = DailyRun(settings)

(* A run ends, with whatever outcome, and the next can begin. *)
RunEnds == running ~> ~running

-----------------------------------------------------------------------------
(* The inductive invariant behind OneRun, IncrementalAddsOnlyNew and       *)
(* ReportedIsRecorded: what the run going on knows of the table.           *)
RunOK(q, rows) ==
  /\ q.pc \in {"start", "fetch", "serial"} => q.added = {} /\ q.found = {}
  /\ q.pc = "commit" => q.todo = {}
  /\ \A e \in q.found : rows[<<PunchOf[e], q.device_sn>>] > 0
  /\ q.incremental => \A e \in q.added : rows[<<PunchOf[e], q.device_sn>>] = 0
  /\ \A e \in q.total.fetched : Recorded(PunchOf[e], rows)

RunsOK ==
  \A t \in Tasks : /\ Working(t) => RunOK(tasks[t], table)
                   /\ ~Working(t) => tasks[t].total.fetched = {}

Safe == TypeOK /\ OneRun /\ RunsOK /\ ReportedIsRecorded

(* With what a run has read being in the log, the one behind               *)
(* ImplementsPunchTransfer.                                                *)
FromLog ==
  \A t \in Tasks : LET q == tasks[t] IN
    q.todo \cup q.added \cup q.found \cup q.total.fetched \subseteq log

(* The one behind CompletedCounts: a run counts an entry at the device of  *)
(* its log, and goes to each device once.                                  *)
RunCounts(q) ==
  /\ q.device \notin q.left
  /\ \A e \in q.todo \cup q.added \cup q.found : DeviceOf[e] = q.device
  /\ \A e \in q.total.fetched : DeviceOf[e] \notin q.left \cup {q.device}
  /\ q.total.fetched = q.total.synced \cup q.total.duplicate
  /\ q.total.synced \cap q.total.duplicate = {}
  /\ q.added \cap q.found = {}
  /\ q.todo \cap (q.added \cup q.found) = {}

CountsOK ==
  /\ \A t \in Tasks : Working(t) => /\ RunCounts(tasks[t])
                                     /\ inserted = tasks[t].total.synced
                                     /\ status.stage # "completed"
  /\ \A t \in Tasks : ~Working(t) => tasks[t].total = NoCounts
  /\ CompletedCounts

-----------------------------------------------------------------------------
(* What the tests say and the code does not do. *)

(* Settings that were changed are in the database                          *)
(* (tests/test_attendances.py:104-117).                                    *)
SettingsPersisted ==
  (\A x \in Updates : updates[x] = NoUpdate) /\ ~unsaved => row = settings
=============================================================================
