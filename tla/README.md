# DoorHub API in TLA+

DoorHub API is a FastAPI service that manages ZKTeco door terminals: it keeps the
door users in a database and sends them to the terminals, collects the terminals'
attendance logs, computes daily attendance records, and opens doors (over HTTP or
from a Feishu bot). One process, one asyncio event loop, one database; terminals
are called in worker threads. The modules here describe that process at the
granularity of its awaits.

## 1. The system

One process (`uvicorn --workers 1`) runs every HTTP handler, the two schedulers'
jobs and the bot's handlers on one event loop (`app/main.py`). Between two awaits a
coroutine runs alone; at an await any other one may go on. Awaits are database
statements, commits, `asyncio.to_thread` calls to a terminal, and locks. Every HTTP
request has a SQLAlchemy session of its own with `expire_on_commit=False` and
`autoflush=False` (`app/db/session.py:36`): what a request has loaded stays as it
was loaded, and a commit writes the columns whose value differs from the loaded one.

| Part | State | Operations | Interacts with |
|---|---|---|---|
| Door users (`services/user.py`) | table `users`, the user tables of the terminals | create, update, dismiss, list, synchronise one or all pending, import (preview, write_missing, overwrite_local) | terminals (`save_user`, `get_users`), database |
| Attendance synchronisation (`core/attendance_sync_manager.py`, `services/attendance.py`) | run flag and status, settings (memory, row, scheduled job), table `attendances` | manual run, scheduled run, change of settings, status | terminals (`get_attendance_safe`, `get_serial_number`), scheduler thread, database |
| ZKTeco client (`core/zk_client.py`) | none across calls; a connection per call disables and enables the terminal | users, attendance log, unlock, information | pyzk |
| Door control (`services/door.py`) | table `door_logs` | open, list | ZKTeco client, Feishu bot |
| Daily records (`services/attendance_record.py`) | table `attendance_daily`, rule settings (row and attributes), a lock per key | generate a month, query, summarise, export | `attendances`, users, workdays |
| Holiday cache (`core/holiday_cache_manager.py`, `services/workday.py`) | run flag and status, settings file, table `holiday_calendar` | refresh a year by hand or daily/weekly, map of workdays | holiday API, daily records |
| Accounts (`core/security.py`, `services/system_user.py`) | tables `system_users`, `api_secrets` | log in, refresh, accounts, API secrets (three active at most), bootstrap administrator | every route that asks for a login |
| Device registry (`services/device.py`) | table `devices` | create, update, deactivate, read status, seed at start | scheduled runs (active devices) |
| Feishu bot (`integrations/feishu`) | a thread with its own loop, a websocket client | start, stop, menu event opens a door | door control, on the application's loop |
| Dashboard, schemas, configuration, migrations | none | counts, validation | |

What is hard in each part, with the line where it bites, is the list `hazards` of
`PROJECT.json`. In short:

- *Door users.* A synchronisation keeps a row it loaded across two terminal calls and
  then commits; edits, dismissals, listings and imports overlap with it. Statuses are
  shown to operators as facts about the terminals. What must hold: `synced` and
  `synced_disabled` describe what a terminal has, no request that worked on an older copy
  puts back what an edit replaced, previews change nothing, requests end.
- *Attendance synchronisation.* One run at a time, taken in a request and given back
  by a coroutine that runs later; several commits per run; three places that hold the
  settings. What must hold: exclusion, no punch reported and lost, no punch inserted
  again by an incremental run, counts that agree with the rows, a daily run that
  follows the settings, runs that end.
- *ZKTeco client and door.* Retries and log entries that depend on the class of an
  exception; two connections that disable and enable one terminal; a payload whose record
  size is guessed. What must hold: no terminal stays disabled unaccounted for, one request
  unlocks once, what somebody was told is what the log says, a log is cut as it was written.
- *Feishu bot.* A thread with its own loop that is started and stopped beside the
  application; events delivered twice. What must hold: handlers run on the application's
  loop, which its sessions and services belong to.
- *Device registry.* A status request keeps a row over a call to the terminal; the start
  registers what is configured. What must hold: deleted devices stay deleted.
- *Daily records.* Locks by key that do not cover each other, commits that give a
  transaction's lock back, rule settings shared by all requests. What must hold: a record
  only makes room for its successor, recalculations of one user do not undo each other,
  the month's figures add up, every lock is given back.
- *Holiday cache.* The same run protocol as the attendance runs; a refresh in the middle of
  somebody else's transaction; settings in memory, file and scheduler. What must hold: a
  cached year never disappears, the job is the one of the file.
- *Accounts.* A limit that is checked before an insert; an administrator that comes back;
  rights read at the door and used after an await; a table whose rows share a primary key.
  What must hold: only administrators administer, no edit undoes another, the limit is
  exceeded by no more than what overlaps.

## 2. The modules

| Module | Models | State |
|---|---|---|
| `UserRows` | rows, terminal entries, request bodies; the pure functions of `UserService`; SQLAlchemy's column-wise flush | – |
| `UserSync` | every handler of `UserService` | `db`, `dev`, `req` (one record per session: what its coroutine holds at an await), `started`, and the history `behind`, `outdated` |
| `AttendanceSync` | `AttendanceSyncManager`, `AttendanceService.sync_from_device` | `log`, `table`, `running`, `status`, `tasks`, `settings`, `row`, `schedule`, `updates`, `started`, and the history `unsaved`, `inserted`, `reported` |
| `RunFlag` | the promise of both managers: runs one at a time, a flag that follows them | `flag`, `holders` |
| `PunchTransfer` | the promise of `AttendanceSync`: punches are made, recorded by runs, reported by completed runs, in that order | `running`, `punched`, `recorded`, `reported` |
| `DailyRecord` | the record of a day, the covered days, the figures of a month, as functions | – |
| `HolidayCache` | `HolidayCacheManager`, `AilccCachedWorkdayProvider`, the calendar view | `calendar`, `tx` (one per session), `running`, `stage`, `refreshes`, `settings`, `file`, `job`, `views` |
| `AttendanceDaily` | `AttendanceRecordService`: generations, rule; extends `HolidayCache`, `DailyRecord` | `attendances`, `daily`, `ensure_locks`, `gens`, `rule_row`, `plan`, `rules`, `moment` |
| `ZkCodec` | the packed clock, the record size, the loop that cuts a log, as functions | – |
| `ZkClient` | `ZKClient`: a call from connect to enable | `calls`, `disabled`, and the history `stranded`, `unlocks` |
| `DoorControl` | `DoorService.open` and its route; extends `ZkClient` | `opens`, `answers`, `door_logs` |
| `FeishuBot` | the long connection and the event handlers; extends `DoorControl` | `app_loop`, `client`, `loop`, `thread`, `tasks` |
| `DeviceRegistry` | `DeviceService` and its routes; extends `ZkClient` | `devices`, `device_reqs` |
| `DoorHub` | the lifespan around the bot and the registry: start, shutdown, kill | `phase`, `arrived`, `starts` |
| `DoorLedger` | the promise about every request to open a door: sent once, logged once, told once, in that order | `sent`, `logged`, `told` |
| `Accounts` | `core/security.py`, `SystemUserService`, the login routes | `users`, `secrets`, `tokens`, `reqs`, `asked` |
| `ExportSettings` | the columns of the monthly export; extends `Accounts` | `export_row`, `exporting`, `chosen` (history) |
| `MCUserSync`, `MCAttendanceSync`, `MCAttendanceDaily`, `MCDoorHub`, `MCAccounts` | instances for TLC | – |
| `UserSyncProofs`, `UserSyncSafety`, `UserSyncEdits`, `AttendanceSyncProofs`, `AttendanceDailyProofs`, `ZkCodecProofs`, `DoorHubProofs`, `AccountsProofs` | theorems | – |

`PROJECT.json` maps each definition to the lines it stands for. Operators named
`Name_Something` and commented *mutated form* are wrong variants of `Name`: each run's
properties are known to fail when the variant takes the original's place.

### UserRows and UserSync

A user is identified by `user_id` and has at most one row. `name` stands for the three
columns name, privilege and group_id, which the code only moves together; cards and
passwords are model values. A terminal is a function from uids to entries.

`req[s]` is a request in flight: its program counter names the await it is at, `loaded`
and `mem` are the session's identity map (rows as selected, rows as changed in memory),
`snapshot` and `todo` the answer of `get_users` and what the import's loop has not seen.
`Flushed` is the commit: column by column, `mem` where it differs from `loaded`, else what
the table has by now. That rule decides most of what follows, and a mutated
`SyncCommit` that writes the whole row breaks `EditsSurvive` at once.

| Code | Actions |
|---|---|
| `create_user` | `BeginCreate`, `CheckName`, `CheckCard`, `AssignUid`, `Commit` |
| `update_user` | `BeginUpdate`, `CheckName`, `CheckCard`, `Commit` |
| `delete_user` | `BeginDelete`, `Commit` |
| `get_users` | `BeginList`, `Commit` (only if a row changed) |
| `sync_user_to_device`, `sync_pending_users` | `BeginSync` or `BeginBatch`, then per user `SyncNext`, `SyncSave`, `SyncVerify`, `SyncCommit` |
| `sync_users_from_device` | `BeginImport`, `ImportRead`, `ImportEntry` per entry, `ImportDone`, `Commit` |
| restart of the process | `Restart` |

A terminal call is taken or not and answered or not (`SyncSave`), and a read-back may
fail although the entry is right (`SyncVerify`). `Commit` may fail on the unique columns
uid and user_id; `MeetsHeldUid` is the row-by-row UPDATE that meets a uid another row has
not given up yet. The order of entries in the terminal's list is left open.

`behind[s]` holds the users whose row others have written since session `s` loaded it,
`outdated` the users that a request wrote from such a copy. They are history: no guard
reads them. They say exactly when the statuses can be wrong (section 4).

### AttendanceSync

The terminals' logs are sets of entries; an entry has a terminal and a punch (person and
second), and two entries can have the same punch. A task is a coroutine of a run; an
action is the code from one await to the next, with the close of the run's session taken
together with the await before it. Progress numbers and messages are left out; the counts
of the status are the sets of entries they count, so that "the counts are right" is an
equality of sets and not of numbers.

| Code | Actions |
|---|---|
| `start_manual_sync`, `_run_manual_sync_task` | `StartManualSync`, `RunManualSync` |
| `_run_scheduled_job`, `run_scheduled_sync` | `RunScheduledJob`, `RunScheduledSync` |
| `sync_from_device` | `FetchDone`, `SerialDone`, `ScanRecord` per entry, `CommitDone` |
| `_begin_run`, `_finish_run`, `_fail_run` | `BeginRun`, `FinishRun`, `FailRun` |
| `update_settings` | `UpdateSettings`, `SaveLoad`, `SaveCommit`, `RefreshSchedule`, `SaveFails` |
| restart of the process | `Restart` |

A terminal whose buffer is not recognised answers with no entry (`FetchDone`), a serial
number that cannot be read is None (`SerialDone`), an exception or a commit whose answer
is lost ends the run (`FailRun`).

### RunFlag

`RunFlag` is the abstract specification of what `AttendanceSyncManager` and
`HolidayCacheManager` both promise: a run begins only while none goes on, one run ends at a
time, a flag is up exactly in between. Each manager implements it under an `INSTANCE ...
WITH` that maps the flag to `_running` and the holders to the coroutines past `_begin_run`
(`ImplementsRunFlag` and `OneRefresh`).

### PunchTransfer and DoorLedger

Two abstract specifications say what a reader of the database or of an answer may rely on,
without terminals, threads, sessions or awaits.

`PunchTransfer` has a set of punches made, a set recorded and a set reported. A run begins
while none goes on, records punches that were made, and ends; only its end reports, and only
what is recorded by then. `AttendanceSync` implements it (`ImplementsPunchTransfer`) with
the flag for `running`, the punches of all logs, the punches that have a row, and those that
the status of a completed run counts as fetched. Most steps of a run stutter; a commit and
the end of a run are the steps that count, also where the commit took effect and its answer
was lost.

`DoorLedger` has for each request the number of commands sent, the rows of `door_logs` and
what the person was told. `DoorHub` implements it (`ImplementsDoorLedger`) for requests over
HTTP and events of the bot alike, with `unlocks`, `door_logs` and `answers`. A request that
is cancelled or lost with the process simply stops where it is; none goes back.

### HolidayCache and AttendanceDaily

One year of the calendar, one month of records. `refresh_year` replaces the year's rows in
the session of whoever calls it, so each of its callers (a refresh, the calendar view, a
generation) has an entry in `tx`, with the rows its DELETE saw and the answer it will
insert. The database is PostgreSQL in READ COMMITTED: a DELETE waits for another
transaction that has deleted a row it sees (`DeleteYear`, `WakeDelete`) and does not see
the rows that replace it; the commit then meets the unique constraint (`YearCollides`).
The same is modelled for the records of a month (`DeleteRecords`, `WakeRecords`, `Collides`).

| Code | Actions |
|---|---|
| `start_manual_refresh`, `_run_manual_refresh_task` | `StartManualRefresh`, `RunManualRefresh` |
| the scheduler's job, `run_scheduled_refresh` | `ScheduleJob`, `RunScheduledRefresh` |
| `refresh_year` | `FetchYear`, `DeleteYear`, `WakeDelete`, `CommitYear`, `YearFails` |
| `update_settings` (memory, file, job) | `UpdateSettings`, with a file that may be cut short |
| `get_holiday_cache_calendar` | `OpenView`, `EnsureYearCached`, `ViewStatement`, `CloseView`, `ViewRefreshFails` |
| `ensure_monthly_records` (forced for a recalculation) | `Generate`, `AcquireLock`, `AcquireGenerationLock`, `LoadRule`, `CreateRule` |
| `_ensure_monthly_records_inner` | `ReadPunches`, `SkipExisting`, `SelectUsers`, `ListYears`, `YearStatement`, `ListHolidays`, `DeleteRecords`, `WakeRecords`, `CommitRecords`, `Refused`, `FailGeneration`, `CloseAnswer` |
| `get_rule_settings`, `update_rule_settings` | `AskForRule`, `GetRule`, `CommitRule`, `RuleRefused`, `FailRule` |
| somebody punches, time passes, restart | `PunchArrives`, `TimePasses`, `Restart` |

A record keeps, beside what `DailyRecords` computes for it, the punches it was built from
and the id the database gave it: the properties compare these, not the formatted fields.
`_ensure_locks` are the in-process locks by key; the advisory lock belongs to a transaction
and is given back by the first commit, which is why it protects nothing that the properties
need.

### ZkCodec, ZkClient, DoorControl, FeishuBot, DeviceRegistry, DoorHub

`ZkCodec` are functions: `EncodeZkTime` and `DecodeZkTime` on numbers (a date before 2000 or
after `LastPackable`, in 2133, does not fit 32 bits and raises), `ResolveRecordSize` and the cut of a payload into records. A payload is given by its length and by what each
record size would read at each place, so that a wrong size reads other records.

A call of `ZKClient` is in a worker thread of its own. `Connect`, `Disable`, `Operate` and
`Enable` are one command each, and each may fail, with the command done or not. The `with`
block turns whatever is raised inside into `ZKConnectionError` (`ConnectRaises`), and the
retry decorator looks at the class of what arrives (`Retries`): that is the whole reason
why an unlock is sent once. Calls of one terminal overlap freely.

`DoorHub` composes them: `StartApp`, `RegisterDevices`, `StartManagers`, `Shutdown`,
`LoopCloses`, `Exit` are the lifespan and the end of the process, `Killed` ends it anywhere.

| Code | Actions |
|---|---|
| `connect`, `retry`, `unlock`, `get_attendance_safe`, `get_device_info` | `Connect`, `Disable`, `Operate`, `Enable` |
| `DoorService.open`, `POST /door/open` | `RequestOpen` (`BeginOpen`), `UnlockReturned`, `CommitLog`, `RefreshLog`, `AnswerOpen` |
| `longconn.py`: `start`, `_run_forever`, `stop` | `StartBot`, `RunForever`, `ConnectionFails`, `StopBot`, `LoopEnds` |
| `handlers.py`: dispatch, `handle_bot_menu_event`, `handle_door_open_menu`, `_notify_operator` | `DeliverEvent` (`Dispatch`), `HandleMenu`, `DoorOpened`, `NotifyOperator` |
| `DeviceService` and routes | `RequestDevice`, `StatusKnown`, `FindDevice`, `CheckIp`, `CommitDevice`, `DeviceRequestFails`, `RegisterDevices` |

### Accounts and ExportSettings

A token is what it says (type, subject, role); nobody forges one. A request has one session,
loads an account once (`Authenticate`, `LoadUser`) and writes the columns it has changed
(`CommitEdit`); a password is hashed with a new salt, so that its column is written even if
the password is the same (`Saved`). A login reads the account anew after it has ensured the
bootstrap administrator (`IssueTokens`). `reqs[x]` holds what it has loaded, and the standing it was let in with.

| Code | Actions |
|---|---|
| `login`, `refresh_token` | `AskLogin`, `AskRefresh`, `FindBootstrap`, `EnsureBootstrap`, `IssueTokens` |
| `get_current_user`, `require_admin`, API secrets | `AskWithToken`, `AskWithSecret`, `Authenticate`, `StampSecret` |
| `create_user`, `update_user`, `reset_password`, `change_password` | `LoadUser`, `CommitNewUser`, `CommitEdit` |
| `create_api_secret`, `revoke_api_secret` | `CountSecrets`, `CommitNewSecret`, `FindSecret`, `CommitRevocation` |
| expiry, failure of a statement, restart | `SecretExpires`, `RequestFails`, `Restart` |
| export columns: settings and export | `AskExport`, `AuthenticateExport`, `FindExportRow`, `InsertExportRow`, `SaveExportFields`, `ExportFails` |

## 3. The runs

| Run | Instance | Shows |
|---|---|---|
| `user_edits` | one user, two sessions, one terminal, five requests among update, delete, list, sync | `SyncedMatchesDevice`, `DisabledIsBlank`, `EditsSurvive`, `FailedNeedsEdit`, `TypeOK` |
| `user_import` | two user_ids and uids, people enrolled at the terminal, three requests among the imports, create, update, batch, fairness | `SyncedMatchesDevice`, `PreviewIsReadOnly`, `RequestsEnd` |
| `user_synced_doc`, `user_update_doc`, `user_dismiss_doc`, `user_write_missing_doc` | the smallest instances | four statements of the documentation and the tests that the code does not keep |
| `attendance_runs` | two terminals, three entries (two in one second), two tasks, two changes of settings, three requests, fairness | every property of `AttendanceSync`; it implements `RunFlag` and `PunchTransfer` |
| `attendance_settings_doc` | two overlapping changes | the row can keep the older settings |
| `daily_records` | two users, a month of two days and the day after, three punches, two generations, two refreshes, one view, one change of the rule and of the refresh settings, two requests, fairness | `RecordsSurvive`, `RecalculationsInOrder`, `NoOlderBeneath`, `SummaryAddsUp`, `CachedYearStays`, `JobSurvivesRestart`, `OneRefresh`, `NobodyWaitsInVain`, `RequestsEnd`, `TypeOK` |
| `rule_order_doc` | two overlapping changes of the rule | work can end before it begins |
| `door` | two terminals, one configured; a request to open, four events (one delivered twice, one for another terminal, one of somebody who may not), two device requests, one log read; two requests, two starts, fairness | `DisabledIsAccounted`, `UnlockSentOnce`, `LogsReadWhole`, `OpenedIsLogged`, `HandledOnAppLoop`, `DeletedStaysDeleted`, `RequestsEnd`, `TypeOK`; it implements `DoorLedger` |
| `accounts` | three names (the bootstrap administrator, another administrator, one free), three secrets, a limit of one, two requests in flight | `SecretsBounded`, `ByAdministrators`, `ColumnsKept`, `ChoiceKept`, `TypeOK` |

The properties of the users are checked where they are hardest: `user_edits` has the edits
that endanger the statuses, `user_import` the people enrolled at the terminal and the loops
over a batch or a list of entries that have to end. What a run leaves out is proved for all of them (section 5).

*Bounds.* `MaxRequests` bounds the requests of a behaviour, not their interleaving: two
requests in flight and a third (up to a fifth) before or after are what the hazards need,
since each is a pair of requests over one row, with a restart or a lost answer in between.
Two sessions suffice for the same reason, two user_ids for a uid conflict and for swapped
uids, two uids for both to be enrolled. `MaxUid` is the size of the uid column; a create
beyond it fails, as the database does. With two tasks a run can be refused; with three
entries, two of them in one second at one terminal, a commit inserts zero, one or two rows
of a key and a run has a second terminal. In `daily_records` the two requests may be any
pair of generations (everybody's or one user's, listing or recalculation), refreshes, views
and changes; punches, the passing of the day, failures and restarts are free besides; two
days are what `NoOlderBeneath` compares, and the first has somebody late and leaving early.
In `door` two calls meet at one terminal, and the second start finds the devices of the
first. In `accounts` the limit is one, so that two creations exceed it; the values of
`SecretsBounded` for other limits and more requests are proved. These three runs have
482 000, 485 000 and 117 000 distinct states, `attendance_runs` 831 000, `user_edits` 468 000,
`user_import` 603 000; each ends within
two minutes. Deadlock is not checked: a workload that is used
up leaves nothing to do.

*Symmetry* is taken over sessions only, and only in runs without liveness.

*Fairness.* `FairSpec` asks that a coroutine whose await is over is resumed. The event loop
guarantees it, and the awaits end: terminal calls have `ZK_DEVICE_TIMEOUT`, database calls
the driver's errors. In `UserSync` and `AttendanceSync` it is weak fairness of the steps of
each coroutine; in `AttendanceDaily` and `DoorHub` it is weak fairness of `Work` as a whole
(somebody who can go on does), which is weaker and suffices because the workload is finite.
`Work` of `AttendanceDaily` has no error from outside, so that nobody gets on only because
something fails; collisions and refusals by the database belong to it, since the database
decides them. Nothing makes a terminal accept anything, a client ask for anything, or a
scheduler fire: those actions are not fair. `Accounts` has no liveness property: its requests
are straight lines without a lock.

## 4. What the checks show

Door users. Whatever overlaps, `synced` and `synced_disabled` are true of some terminal
unless a request wrote, to the table or to a terminal, a row it had loaded before somebody
else changed it (`SyncedMatchesDevice`, `DisabledIsBlank`); restarts, lost answers, failed
read-backs, refused commits, listings, previews and imports alone never make them wrong.
No overlap brings an old name, card or password back: these columns change only in the step
of a request that enters a new value or clears it, and clearing needs a row that was read as
a dismissed one (synchronisation) or as one without a card (listing, import)
(`EditsSurvive`). That property has an exemption: the reason for clearing is looked for in the
row as it was *read*. An edit that commits between that reading and the clearing is lost, in
two places. A synchronisation of a dismissed user clears the card and password that an update
has entered meanwhile (`user.py:161`), and the row ends as `synced_disabled`:
`user_update_doc` shows it, against the promise that an update leaves the user waiting to be
synchronised. A listing clears the password that an update has entered for a user who had no
card when the listing read the row (`user.py:397`); no document says whether it should, and
the row counts as `outdated`. A failed
synchronisation stays failed until an edit (`FailedNeedsEdit`): neither a batch nor another
synchronisation retries it. The exception in the first two is real: `user_synced_doc` shows
an update committed between the terminal's read-back and the commit of `synced`. The row
has the new card, the terminal the old one, and because the row is no longer pending,
nothing sends it again. `user_dismiss_doc`: listing the users makes a dismissed user
active again while the dismissal waits to be sent. `user_write_missing_doc`: the mode that
should only insert changes existing rows, because they are shown in the answer.

Attendance. Runs are one at a time, with the flag up exactly while one goes on
(`ImplementsRunFlag`), and every run gives it back (`RunEnds`). An incremental run inserts
no key that has a row (`IncrementalAddsOnlyNew`), and that rests on the exclusion: with the
flag ignored, two runs insert the same punch. The counts of a completed run are those of its
rows over all devices (`CompletedCounts`). What a completed run has fetched is in the table
(`ReportedIsRecorded`), also when the serial number was lost, though then under NULL and
again under the number later. Seen from outside, the manager is `PunchTransfer`: a punch
reaches the table by a run alone and stays there, and what the status reports is there
(`ImplementsPunchTransfer`). `ScheduleFollowsSettings` holds for any overlap of changes
because `_refresh_schedule` reads memory; the row has no such luck, and
`attendance_settings_doc` shows a restart that would go back to older settings.

Daily records. Whatever overlaps, fails or collides, a record is deleted in the commit that
inserts its successor, or by a recalculation of its user that found no punch
(`RecordsSurvive`); recalculations of one user never put back a record of fewer punches
(`RecalculationsInOrder`), which rests on the in-process lock, not on the advisory one; a
month has no older record before a younger one (`NoOlderBeneath`); the figures add up
(`SummaryAddsUp`); everybody ends and gives back locks (`RequestsEnd`), because whoever waits, for the lock of
a key, the advisory lock or rows that another deletes, waits for somebody at work
(`NobodyWaitsInVain`): key, advisory lock and rows are taken in one order, and the rows of
users in the order of the users. What does *not* hold,
and so is not stated: a listing, or a recalculation of everybody, that read its punches
before the recalculation of one user finished may overwrite it, since their keys differ; a
month may mix rules across users, and a later day may stay under the older rule; a user who
has any record is skipped by listings, so days added since stay missing until a
recalculation; a cleared month that races a new punch can be left with a hole; page, count
and summary of one answer are read in different snapshots. `rule_order_doc`: two overlapping
changes, each of which checked that work begins before it ends, leave a row in which it does
not.

Holiday cache. A cached year is never seen empty while it is replaced (`CachedYearStays`),
except through an answer of the API that has no day. The job is the one of the settings file
(`JobSurvivesRestart`), and refreshes are one at a time (`OneRefresh`). What does not hold:
a settings file that was cut short stops the next start; a calendar view whose refresh made
the session unusable fails, although a comment (`attendance_records.py:194`) expects the
cached rows; the blocking `urlopen` holds the whole event loop for up to ten seconds.

Doors. A terminal that takes no notice of people is in use by a call that will enable it, or
enabling it has failed or the process was killed (`DisabledIsAccounted`); that it is enabled
by one call while another still works on it is possible and not excluded by anything. One
request unlocks once (`UnlockSentOnce`). Whoever is told that the door is open is in the log
(`OpenedIsLogged`); the converse does not hold: the exception of a failed unlock passes the
`except` clause, so a failed unlock leaves no row and the answer 3001 (`wiki/Development.md`,
line 92) is never given, and a handler cancelled at shutdown leaves an unlock without a row.
A redelivered event opens again, as a request of its own; for each request the order command,
row, answer is kept, each at most once, and nobody is told "denied" whose door was opened
(`ImplementsDoorLedger`). Handlers run on the application's loop from the first event
on (`HandledOnAppLoop`). A deleted device comes back only by an update that asks for it or by
a start that is configured with its address (`DeletedStaysDeleted`); a status request may
still write the serial number of one address to a row that was moved to another, and clears
it when the terminal does not answer. `LogsReadWhole`: a log that is what it claims to be is
cut as it was written, although its record size is guessed.

Accounts. What administrators may do happens only for requests that were let in from an
active administrator, never for the role a token remembers (`ByAdministrators`). No edit
brings back a column somebody else changed, except that the bootstrap administrator's role
and state are restored at logins, listings and starts (`ColumnsKept`). The limit of active
secrets is exceeded by overlapping creations, by at most one less than their number
(`SecretsBounded`). A choice of export columns that was saved stays (`ChoiceKept`); but all
rows of that table have the id 1 by default, so a second account can never save one, and
`get_or_create` commits a choice of no columns before the chosen ones.

## 5. What is proved

TLAPS checks the theorems for all values of the constants, under the named assumptions of
the modules (`UserRowsAssumption`, `UserSyncAssumption`, `AttendanceSyncAssumption`,
`HolidayCacheAssumption`, `AttendanceDailyAssumption`, `ZkCodecAssumption`,
`ZkClientAssumption`, `DoorControlAssumption`, `FeishuBotAssumption`,
`DeviceRegistryAssumption`, `DoorHubAssumption`, `AccountsAssumption`,
`ExportSettingsAssumption`): the values NoCard, NoPassword and None are none of the others,
logs and tables are finite, what a workload uses is of the right type. Nothing bounds the
number of users, devices, sessions, days, calls, accounts or tasks. Every invariant, every
action property and every refinement of the passing runs is proved; of the liveness
properties, the parts that are not about fairness.

- `UserSyncProofs!TypeCorrect`: `Spec => []TypeOK`. `TypeOK` alone is not inductive: that
  `req[s].mem[u].uid` exists when `SyncSave` uses it needs to know what a request has loaded
  at each point of its handler. The invariant is `TypeOK /\ RequestsOK`, with one lemma per
  action.
- `AttendanceSyncProofs!TypeCorrect`, `RunsExclusive`, `FlagImplemented`,
  `IncrementalIsIncremental`, `NothingReportedIsLost`, `ScheduleRight`, `CountsRight`. The invariant `Safe` joins exclusion with
  `RunsOK`, what the run at work knows of the table: the entries it found have rows, the
  entries an incremental run is about to add have none, what earlier devices of the run
  fetched is recorded. Exclusion makes `RunsOK` stable (nobody else changes the table), and
  `RunsOK` at the commit is what `IncrementalAddsOnlyNew` and `ReportedIsRecorded` need.
  `TaskStepSafe` does the argument once for every step of a task; the lemmas per action only
  say what the task knows afterwards. `FlagStep` shows that every step is one of `RunFlag` or
  leaves it alone. `CountsOK` is the second invariant: a run counts an entry at the device of
  its log and goes to each device once, so counts of different devices never overlap. Both
  were checked with TLC before they were proved.
- `AttendanceSyncProofs!TransferImplemented`, `TransferInOrder`: the refinement of
  `PunchTransfer`. The invariant it adds, `FromLog`, says that whatever a run has
  in its hands was read from a log; that a completed run reports
  only what has a row is `ReportedIsRecorded` (`Safe`) once more, now at the step that
  reports. `TransferInOrder` carries the abstract invariant over to the manager.
- `UserSyncSafety!SyncedRowsAreOnDevice`, `DisabledRowsAreBlank`. The two promises are not
  inductive: a commit keeps them only if what the request holds in memory is worth writing.
  `IInv` adds what that takes: uids are unique (`UniqueUids`, so that a device write touches
  the entry of one row); a session that is not behind has the current row (`Fresh`);
  what a request is about to write is unchanged, or the card rule applied to what it loaded,
  or asks for synchronisation, or was taken from its snapshot of the device
  (`WritesJustified`); a synchronisation has saved what it is about to announce (`SyncsOK`).
  Both promises are needed together, because a listing turns a `synced` row without a card
  into a `synced_disabled` one and back. `LocalKeeps` does the argument once for the steps
  that write neither the table nor a device; `CommitKeeps`, `SyncSaveKeeps` and
  `SyncCommitKeeps` are the steps where the hazards are. `outdated` carries the
  exception: a row joins it when a session that is behind on it sends it to a device (with
  whoever owns the uid by then) or commits it, or when an import commits a change taken from
  a snapshot the device has moved on from.
- `UserSyncEdits!OperatorEditsSurvive` (with the exemption of section 4),
  `FailedUsersWait`, `PreviewsDoNotWrite`: the action properties, from `IInv` and
  `RequestsKeepToOp` (what each operation may do to the rows it loaded). `CommitWrites` and
  `SyncCommitWrites` say what the two commits can write at all, `WriterMoves` that a commit
  is seen to be a step of its session.
- `AttendanceDailyProofs`: `IInv` is `CacheSafe` (types, the flag and its refreshes, the job
  and the file) with `GenSafe`. Its core is `Knows`: a generation past its SELECT has read
  every punch that records of its own key are built from, which the lock of the key keeps
  true; `LocksInv` says that two generations at work never have the same key. From them
  follow `RecordsSurvive`, `RecalculationsInOrder` and `NoOlderBeneath` for any number of
  generations. `SummaryAddsUp` is an argument about cardinalities over `Accounted`, what
  `DailyRecords` returns for any day, rule and punches. `RefreshesImplementFlag` is the
  second refinement of `RunFlag`.
- `AttendanceDailyProofs!NoneInVain`: `WaitInv` adds that a generation deletes the rows of
  users in ascending order (`OrderInv`) and what a session holds at each point of
  `refresh_year` (`TxLocks`, `YearInv`). `WaitsOnce` draws the conclusion: who waits for
  somebody who waits is a generation before its own lock is free, or one that meets rows
  deleted by a generation further on among the users. Of any who wait, the one furthest on
  therefore waits for none of the others.
- `AttendanceDailyProofs!MinutesAddUp`: of a working day begun within the planned hours, the
  minutes late, left early and worked are the planned minutes and the overtime, to within
  the rounding of three divisions by 60 (-2 to 1 minutes).
- `ZkCodecProofs`: `TimeSurvivesPacking` (packing and unpacking are inverse on the dates the
  clock can hold), `PackedInWord` (these are the dates whose packing fits 32 bits; TLC has no
  numbers of that size, so the model puts the bound in dates), `SizeResolved`, `ReadWhole`. They need no state. `TimesApart` is the other
  direction: no two clock values are read as one time. `WindowIsRange` says that the check of
  plausible times keeps a range of clock values, whatever bound can be packed, since the packing keeps
  the order of dates (`PackedInOrder`).
- `DoorHubProofs`: the invariant is a conjunction of one part per component, `CallsInv`,
  `DoorInv`, `BotInv`, `DeviceInv`, each with lemmas for its own steps and a lemma
  (`DoorSame`, `BotSame`, `DeviceSame`) that says what the others may do without disturbing
  it. `LogsRead` uses `ReadWhole` of `ZkCodecProofs`.
- `DoorHubProofs!LedgerImplemented`, `LedgerAgrees`: the refinement of `DoorLedger`, from
  `IInv` and `LedgerInv`, which says of each request what its place allows: nobody has been
  told or logged while the command may still be sent, an event's handler has an opening only
  while it awaits it. `LedgerAgrees` is the abstract invariant, for the abstract steps alone,
  carried over.
- `AccountsProofs`: `ReqOK` says what a request knows at each point of its handler, `Known`
  that the rows it has seen are still there. `Bound` strengthens `SecretsBounded` with the
  creations that have counted and not inserted: by induction over steps, usable secrets and
  pending creations together are at most the limit plus the number of requests less one. `NoColumnLost`
  and `AdministratorsAlone` need that a request commits only what `AskSigned` and
  `Authenticate` let through. `ChoiceStays` rests on `FirstPlaces`, a definition of the
  normalisation without recursion.

Only model-checked: the four liveness properties, `RequestsEnd` of `UserSync`,
`AttendanceDaily` and `DoorHub` and `RunEnds` of `AttendanceSync` (liveness under fairness
and ENABLED are beyond the prover). The violated statements are refuted by TLC's traces.
What the liveness properties need besides fairness is proved without it:

| Liveness | Nobody is stuck | No step goes back |
|---|---|---|
| `RunEnds` | `AttendanceSyncProofs!NoRunIsStuck` | `AttendanceSyncProofs!ForwardAlways`: fewer devices left, or a later await, or fewer entries to scan |
| `RequestsEnd` of `UserSync` | – | `UserSyncProofs!ForwardAlways`: fewer users in the batch, or a later await, or fewer entries of the import |
| `RequestsEnd` of `AttendanceDaily` | `AttendanceDailyProofs!NoneInVain` | – |
| `RequestsEnd` of `DoorHub` | `DoorHubProofs!NoneAwaitsInVain` | `DoorHubProofs!NothingStartsOver` |

The orders have no infinite descent, so that under fairness each request ends; that last
inference is the one left to TLC. `NoneAwaitsInVain` needs `ForwardInv`: an event's handler
awaits an opening exactly while that opening is there, so that what cancels one cancels the
other.

## 6. Not modelled, and what is left

Not modelled because nothing can go wrong there that these methods show: wording, paging
order, progress numbers, sums of minutes, schemas, configuration, hashing and token
signatures, migrations; the dashboard, which only counts; POST /door/close, which answers
that it is not supported; approval events of the bot, which are only logged. Code that is
never called (`run_manual_sync`, `get_attendance`) is left out. Notes in `PROJECT.json` say
for each hazard that no property covers fully why that is so.

Left for an extension:

1. A composition of `AttendanceSync` and `AttendanceDaily` over one table of punches; today
   `PunchArrives` stands for a commit of a run, which `PunchTransfer` says is all that a
   reader of the table can see of it.
2. That a step of a generation never goes back (the empty place of the table in section 5).
3. Larger instances of `daily_records` and `door` with three overlapping requests, beyond
   the five minutes a run has here; the proofs already cover them for safety.
