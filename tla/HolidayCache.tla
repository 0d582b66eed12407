---------------------------- MODULE HolidayCache ----------------------------
(***************************************************************************)
(* The cached calendar of one year: AilccCachedWorkdayProvider             *)
(* (app/services/workday.py), which fetches the year and replaces its rows *)
(* in the session of whoever calls it, HolidayCacheManager                 *)
(* (app/core/holiday_cache_manager.py), which admits one refresh at a time,*)
(* and the calendar view of app/api/v1/attendance_records.py.  An action   *)
(* is the code between two awaits.  The fetch is a blocking call and no    *)
(* await.  The database is PostgreSQL in READ COMMITTED: a DELETE waits    *)
(* for whoever has deleted a row it sees, and passes over the rows that    *)
(* replace it.                                                             *)
(***************************************************************************)
EXTENDS Naturals, FiniteSets

CONSTANTS Days,          \* days of the year: those of the month looked at
          IsWeekday,     \* day -> Monday to Friday?
          Answers,       \* what the holiday API may say of the year
          Sessions,      \* database sessions that may call refresh_year
          Refreshes,     \* ... of coroutines of manual and scheduled refreshes
          Views,         \* ... of requests for the calendar
          CacheBodies,   \* settings that requests ask for
          SavedSettings, \* those in the file when the application starts
          MaxRequests,   \* bound: requests and scheduled jobs
          None,          \* no job
          Unreadable     \* a settings file cut short

\* A row of holiday_calendar; type 1 is a weekend, 2 and 3 are holidays,
\* 4 a day worked in exchange.
CalendarRow == [type : 0 .. 4, is_holiday : BOOLEAN]
Rows == UNION {[S -> CalendarRow] : S \in SUBSET Days}
NoRows == [d \in {} |-> [type |-> 0, is_holiday |-> FALSE]]

CacheSettings == [enabled : BOOLEAN, frequency : {"daily", "weekly"}, time : Nat, weekday : 1 .. 7]

ASSUME HolidayCacheAssumption ==
  /\ IsFiniteSet(Days)
  /\ IsWeekday \in [Days -> BOOLEAN]
  /\ Answers \subseteq Rows
  /\ \A a, b \in Answers \ {NoRows} : DOMAIN a \cap DOMAIN b # {}
  /\ Refreshes \subseteq Sessions /\ Views \subseteq Sessions /\ Refreshes \cap Views = {}
  /\ CacheBodies \subseteq CacheSettings /\ SavedSettings \in CacheSettings
  /\ MaxRequests \in Nat
  /\ Unreadable \notin CacheSettings

VARIABLES calendar,     \* holiday_calendar: the committed rows of the year
          tx,           \* session -> its call of refresh_year
          running,      \* _running, and status["running"]
          stage,        \* status["stage"]
          refreshes,    \* coroutine -> the await it is at
          views,        \* request for the calendar -> the await it is at
          settings,     \* _settings
          file,         \* data/holiday_cache_settings.json
          job,          \* the job holiday_cache_refresh, or None
          started       \* number of requests and scheduled jobs
managerVars == <<running, stage, refreshes>>
cacheSettingsVars == <<settings, file, job>>
cacheVars == <<calendar, tx, managerVars, views, cacheSettingsVars, started>>

Tx == [pc : {"none", "delete", "waiting", "commit", "doomed"},
       answer : Answers \cup {NoRows},
       locks : BOOLEAN]             \* it has deleted the rows that are committed
NoTx == [pc |-> "none", answer |-> NoRows, locks |-> FALSE]
Doomed == [NoTx EXCEPT !.pc = "doomed"]   \* it refuses statements until it is rolled back

Jobs == [day : 0 .. 6, time : Nat] \cup [time : Nat]

CacheTypeOK ==
  /\ calendar \in Answers \cup {NoRows}
  /\ tx \in [Sessions -> Tx]
  /\ running \in BOOLEAN
  /\ stage \in {"idle", "refreshing", "completed", "failed"}
  /\ refreshes \in [Refreshes -> {"idle", "start", "queued", "refresh"}]
  /\ views \in [Views -> {"idle", "has_year", "refresh", "list"}]
  /\ settings \in CacheSettings
  /\ file \in CacheSettings \cup {Unreadable}
  /\ job \in Jobs \cup {None}
  /\ started \in 0 .. MaxRequests

JobOf_WeekdayAsGiven(s) ==   \* mutated form: Monday is 1 for the scheduler as well
  IF ~s.enabled THEN None
  ELSE IF s.frequency = "weekly" THEN [day |-> s.weekday, time |-> s.time] ELSE [time |-> s.time]

(* _refresh_schedule: a job per day, or on one day of the week. *)
JobOf(s) ==
  IF ~s.enabled THEN None
  ELSE IF s.frequency = "weekly" THEN [day |-> s.weekday - 1, time |-> s.time]
  ELSE [time |-> s.time]

CacheInit ==
  /\ calendar \in Answers \cup {NoRows}
  /\ tx = [s \in Sessions |-> NoTx]
  /\ running = FALSE /\ stage = "idle"
  /\ refreshes = [t \in Refreshes |-> "idle"]
  /\ views = [v \in Views |-> "idle"]
  /\ settings = SavedSettings /\ file = settings /\ job = JobOf(settings)
  /\ started = 0

Request == started < MaxRequests /\ started' = started + 1

-----------------------------------------------------------------------------
(* refresh_year, in a session *)

PutTx(s, q) == tx' = [tx EXCEPT ![s] = q]

(* _fetch_year has an answer; an error of it leaves the session alone. *)
FetchYear(s) == \E a \in Answers : PutTx(s, [pc |-> "delete", answer |-> a, locks |-> FALSE])

YearLocked == \E s \in Sessions : tx[s].locks

DeleteYear_Committed(s) ==   \* mutated form: the DELETE is committed on its own
  /\ tx[s].pc = "delete"
  /\ PutTx(s, [tx[s] EXCEPT !.pc = "commit"])
  /\ calendar' = NoRows

(* replace_year: the DELETE; the rows to insert wait for the flush. *)
DeleteYear(s) ==
  /\ tx[s].pc = "delete"
  /\ PutTx(s, IF YearLocked THEN [tx[s] EXCEPT !.pc = "waiting"]
              ELSE [tx[s] EXCEPT !.pc = "commit", !.locks = (calendar # NoRows)])
  /\ UNCHANGED calendar

(* Whoever had deleted the rows was rolled back. *)
WakeDelete(s) ==
  /\ tx[s].pc = "waiting" /\ ~YearLocked
  /\ PutTx(s, [tx[s] EXCEPT !.pc = "commit", !.locks = TRUE])
  /\ UNCHANGED calendar

(* Rows committed since the DELETE have the same dates, which are unique.  *)
YearCollides(s) == tx[s].answer # NoRows /\ calendar # NoRows /\ ~tx[s].locks

(* INSERT and COMMIT; those who wait for the deleted rows pass over them.  *)
CommitYear(s, after) ==
  LET q == tx[s] IN
  /\ q.pc = "commit" /\ ~YearCollides(s)
  /\ calendar' = IF q.locks \/ q.answer # NoRows THEN q.answer ELSE calendar
  /\ tx' = [w \in Sessions |-> IF w = s THEN after
                               ELSE IF q.locks /\ tx[w].pc = "waiting"
                               THEN [tx[w] EXCEPT !.pc = "commit"] ELSE tx[w]]

YearRefused(s) == tx[s].pc = "commit" /\ YearCollides(s)

(* A statement fails, or the INSERT violates uq_holiday_calendar_date, or  *)
(* the answer to a COMMIT that took effect is lost.                        *)
YearFails(s, after) ==
  /\ tx[s].pc \in {"delete", "waiting", "commit"}
  /\ \/ PutTx(s, after) /\ UNCHANGED calendar
     \/ CommitYear(s, after)

-----------------------------------------------------------------------------
(* HolidayCacheManager: refreshes *)

BeginRun_Unguarded ==   \* mutated form: the flag is not looked at
  running' = TRUE /\ stage' = "refreshing"

(* _begin_run: RuntimeError while a refresh is going on. *)
BeginRun == ~running /\ running' = TRUE /\ stage' = "refreshing"

FinishRun == running' = FALSE /\ stage' = "completed"

FailRun == running' = FALSE /\ stage' = "failed"

\* Coroutines and sessions are made as they are needed: any idle one will do.
Free(t) == t = CHOOSE w \in Refreshes : refreshes[w] = "idle"

At(t, pc) == refreshes' = [refreshes EXCEPT ![t] = pc]

(* start_manual_refresh: the flag is taken before the coroutine is queued. *)
StartManualRefresh(t) ==
  /\ refreshes[t] = "idle" /\ Free(t)
  /\ Request
  /\ BeginRun
  /\ At(t, "start")
  /\ UNCHANGED <<calendar, tx, views, cacheSettingsVars>>

(* _run_manual_refresh_task up to the DELETE. *)
RunManualRefresh(t) ==
  /\ refreshes[t] = "start"
  /\ \/ FetchYear(t) /\ At(t, "refresh") /\ UNCHANGED <<running, stage>>
     \/ FailRun /\ At(t, "idle") /\ UNCHANGED tx
  /\ UNCHANGED <<calendar, views, cacheSettingsVars, started>>

(* _schedule_job, in the scheduler's thread. *)
ScheduleJob(t) ==
  /\ refreshes[t] = "idle" /\ Free(t) /\ job # None
  /\ Request
  /\ At(t, "queued")
  /\ UNCHANGED <<calendar, tx, running, stage, views, cacheSettingsVars>>

(* run_scheduled_refresh: _begin_run stands before the try, so a refusal   *)
(* does not reach _fail_run.                                               *)
RunScheduledRefresh(t) ==
  /\ refreshes[t] = "queued"
  /\ \/ running /\ At(t, "idle") /\ UNCHANGED <<tx, running, stage>>
     \/ BeginRun /\ FetchYear(t) /\ At(t, "refresh")
     \/ ~running /\ FailRun /\ At(t, "idle") /\ UNCHANGED tx
  /\ UNCHANGED <<calendar, views, cacheSettingsVars, started>>

RefreshStatement(t) ==
  /\ DeleteYear(t) \/ WakeDelete(t)
  /\ UNCHANGED <<managerVars, views, cacheSettingsVars, started>>

(* Its session is closed by the time a refresh is over. *)
RefreshDone(t) ==
  /\ CommitYear(t, NoTx)
  /\ FinishRun
  /\ At(t, "idle")
  /\ UNCHANGED <<views, cacheSettingsVars, started>>

RefreshFails(t) ==
  /\ YearFails(t, NoTx)
  /\ FailRun
  /\ At(t, "idle")
  /\ UNCHANGED <<views, cacheSettingsVars, started>>

-----------------------------------------------------------------------------
(* HolidayCacheManager: settings *)

UpdateSettings_JobFirst(body) ==   \* mutated form: the job is replaced before the file is written
  /\ Request
  /\ settings' = body
  /\ job' = JobOf(body)
  /\ file' \in {body, file, Unreadable}
  /\ UNCHANGED <<calendar, tx, managerVars, views>>

(* update_settings has no await.  Writing the file may fail, before or     *)
(* after write_text has emptied it; then the job is not replaced.          *)
UpdateSettings(body) ==
  /\ Request
  /\ settings' = body
  /\ \/ file' = body /\ job' = JobOf(body)
     \/ file' \in {file, Unreadable} /\ UNCHANGED job
  /\ UNCHANGED <<calendar, tx, managerVars, views>>

-----------------------------------------------------------------------------
(* get_holiday_cache_calendar *)

ViewAt(v, pc) == views' = [views EXCEPT ![v] = pc]

OpenView(v) ==
  /\ views[v] = "idle"
  /\ Request
  /\ ViewAt(v, "has_year")
  /\ UNCHANGED <<calendar, tx, managerVars, cacheSettingsVars>>

(* ensure_year_cached; an error of the fetch is swallowed. *)
EnsureYearCached(v) ==
  /\ views[v] = "has_year"
  /\ \/ calendar = NoRows /\ FetchYear(v) /\ ViewAt(v, "refresh")
     \/ ViewAt(v, "list") /\ UNCHANGED tx
  /\ UNCHANGED <<calendar, managerVars, cacheSettingsVars, started>>

ViewStatement(v) ==
  /\ views[v] = "refresh"
  /\ \/ (DeleteYear(v) \/ WakeDelete(v)) /\ UNCHANGED views
     \/ CommitYear(v, NoTx) /\ ViewAt(v, "list")
  /\ UNCHANGED <<managerVars, cacheSettingsVars, started>>

(* An error is swallowed, without a rollback. *)
ViewRefreshFails(v) ==
  /\ views[v] = "refresh"
  /\ YearFails(v, Doomed) /\ ViewAt(v, "list")
  /\ UNCHANGED <<managerVars, cacheSettingsVars, started>>

(* The rows of the month are read, or the session refuses and the request  *)
(* fails; the session is closed.                                           *)
CloseView(v) ==
  /\ views[v] = "list"
  /\ ViewAt(v, "idle")
  /\ PutTx(v, NoTx)
  /\ UNCHANGED <<calendar, managerVars, cacheSettingsVars, started>>

-----------------------------------------------------------------------------
(* get_workday_map *)

IsWorkdayFromType(row) == row.type = 4 \/ (~row.is_holiday /\ row.type = 0)

(* What the calendar does not say, the weekday says. *)
WorkdayMap ==
  [d \in Days |-> IF d \in DOMAIN calendar THEN IsWorkdayFromType(calendar[d]) ELSE IsWeekday[d]]

-----------------------------------------------------------------------------
\* What is sure to go on: errors are, if the database has a reason to refuse.
RefreshStep(t) ==
  \/ RunManualRefresh(t) \/ RunScheduledRefresh(t) \/ RefreshStatement(t) \/ RefreshDone(t)
  \/ YearRefused(t) /\ RefreshFails(t)

ViewStep(v) ==
  EnsureYearCached(v) \/ ViewStatement(v) \/ CloseView(v) \/ (YearRefused(v) /\ ViewRefreshFails(v))

CacheWork == (\E t \in Refreshes : RefreshStep(t)) \/ (\E v \in Views : ViewStep(v))

CacheNext ==
  \/ CacheWork
  \/ \E t \in Refreshes : StartManualRefresh(t) \/ ScheduleJob(t) \/ RefreshFails(t)
  \/ \E v \in Views : OpenView(v) \/ ViewRefreshFails(v)
  \/ \E body \in CacheBodies : UpdateSettings(body)

(* The process is restarted: sessions are rolled back, the settings come   *)
(* from the file; one that is cut short stops the start.                   *)
CacheRestart ==
  /\ file # Unreadable
  /\ running' = FALSE /\ stage' = "idle"
  /\ tx' = [s \in Sessions |-> NoTx]
  /\ refreshes' = [t \in Refreshes |-> "idle"]
  /\ views' = [v \in Views |-> "idle"]
  /\ settings' = file /\ job' = JobOf(file)
  /\ UNCHANGED <<calendar, file, started>>

-----------------------------------------------------------------------------
(* Properties *)

(* A refresh is past _begin_run. *)
Refreshing(t) == refreshes[t] \in {"start", "refresh"}

(* The protocol of the flag, which the attendance runs share: one refresh  *)
(* is admitted at a time and the flag says whether there is one, whatever  *)
(* fails or is refused (holiday_cache_manager.py:110-174).                 *)
Flag == INSTANCE RunFlag WITH Runs <- Refreshes, flag <- running,
                              holders <- {t \in Refreshes : Refreshing(t)}
OneRefresh == Flag!Spec

(* A year that is cached never disappears for a reader while it is         *)
(* replaced, whoever overlaps with whom; only an answer without a single   *)
(* day, which the API may give with code 0, empties it (workday.py:60-78,  *)
(* holiday_calendar.py:41-43).                                             *)
CachedYearStays ==
  [][calendar # NoRows /\ calendar' = NoRows =>
       \E s \in Sessions : tx[s].pc = "commit" /\ tx[s].answer = NoRows]_cacheVars

(* The job that runs is the one a restart would set up, though a write of  *)
(* the file may fail at any point (holiday_cache_manager.py:81-90).        *)
JobSurvivesRestart == file # Unreadable => job = JobOf(file)
=============================================================================
