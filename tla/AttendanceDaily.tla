-------------------------- MODULE AttendanceDaily --------------------------
(***************************************************************************)
(* Daily attendance records of one month: AttendanceRecordService          *)
(* (app/services/attendance_record.py) and the routes that use it, beside  *)
(* the holiday cache, whose refresh_year runs in the sessions of           *)
(* generations as well.  A generation reads punches and writes records for *)
(* one user or for all; locks go by key, so generations under different    *)
(* keys meet at the rows.  A user_id is a number that stands for its place *)
(* in the order of user_ids.                                               *)
(***************************************************************************)
EXTENDS HolidayCache, DailyRecord, Sequences

CONSTANTS Users,         \* user_ids in `attendances`
          Registered,    \* ... that have a row in `users`
          LastDay,       \* last day of the month
          Clock,         \* moments at which requests come, in order
          Punches,       \* rows that appear in `attendances` in the month
          Earlier,       \* ... that are there when the application starts
          PunchAt,       \* punch -> who, on which day, at which second
          Generations,   \* sessions of requests that generate records
          RuleRequests,  \* requests that read or change the rule
          RuleBodies,    \* the rules they ask for
          DefaultRule    \* DEFAULT_PLAN_START, DEFAULT_PLAN_END

Keys == Users \cup {None}           \* a user_id, or "__all__"
UserDays == Users \X (1 .. LastDay)
Moments == [day : Nat \ {0}, second : Seconds]

ASSUME AttendanceDailyAssumption ==
  /\ Users \subseteq Nat /\ IsFiniteSet(Users) /\ None \notin Users \cup Rule \cup Jobs
  /\ Registered \subseteq Users
  /\ LastDay \in Nat /\ Days = 1 .. LastDay
  /\ Clock \in Seq(Moments) /\ Clock # <<>>
  /\ \A i, j \in 1 .. Len(Clock) : i < j => Clock[i].day <= Clock[j].day
  /\ IsFiniteSet(Punches) /\ Earlier \subseteq Punches
  /\ PunchAt \in [Punches -> [user_id : Users, day : Days, second : Seconds]]
  /\ Generations \subseteq Sessions /\ Generations \cap (Refreshes \cup Views) = {}
  /\ DefaultRule \in Rule
  /\ RuleBodies \subseteq {r \in Rule : r.plan_start < r.plan_end}   \* update_rule_settings, 80

VARIABLES attendances,  \* the punches that are in the table
          daily,        \* attendance_daily: <<user_id, day>> -> its row, or None
          rule_row,     \* attendance_rule_settings, id 1, or None
          plan,         \* self.plan_start, self.plan_end
          ensure_locks, \* keys whose asyncio.Lock is held
          gens,         \* generation -> what its coroutine holds at an await
          rules,        \* request for the rule -> likewise
          moment        \* index of the present in Clock
generationVars == <<attendances, daily, ensure_locks, gens, moment>>
ruleVars == <<rule_row, plan, rules>>
vars == <<generationVars, ruleVars, cacheVars>>

Gen == [pc : {"idle", "lock", "advisory", "rule", "rule_commit", "punches", "existing", "users",
              "years", "year", "holidays", "delete", "blocked", "commit", "answer"},
        key : Keys, force : BOOLEAN,
        advisory : BOOLEAN,                   \* its transaction holds the advisory lock
        upto : 0 .. LastDay,                  \* end_date
        saw : SUBSET Punches,                 \* attendance_rows
        todo : SUBSET Users,                  \* users whose days are not deleted yet
        workdays : [Days -> BOOLEAN],
        built : [Users -> Rule \cup {None}],  \* the rule its new rows were built under
        snapshot : SUBSET UserDays,           \* rows that a DELETE that waits has seen
        deleted : SUBSET UserDays]
Idle == [pc |-> "idle", key |-> None, force |-> FALSE, advisory |-> FALSE, upto |-> 0, saw |-> {},
         todo |-> {}, workdays |-> [d \in Days |-> TRUE], built |-> [u \in Users |-> None],
         snapshot |-> {}, deleted |-> {}]

\* A row with its place in the order of commits.  History: the user whose
\* recalculation built it, if one did, and the punches it was built from.
DailyRow == [id : Nat, record : DailyRecords, recalculated : Keys, punches : SUBSET Punches]

ASSUME NoRowAssumption == None \notin DailyRow

RuleRequest == [pc : {"idle", "get", "commit"}, body : RuleBodies \cup {None},
                loaded : Rule \cup {None}]
NoRuleRequest == [pc |-> "idle", body |-> None, loaded |-> None]

TypeOK ==
  /\ CacheTypeOK
  /\ attendances \subseteq Punches
  /\ daily \in [UserDays -> DailyRow \cup {None}]
  /\ rule_row \in Rule \cup {None} /\ plan \in Rule
  /\ ensure_locks \subseteq Keys
  /\ gens \in [Generations -> Gen]
  /\ rules \in [RuleRequests -> RuleRequest]
  /\ moment \in 1 .. Len(Clock)

-----------------------------------------------------------------------------
(* The rows that a generation writes *)

Written(q) == {k \in UserDays : q.built[k[1]] # None /\ k[2] <= q.upto}

PunchesOf(q, k) == {p \in q.saw : PunchAt[p].user_id = k[1] /\ PunchAt[p].day = k[2]}
EarliestOf(T) == CHOOSE t \in T : \A s \in T : t <= s
LatestOf(T) == CHOOSE t \in T : \A s \in T : s <= t

NewRow(q, k, id) ==
  LET S == PunchesOf(q, k)  T == {PunchAt[p].second : p \in S} IN
  [id |-> id, recalculated |-> IF q.force THEN q.key ELSE None, punches |-> S,
   record |-> BuildDailyRecord(Cardinality(S), EarliestOf(T), LatestOf(T), q.workdays[k[2]], q.built[k[1]])]

(* A new installation, or one whose month has been listed before. *)
Listed ==
  LET upto == EffectiveEnd(Clock[1].day, Clock[1].second, DefaultRule.plan_end, LastDay)
      saw == {p \in Earlier : PunchAt[p].day <= upto /\ PunchAt[p].user_id \in Registered}
      q == [Idle EXCEPT !.upto = upto, !.saw = saw, !.workdays = WorkdayMap,
              !.built = [u \in Users |-> IF \E p \in saw : PunchAt[p].user_id = u THEN DefaultRule ELSE None]]
  IN [k \in UserDays |-> IF k \in Written(q) THEN NewRow(q, k, 1) ELSE None]

Init ==
  /\ CacheInit
  /\ attendances = Earlier
  /\ \/ rule_row = None /\ daily = [k \in UserDays |-> None]
     \/ rule_row = DefaultRule /\ daily = Listed
  /\ plan = DefaultRule
  /\ ensure_locks = {}
  /\ gens = [g \in Generations |-> Idle]
  /\ rules = [x \in RuleRequests |-> NoRuleRequest]
  /\ moment = 1

-----------------------------------------------------------------------------
(* The environment *)

(* A synchronisation of the attendance logs commits a punch. *)
PunchArrives(p) ==
  /\ p \notin attendances /\ PunchAt[p].day <= Clock[moment].day
  /\ attendances' = attendances \cup {p}
  /\ UNCHANGED <<daily, ensure_locks, gens, moment, ruleVars, cacheVars>>

TimePasses ==
  /\ moment < Len(Clock)
  /\ moment' = moment + 1
  /\ UNCHANGED <<attendances, daily, ensure_locks, gens, ruleVars, cacheVars>>

-----------------------------------------------------------------------------
(* ensure_monthly_records *)

Put(g, q) == gens' = [gens EXCEPT ![g] = q]

(* A listing, a summary or an export asks for the records of all or of     *)
(* those who match a keyword; a recalculation forces them.                 *)
Generate(g, key, force) ==
  /\ gens[g] = Idle /\ g = (CHOOSE h \in Generations : gens[h] = Idle)
  /\ Request
  /\ Put(g, [Idle EXCEPT !.pc = "lock", !.key = key, !.force = force])
  /\ UNCHANGED <<attendances, daily, ensure_locks, moment, ruleVars, calendar, tx, managerVars, views, cacheSettingsVars>>

AcquireLock_Skipped(g) ==   \* mutated form: without the asyncio.Lock
  /\ gens[g].pc = "lock"
  /\ ensure_locks' = ensure_locks
  /\ Put(g, [gens[g] EXCEPT !.pc = "advisory"])
  /\ UNCHANGED <<attendances, daily, moment, ruleVars, cacheVars>>

AcquireLock(g) ==
  /\ gens[g].pc = "lock" /\ gens[g].key \notin ensure_locks
  /\ ensure_locks' = ensure_locks \cup {gens[g].key}
  /\ Put(g, [gens[g] EXCEPT !.pc = "advisory"])
  /\ UNCHANGED <<attendances, daily, moment, ruleVars, cacheVars>>

(* pg_advisory_xact_lock: until the transaction ends, which every commit   *)
(* does, and an early return does not.                                     *)
AcquireGenerationLock(g) ==
  /\ gens[g].pc = "advisory"
  /\ \A h \in Generations : ~(gens[h].advisory /\ gens[h].key = gens[g].key)
  /\ Put(g, [gens[g] EXCEPT !.pc = "rule", !.advisory = TRUE])
  /\ UNCHANGED <<attendances, daily, ensure_locks, moment, ruleVars, cacheVars>>

(* The rule is applied to the service, and the days that count follow.     *)
WithRule(g, q, rule) ==
  /\ plan' = rule
  /\ Put(g, [q EXCEPT !.pc = "punches",
             !.upto = EffectiveEnd(Clock[moment].day, Clock[moment].second, rule.plan_end, LastDay)])

LoadRule(g) ==
  /\ gens[g].pc = "rule"
  /\ IF rule_row = None THEN Put(g, [gens[g] EXCEPT !.pc = "rule_commit"]) /\ UNCHANGED plan
     ELSE WithRule(g, gens[g], rule_row)
  /\ UNCHANGED <<attendances, daily, ensure_locks, moment, rule_row, rules, cacheVars>>

(* The row is inserted; who comes second violates the primary key. *)
CreateRule(g) ==
  /\ gens[g].pc = "rule_commit" /\ rule_row = None
  /\ rule_row' = DefaultRule
  /\ WithRule(g, [gens[g] EXCEPT !.advisory = FALSE], DefaultRule)
  /\ UNCHANGED <<attendances, daily, ensure_locks, moment, rules, cacheVars>>

Answer_KeepsLock(g, q) ==   \* mutated form: a return before the end of the block
  Put(g, [q EXCEPT !.pc = "answer"]) /\ ensure_locks' = ensure_locks

(* The generation is over; the session stays open for the answer.          *)
Answer(g, q) == Put(g, [q EXCEPT !.pc = "answer"]) /\ ensure_locks' = ensure_locks \ {q.key}

Wanted(q) == IF q.key = None THEN Users ELSE {q.key}

(* Without a punch there is nothing to build; a recalculation of one user  *)
(* removes the records.                                                    *)
ReadPunches(g) ==
  LET q == gens[g]
      seen == {p \in attendances : PunchAt[p].user_id \in Wanted(q) /\ PunchAt[p].day <= q.upto}
  IN
  /\ q.pc = "punches"
  /\ CASE seen = {} /\ ~(q.force /\ q.key # None) -> Answer(g, q)
       [] seen = {} /\ q.force /\ q.key # None ->
            Put(g, [q EXCEPT !.pc = "delete", !.todo = {q.key}]) /\ UNCHANGED ensure_locks
       [] seen # {} ->
            /\ Put(g, [q EXCEPT !.pc = IF q.force THEN "users" ELSE "existing", !.saw = seen,
                                !.todo = {PunchAt[p].user_id : p \in seen}])
            /\ UNCHANGED ensure_locks
  /\ UNCHANGED <<attendances, daily, moment, ruleVars, cacheVars>>

(* get_existing_user_ids: who has a record of any of the days is left out. *)
SkipExisting(g) ==
  LET q == gens[g]
      left == {u \in q.todo : \A d \in 1 .. q.upto : daily[<<u, d>>] = None}
  IN
  /\ q.pc = "existing"
  /\ IF left = {} THEN Answer(g, q)
     ELSE Put(g, [q EXCEPT !.pc = "users", !.todo = left]) /\ UNCHANGED ensure_locks
  /\ UNCHANGED <<attendances, daily, moment, ruleVars, cacheVars>>

SelectUsers(g) ==
  LET q == gens[g]  users == q.todo \cap Registered IN
  /\ q.pc = "users"
  /\ IF users = {} THEN Answer(g, q)
     ELSE Put(g, [q EXCEPT !.pc = "years", !.todo = users]) /\ UNCHANGED ensure_locks
  /\ UNCHANGED <<attendances, daily, moment, ruleVars, cacheVars>>

-----------------------------------------------------------------------------
(* get_workday_map, in the generation's session *)

ListYears(g) ==
  /\ gens[g].pc = "years"
  /\ \/ calendar = NoRows /\ FetchYear(g) /\ Put(g, [gens[g] EXCEPT !.pc = "year"])
     \/ UNCHANGED tx /\ Put(g, [gens[g] EXCEPT !.pc = "holidays"])
  /\ UNCHANGED <<attendances, daily, ensure_locks, moment, ruleVars,
                 calendar, managerVars, views, cacheSettingsVars, started>>

YearStatement(g) ==
  /\ gens[g].pc = "year"
  /\ \/ (DeleteYear(g) \/ WakeDelete(g)) /\ UNCHANGED gens
     \/ CommitYear(g, NoTx) /\ Put(g, [gens[g] EXCEPT !.pc = "holidays", !.advisory = FALSE])
  /\ UNCHANGED <<attendances, daily, ensure_locks, moment, ruleVars,
                 managerVars, views, cacheSettingsVars, started>>

(* An error is swallowed, without a rollback of the session. *)
YearError(g) ==
  /\ gens[g].pc = "year"
  /\ YearFails(g, Doomed) /\ Put(g, [gens[g] EXCEPT !.pc = "holidays", !.advisory = FALSE])
  /\ UNCHANGED <<attendances, daily, ensure_locks, moment, ruleVars,
                 managerVars, views, cacheSettingsVars, started>>

-----------------------------------------------------------------------------
(* The loop over the users *)

Next1(S) == CHOOSE u \in S : \A w \in S : u <= w

(* The rows of the next user are built before their place is emptied; they *)
(* are inserted at the commit.                                             *)
BuildNext(q) ==
  IF q.todo = {} THEN [q EXCEPT !.pc = "commit"]
  ELSE [q EXCEPT !.pc = "delete", !.built[Next1(q.todo)] = plan]

ListHolidays(g) ==
  /\ gens[g].pc = "holidays" /\ tx[g].pc # "doomed"
  /\ Put(g, BuildNext([gens[g] EXCEPT !.workdays = WorkdayMap]))
  /\ UNCHANGED <<attendances, daily, ensure_locks, moment, ruleVars, cacheVars>>

RowsOf(u, upto) == {k \in {u} \X (1 .. upto) : daily[k] # None}
DeletedByOthers(g) == UNION {gens[h].deleted : h \in Generations \ {g}}

DeleteRecords_Committed(g) ==   \* mutated form: the DELETE is committed on its own
  LET q == gens[g]  u == Next1(q.todo)  rows == RowsOf(u, q.upto) IN
  /\ q.pc = "delete"
  /\ daily' = [k \in UserDays |-> IF k \in rows THEN None ELSE daily[k]]
  /\ Put(g, BuildNext([q EXCEPT !.todo = @ \ {u}]))
  /\ UNCHANGED <<attendances, ensure_locks, moment, ruleVars, cacheVars>>

(* The DELETE of delete_records and of replace_records waits for whoever   *)
(* has deleted one of the rows it sees.                                    *)
DeleteRecords(g) ==
  LET q == gens[g]  u == Next1(q.todo)  rows == RowsOf(u, q.upto) IN
  /\ q.pc = "delete"
  /\ Put(g, IF rows \cap DeletedByOthers(g) # {}
            THEN [q EXCEPT !.pc = "blocked", !.snapshot = rows]
            ELSE BuildNext([q EXCEPT !.todo = @ \ {u}, !.deleted = @ \cup rows]))
  /\ UNCHANGED <<attendances, daily, ensure_locks, moment, ruleVars, cacheVars>>

(* It goes on with those of them that are still there. *)
WakeRecords(g) ==
  LET q == gens[g] IN
  /\ q.pc = "blocked" /\ q.snapshot \cap DeletedByOthers(g) = {}
  /\ Put(g, BuildNext([q EXCEPT !.todo = @ \ {Next1(q.todo)}, !.snapshot = {},
                                !.deleted = @ \cup q.snapshot]))
  /\ UNCHANGED <<attendances, daily, ensure_locks, moment, ruleVars, cacheVars>>

(* Rows that were not there when it deleted: uq_attendance_daily_user_date *)
Collides(q) == \E k \in Written(q) : daily[k] # None /\ k \notin q.deleted

LatestId == LatestOf({0} \cup {daily[k].id : k \in {k \in UserDays : daily[k] # None}})

StoreRecords_KeepExisting(q) ==   \* mutated form: INSERT ... ON CONFLICT DO NOTHING
  daily' = [k \in UserDays |-> IF k \in Written(q) /\ daily[k] = None THEN NewRow(q, k, LatestId + 1) ELSE daily[k]]

StoreRecords(q) ==
  daily' = [k \in UserDays |-> IF k \in Written(q) THEN NewRow(q, k, LatestId + 1)
                               ELSE IF k \in q.deleted THEN None ELSE daily[k]]

(* INSERT and COMMIT; a DELETE that waits for rows passes over new ones. *)
Commit(g, after) ==
  LET q == gens[g]  gone == q.deleted \cup Written(q) IN
  /\ q.pc = "commit" /\ ~Collides(q)
  /\ StoreRecords(q)
  /\ gens' = [h \in Generations |-> IF h = g THEN after
                                    ELSE [gens[h] EXCEPT !.snapshot = @ \ gone]]

CommitRecords(g) ==
  /\ Commit(g, [gens[g] EXCEPT !.pc = "answer", !.advisory = FALSE, !.deleted = {}])
  /\ ensure_locks' = ensure_locks \ {gens[g].key}
  /\ UNCHANGED <<attendances, moment, ruleVars, cacheVars>>

FailGeneration_KeepsLock(g) ==   \* mutated form: the lock is not released by an exception
  /\ gens[g].pc \notin {"idle", "lock", "answer", "year"}
  /\ Put(g, Idle) /\ PutTx(g, NoTx)
  /\ UNCHANGED <<attendances, daily, ensure_locks, moment, ruleVars,
                 calendar, managerVars, views, cacheSettingsVars, started>>

(* The database cannot do what it is asked. *)
Refused(g) ==
  \/ gens[g].pc = "rule_commit" /\ rule_row # None
  \/ gens[g].pc = "holidays" /\ tx[g].pc = "doomed"
  \/ gens[g].pc = "commit" /\ Collides(gens[g])

(* A statement is refused or fails, or the answer to a COMMIT is lost: the *)
(* request fails, the lock is released, the session is closed.             *)
FailGeneration(g) ==
  /\ gens[g].pc \notin {"idle", "lock", "answer", "year"}
  /\ \/ Put(g, Idle) /\ UNCHANGED daily
     \/ Commit(g, Idle)
  /\ ensure_locks' = ensure_locks \ {gens[g].key}
  /\ PutTx(g, NoTx)
  /\ UNCHANGED <<attendances, moment, ruleVars, calendar, managerVars, views, cacheSettingsVars, started>>

(* The page, its count and the summary are read, and the session closed. *)
CloseAnswer(g) ==
  /\ gens[g].pc = "answer"
  /\ Put(g, Idle)
  /\ UNCHANGED <<attendances, daily, ensure_locks, moment, ruleVars, cacheVars>>

-----------------------------------------------------------------------------
(* The rule *)

PutRule(x, q) == rules' = [rules EXCEPT ![x] = q]

(* get_rule_settings (no body) and update_rule_settings. *)
AskForRule(x, body) ==
  /\ rules[x] = NoRuleRequest
  /\ Request
  /\ PutRule(x, [NoRuleRequest EXCEPT !.pc = "get", !.body = body])
  /\ UNCHANGED <<generationVars, rule_row, plan, calendar, tx, managerVars, views, cacheSettingsVars>>

GetRule(x) ==
  LET q == rules[x] IN
  /\ q.pc = "get"
  /\ IF q.body = None /\ rule_row # None
     THEN plan' = rule_row /\ PutRule(x, NoRuleRequest)
     ELSE PutRule(x, [q EXCEPT !.pc = "commit", !.loaded = rule_row]) /\ UNCHANGED plan
  /\ UNCHANGED <<generationVars, rule_row, cacheVars>>

(* An UPDATE writes the columns that differ from the loaded ones. *)
SavedRule(q, wanted) ==
  IF q.loaded = None THEN wanted
  ELSE [f \in DOMAIN wanted |-> IF wanted[f] # q.loaded[f] THEN wanted[f] ELSE rule_row[f]]

CommitRule(x) ==
  LET q == rules[x]  wanted == IF q.body = None THEN DefaultRule ELSE q.body IN
  /\ q.pc = "commit" /\ (q.loaded = None => rule_row = None)
  /\ rule_row' = SavedRule(q, wanted)
  /\ plan' = wanted
  /\ PutRule(x, NoRuleRequest)
  /\ UNCHANGED <<generationVars, cacheVars>>

RuleRefused(x) == rules[x].pc = "commit" /\ rules[x].loaded = None /\ rule_row # None

FailRule(x) ==
  /\ rules[x].pc # "idle"
  /\ PutRule(x, NoRuleRequest)
  /\ UNCHANGED <<generationVars, rule_row, plan, cacheVars>>

-----------------------------------------------------------------------------
\* What is sure to go on: errors are, if the database has a reason to refuse.
Step(g) ==
  \/ AcquireLock(g) \/ AcquireGenerationLock(g) \/ LoadRule(g) \/ CreateRule(g) \/ ReadPunches(g)
  \/ SkipExisting(g) \/ SelectUsers(g) \/ ListYears(g) \/ YearStatement(g) \/ ListHolidays(g)
  \/ DeleteRecords(g) \/ WakeRecords(g) \/ CommitRecords(g) \/ CloseAnswer(g)
  \/ (Refused(g) /\ FailGeneration(g)) \/ (YearRefused(g) /\ YearError(g))

RuleStep(x) == GetRule(x) \/ CommitRule(x) \/ (RuleRefused(x) /\ FailRule(x))

Work ==
  \/ \E g \in Generations : Step(g)
  \/ \E x \in RuleRequests : RuleStep(x)
  \/ CacheWork /\ UNCHANGED <<generationVars, ruleVars>>

Restart ==
  /\ CacheRestart
  /\ gens' = [g \in Generations |-> Idle] /\ ensure_locks' = {}
  /\ rules' = [x \in RuleRequests |-> NoRuleRequest] /\ plan' = DefaultRule
  /\ UNCHANGED <<attendances, daily, moment, rule_row>>

Next ==
  \/ Work
  \/ CacheNext /\ UNCHANGED <<generationVars, ruleVars>>
  \/ \E p \in Punches : PunchArrives(p)
  \/ TimePasses
  \/ \E g \in Generations : \/ \E key \in Keys, force \in BOOLEAN : Generate(g, key, force)
                            \/ FailGeneration(g) \/ YearError(g)
  \/ \E x \in RuleRequests : (\E body \in RuleBodies \cup {None} : AskForRule(x, body)) \/ FailRule(x)
  \/ Restart

Spec == Init /\ [][Next]_vars

(* The event loop resumes coroutines as long as there is one whose await   *)
(* is over, and the database carries out or refuses what it can.  No error *)
(* that comes from elsewhere is needed to get anybody on.                  *)
FairSpec == Spec /\ WF_vars(Work)

-----------------------------------------------------------------------------
(* Properties *)

(* A record goes only to make room for its successor, in the same commit,  *)
(* or because a recalculation of its user found no punch: whatever fails   *)
(* or collides between a DELETE and the commit leaves the month as it was  *)
(* (attendance_record.py:166-211, repositories/attendance.py:136-151).     *)
RecordsSurvive ==
  [][\A k \in UserDays : daily[k] # None /\ daily'[k] = None =>
       \E g \in Generations : /\ gens[g].pc = "commit" /\ gens[g].key = k[1]
                              /\ gens[g].force /\ gens[g].saw = {}]_vars

(* A generation writes a user's whole month up to its last day: of two     *)
(* days, the earlier is never the older (attendance_record.py:193-209).    *)
NoOlderBeneath ==
  \A u \in Users : \A d, e \in 1 .. LastDay :
    d < e /\ daily[<<u, d>>] # None /\ daily[<<u, e>>] # None => daily[<<u, d>>].id >= daily[<<u, e>>].id

(* Recalculations of one user take effect in the order in which they read: *)
(* none undoes another that knew more punches of the day, although the     *)
(* advisory lock is given back by the first commit of each                 *)
(* (attendance_record.py:126-137).                                         *)
RecalculationsInOrder ==
  [][\A k \in UserDays :
       (daily[k] # None /\ daily[k].recalculated = k[1])
         => \/ daily'[k] = None \/ daily'[k].recalculated # k[1]
            \/ daily[k].punches \subseteq daily'[k].punches]_vars

(* The figures of the month account for every working day once: present or *)
(* absent, however its records came to be (repositories/attendance.py:     *)
(* 227-265, attendance_record.py:213-290).                                 *)
SummaryAddsUp ==
  LET K == {k \in UserDays : daily[k] # None}
      summary == MonthlySummary([k \in K |-> daily[k].record], K)
  IN summary.workday_count = summary.attendance_days + summary.absence_count

\* A generation is inside `async with` of its key's lock; a session is in a
\* call of refresh_year.
Holding(q) == q.pc \notin {"idle", "lock", "answer"}
AtYear(s) ==
  \/ s \in Refreshes /\ refreshes[s] = "refresh"
  \/ s \in Views /\ views[s] = "refresh"
  \/ s \in Generations /\ gens[s].pc = "year"

\* What h has, to give back, is what s needs to go on.
WaitsFor(s, h) ==
  \/ /\ {s, h} \subseteq Generations
     /\ \/ gens[s].pc = "lock" /\ Holding(gens[h]) /\ gens[h].key = gens[s].key
        \/ gens[s].pc = "advisory" /\ gens[h].advisory /\ gens[h].key = gens[s].key
        \/ gens[s].pc = "blocked" /\ h # s /\ gens[s].snapshot \cap gens[h].deleted # {}
  \/ tx[s].pc = "waiting" /\ tx[h].locks /\ AtYear(h)

Waiting(s) ==
  \/ /\ s \in Generations
     /\ \/ gens[s].pc = "lock" /\ gens[s].key \in ensure_locks
        \/ gens[s].pc = "advisory" /\ \E h \in Generations : gens[h].advisory /\ gens[h].key = gens[s].key
        \/ gens[s].pc = "blocked" /\ gens[s].snapshot \cap DeletedByOthers(s) # {}
  \/ tx[s].pc = "waiting" /\ YearLocked

(* Whoever has to wait, for the lock of a key, for the advisory lock, for  *)
(* rows of records or of the calendar, waits for somebody who is at work;  *)
(* and among any who wait there is one who waits for none of the others.   *)
(* So locks are given back whatever fails, and there is no deadlock        *)
(* between the four kinds of locks, which every generation takes in its    *)
(* own time (attendance_record.py:106-137, 166-211, workday.py:60-78).     *)
NobodyWaitsInVain ==
  \A S \in SUBSET {s \in Sessions : Waiting(s)} :
    S # {} => \E s \in S : /\ \E h \in Sessions : WaitsFor(s, h)
                          /\ \A h \in S : ~WaitsFor(s, h)

(* Every request for records, for the rule or for the calendar and every  *)
(* refresh ends: the workload is bounded, so in the end nobody is at work, *)
(* no lock is held and the flag is down.  Locks are given back whatever    *)
(* fails, and nobody waits for somebody who waits.                         *)
RequestsEnd ==
  <>[](/\ \A g \in Generations : gens[g].pc = "idle"
       /\ \A x \in RuleRequests : rules[x].pc = "idle"
       /\ \A v \in Views : views[v] = "idle"
       /\ ensure_locks = {} /\ ~running)

(* "上班时间必须早于下班时间" (attendance_record.py:81): work begins       *)
(* before it ends, in the row that the next request applies.               *)
RuleIsOrdered == rule_row # None => rule_row.plan_start < rule_row.plan_end
=============================================================================
