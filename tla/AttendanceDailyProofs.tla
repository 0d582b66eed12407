----------------------- MODULE AttendanceDailyProofs -----------------------
(***************************************************************************)
(* Theorems about AttendanceDaily, for any users, punches, requests and    *)
(* answers of the holiday API.  The calendar with its refreshes and the    *)
(* records with their generations are treated apart: no invariant of the   *)
(* one speaks of the other's variables.                                    *)
(***************************************************************************)
EXTENDS AttendanceDaily, FiniteSetTheorems, TLAPS

-----------------------------------------------------------------------------
(* The first and the last of a set of times *)

LEMMA EarliestExists ==
  ASSUME NEW T \in SUBSET Nat, T # {}
  PROVE  EarliestOf(T) \in T /\ \A s \in T : EarliestOf(T) <= s
<1> DEFINE R == OpToRel(<, Nat)
<1>1. IsWellFoundedOn(R, Nat)
  BY NatLessThanWellFounded
<1>2. \A x, y \in Nat : x < y => <<x, y>> \in R
  BY DEF OpToRel
<1>3. PICK t \in T : \A s \in T : ~(<<s, t>> \in R)
  <2> HIDE DEF R
  <2> QED BY <1>1, WFMin
<1>4. ASSUME NEW s \in T PROVE t <= s
  <2>1. s \in Nat /\ t \in Nat
    OBVIOUS
  <2>2. ~(s < t)
    <3> HIDE DEF R
    <3> QED BY <1>2, <1>3, <2>1
  <2> QED BY <2>1, <2>2
<1> QED
  BY <1>4 DEF EarliestOf

(* The one above which there are fewest. *)
LEMMA LatestExists ==
  ASSUME NEW T \in SUBSET Nat, IsFiniteSet(T), T # {}
  PROVE  LatestOf(T) \in T /\ \A s \in T : s <= LatestOf(T)
<1> DEFINE Above(i) == {s \in T : s > i}
           R == StrictSubsetOrdering(T)
           F == {Above(i) : i \in T}
<1>1. IsWellFoundedOn(R, FiniteSubsetsOf(T))
  BY FS_StrictSubsetOrderingWellFounded
<1>2. F \subseteq FiniteSubsetsOf(T) /\ F # {}
  <2>1. \A i \in T : Above(i) \in SUBSET T
    OBVIOUS
  <2>2. \A i \in T : IsFiniteSet(Above(i))
    <3> HIDE DEF Above
    <3> QED BY <2>1, FS_Subset
  <2> HIDE DEF Above
  <2> QED BY <2>1, <2>2 DEF FiniteSubsetsOf
<1>3. PICK A \in F : \A B \in F : ~(<<B, A>> \in R)
  <2> HIDE DEF R, F
  <2> QED BY <1>1, <1>2, WFMin
<1>4. PICK i \in T : A = Above(i)
  OBVIOUS
<1>5. ASSUME NEW s \in T, s > i PROVE FALSE
  <2>0. s \in Nat /\ i \in Nat /\ T \subseteq Nat
    OBVIOUS
  <2>1. Above(s) \subseteq Above(i) /\ s \in Above(i) /\ s \notin Above(s)
    <3>1. ASSUME NEW x \in Above(s) PROVE x \in Above(i)
      BY <1>5, <2>0
    <3>2. ~(s > s)
      BY <2>0
    <3> QED BY <1>5, <3>1, <3>2
  <2>2. <<Above(s), A>> \in R
    <3>1. Above(s) \in SUBSET T /\ Above(i) \in SUBSET T
      OBVIOUS
    <3> HIDE DEF Above
    <3> QED BY <1>4, <2>1, <3>1 DEF StrictSubsetOrdering
  <2> QED
    BY <1>3, <2>2
<1>6. \A s \in T : s <= i
  BY <1>5
<1> QED
  BY <1>6 DEF LatestOf

-----------------------------------------------------------------------------
(* The record of a day *)

LEMMA MinutesAreNatural ==
  ASSUME NEW from \in Seconds, NEW to \in Seconds
  PROVE  MinutesBetween(from, to) \in Nat
  BY DEF MinutesBetween, Seconds

(* What the figures of the month rely on. *)
Accounted(r) == (r.is_workday => r.status \in 1 .. 6) /\ (r.status = 4 => r.is_workday)

LEMMA RecordOfDay ==
  ASSUME NEW n \in Nat, NEW first, NEW last, n > 0 => first \in Seconds /\ last \in Seconds,
         NEW is_workday \in BOOLEAN, NEW rule \in Rule
  PROVE  /\ BuildDailyRecord(n, first, last, is_workday, rule) \in DailyRecords
         /\ Accounted(BuildDailyRecord(n, first, last, is_workday, rule))
<1> DEFINE late == IF is_workday /\ n > 0 THEN MinutesBetween(rule.plan_start, first) ELSE 0
           early == IF is_workday /\ n > 1 THEN MinutesBetween(last, rule.plan_end) ELSE 0
           work == IF n > 1 THEN MinutesBetween(first, last) ELSE 0
           over == IF ~is_workday THEN work
                   ELSE IF n > 1 THEN MinutesBetween(rule.plan_end, last) ELSE 0
           status == StatusOf(n, is_workday, late, early)
<1>1. rule.plan_start \in Seconds /\ rule.plan_end \in Seconds
  BY DEF Rule
<1>2. late \in Nat /\ early \in Nat /\ work \in Nat /\ over \in Nat
  BY <1>1, MinutesAreNatural
<1>3. /\ status \in 1 .. 7
      /\ is_workday => status \in 1 .. 6
      /\ status = 4 => is_workday
  <2> HIDE DEF late, early
  <2>1. CASE n = 0 BY <2>1 DEF StatusOf
  <2>2. CASE n = 1 BY <2>2 DEF StatusOf
  <2>3. CASE n >= 2 /\ ~is_workday BY <2>3 DEF StatusOf
  <2>4. CASE n >= 2 /\ is_workday BY <2>4 DEF StatusOf
  <2> QED BY <2>1, <2>2, <2>3, <2>4
<1>4. BuildDailyRecord(n, first, last, is_workday, rule)
        = [status |-> status, is_workday |-> is_workday, plan_start |-> rule.plan_start,
           plan_end |-> rule.plan_end, late_minutes |-> late, early_minutes |-> early,
           work_minutes |-> work, overtime_minutes |-> over]
  BY DEF BuildDailyRecord
<1> HIDE DEF late, early, work, over, status
<1> QED
  BY <1>1, <1>2, <1>3, <1>4 DEF DailyRecords, Accounted

RowOK(r, k) ==
  /\ Accounted(r.record)
  /\ \A p \in r.punches : PunchAt[p].user_id = k[1] /\ PunchAt[p].day = k[2]

LEMMA NewRowTyped ==
  ASSUME NEW q \in Gen, NEW k \in UserDays, NEW id \in Nat, q.built[k[1]] # None
  PROVE  /\ NewRow(q, k, id) \in DailyRow
         /\ RowOK(NewRow(q, k, id), k)
         /\ NewRow(q, k, id).id = id
         /\ NewRow(q, k, id).punches = PunchesOf(q, k)
         /\ NewRow(q, k, id).recalculated = IF q.force THEN q.key ELSE None
<1> DEFINE S == PunchesOf(q, k)
           T == {PunchAt[p].second : p \in S}
           rec == BuildDailyRecord(Cardinality(S), EarliestOf(T), LatestOf(T), q.workdays[k[2]], q.built[k[1]])
<1>1. /\ k[1] \in Users /\ k[2] \in Days
      /\ q.built[k[1]] \in Rule /\ q.workdays[k[2]] \in BOOLEAN
      /\ q.saw \subseteq Punches /\ q.force \in BOOLEAN /\ q.key \in Keys
  BY AttendanceDailyAssumption DEF Gen, UserDays
<1>2. S \subseteq Punches /\ IsFiniteSet(S)
  BY <1>1, AttendanceDailyAssumption, FS_Subset DEF PunchesOf
<1>3. Cardinality(S) \in Nat /\ (Cardinality(S) > 0 => S # {})
  BY <1>2, FS_CardinalityType, FS_EmptySet
<1>4. T \subseteq Seconds /\ Seconds \subseteq Nat
  <2>1. \A p \in S : PunchAt[p].second \in Seconds
    BY <1>2, AttendanceDailyAssumption
  <2> HIDE DEF S
  <2>2. T \subseteq Seconds
    BY <2>1
  <2>3. Seconds \subseteq Nat
    BY DEF Seconds
  <2> QED BY <2>2, <2>3
<1>5. IsFiniteSet(T)
  <2> DEFINE Second(p) == PunchAt[p].second
  <2>1. IsFiniteSet({Second(p) : p \in S})
    <3> DEFINE f == [p \in S |-> Second(p)]
    <3>1. f \in Surjection(S, {Second(p) : p \in S})
      BY DEF Surjection
    <3> HIDE DEF f, S, Second
    <3> QED BY <1>2, <3>1, FS_Surjection
  <2> QED BY <2>1
<1>6. S # {} => EarliestOf(T) \in Seconds /\ LatestOf(T) \in Seconds
  <2>1. S # {} => T # {}
    OBVIOUS
  <2> HIDE DEF T, S
  <2> QED BY <1>4, <1>5, <2>1, EarliestExists, LatestExists
<1>7. rec \in DailyRecords /\ Accounted(rec)
  <2> HIDE DEF S, T
  <2> QED BY <1>1, <1>3, <1>6, RecordOfDay
<1>8. NewRow(q, k, id) = [id |-> id, recalculated |-> IF q.force THEN q.key ELSE None,
                          punches |-> S, record |-> rec]
  BY DEF NewRow
<1>9. \A p \in S : PunchAt[p].user_id = k[1] /\ PunchAt[p].day = k[2]
  BY DEF PunchesOf
<1>10. S = PunchesOf(q, k)
  OBVIOUS
<1> HIDE DEF S, T, rec
<1> QED
  BY <1>1, <1>2, <1>7, <1>8, <1>9, <1>10 DEF DailyRow, RowOK, Keys

-----------------------------------------------------------------------------
(* The calendar and its refreshes *)

Busy(s) == tx[s].pc \in {"delete", "waiting", "commit"}

\* One refresh holds the flag, and only the session of one that is past the
\* fetch has a call of refresh_year under way.
FlagInv ==
  /\ \A t, w \in Refreshes : Refreshing(t) /\ Refreshing(w) => t = w
  /\ running = \E t \in Refreshes : Refreshing(t)
  /\ \A t \in Refreshes : Busy(t) => refreshes[t] = "refresh"

CacheSafe == CacheTypeOK /\ FlagInv /\ JobSurvivesRestart

\* What one session does with the year.
TxMove(s) ==
  \/ UNCHANGED <<calendar, tx>>
  \/ FetchYear(s) /\ UNCHANGED calendar
  \/ DeleteYear(s) \/ WakeDelete(s)
  \/ CommitYear(s, NoTx) \/ YearFails(s, NoTx) \/ YearFails(s, Doomed)
  \/ PutTx(s, NoTx) /\ UNCHANGED calendar

CalendarKept ==
  calendar # NoRows /\ calendar' = NoRows =>
    \E s \in Sessions : tx[s].pc = "commit" /\ tx[s].answer = NoRows

TxKept(s) ==
  /\ calendar' \in Answers \cup {NoRows}
  /\ tx' \in [Sessions -> Tx]
  /\ \A w \in Sessions \ {s} : Busy(w)' => Busy(w)
  /\ CalendarKept

LEMMA NoTxTyped == NoTx \in Tx /\ Doomed \in Tx /\ NoTx.pc = "none" /\ Doomed.pc = "doomed"
<1>1. NoTx \in Tx /\ NoTx.pc = "none"
  BY DEF NoTx, Tx
<1>2. [NoTx EXCEPT !.pc = "doomed"] \in Tx /\ [NoTx EXCEPT !.pc = "doomed"].pc = "doomed"
  BY <1>1 DEF Tx
<1> QED
  BY <1>1, <1>2 DEF Doomed

LEMMA CommitYearKept ==
  ASSUME CacheTypeOK, NEW s \in Sessions, NEW after \in {NoTx, Doomed}, CommitYear(s, after)
  PROVE  TxKept(s)
<1>1. after \in Tx
  BY NoTxTyped
<1>2. tx \in [Sessions -> Tx] /\ tx[s] \in Tx /\ calendar \in Answers \cup {NoRows}
  BY DEF CacheTypeOK
<1>3. calendar' \in Answers \cup {NoRows} /\ CalendarKept
  BY <1>2 DEF CommitYear, CalendarKept, Tx
<1>4. ASSUME NEW w \in Sessions \ {s}
      PROVE  tx'[w] \in Tx /\ (tx'[w] = tx[w] \/ tx[w].pc = "waiting")
  <2>1. tx[w] \in Tx
    BY <1>2
  <2>2. [tx[w] EXCEPT !.pc = "commit"] \in Tx
    BY <2>1 DEF Tx
  <2> QED
    BY <2>1, <2>2 DEF CommitYear
<1>5. tx'[s] = after
  BY DEF CommitYear
<1>6. tx' \in [Sessions -> Tx]
  <2>1. \E F \in [Sessions -> {tx'[w] : w \in Sessions}] : tx' = F
    BY DEF CommitYear
  <2> QED BY <1>1, <1>4, <1>5, <2>1
<1> QED
  BY <1>3, <1>4, <1>6 DEF TxKept, Busy

LEMMA TxMoveKept ==
  ASSUME CacheTypeOK, NEW s \in Sessions, TxMove(s)
  PROVE  TxKept(s)
<1>1. tx \in [Sessions -> Tx] /\ tx[s] \in Tx /\ calendar \in Answers \cup {NoRows}
  BY DEF CacheTypeOK
<1>2. ASSUME NEW q \in Tx, PutTx(s, q), UNCHANGED calendar
      PROVE  TxKept(s)
  BY <1>1, <1>2 DEF PutTx, TxKept, Busy, CalendarKept
<1>3. CASE UNCHANGED <<calendar, tx>>
  BY <1>1, <1>3 DEF TxKept, Busy, CalendarKept
<1>4. CASE FetchYear(s) /\ UNCHANGED calendar
  <2>1. PICK a \in Answers : PutTx(s, [pc |-> "delete", answer |-> a, locks |-> FALSE])
    BY <1>4 DEF FetchYear
  <2>2. [pc |-> "delete", answer |-> a, locks |-> FALSE] \in Tx
    BY DEF Tx
  <2> QED BY <1>2, <1>4, <2>1, <2>2
<1>5. CASE DeleteYear(s)
  <2> DEFINE q == IF YearLocked THEN [tx[s] EXCEPT !.pc = "waiting"]
                  ELSE [tx[s] EXCEPT !.pc = "commit", !.locks = (calendar # NoRows)]
             b == calendar # NoRows
  <2>0. b \in BOOLEAN /\ b = (calendar # NoRows)
    OBVIOUS
  <2>1. q \in Tx
    <3>1. [tx[s] EXCEPT !.pc = "waiting"] \in Tx
      BY <1>1 DEF Tx
    <3>2. [tx[s] EXCEPT !.pc = "commit", !.locks = b] \in Tx
      <4> HIDE DEF b
      <4> QED BY <1>1, <2>0 DEF Tx
    <3> QED BY <3>1, <3>2
  <2>2. PutTx(s, q) /\ UNCHANGED calendar
    BY <1>5 DEF DeleteYear
  <2> HIDE DEF q
  <2> QED BY <1>2, <2>1, <2>2
<1>6. CASE WakeDelete(s)
  <2>1. [tx[s] EXCEPT !.pc = "commit", !.locks = TRUE] \in Tx
    BY <1>1 DEF Tx
  <2> QED BY <1>2, <1>6, <2>1 DEF WakeDelete
<1>7. CASE CommitYear(s, NoTx)
  BY <1>7, CommitYearKept
<1>8. CASE YearFails(s, NoTx)
  BY <1>2, <1>8, NoTxTyped, CommitYearKept DEF YearFails
<1>9. CASE YearFails(s, Doomed)
  BY <1>2, <1>9, NoTxTyped, CommitYearKept DEF YearFails
<1>10. CASE PutTx(s, NoTx) /\ UNCHANGED calendar
  BY <1>2, <1>10, NoTxTyped
<1> QED
  BY <1>3, <1>4, <1>5, <1>6, <1>7, <1>8, <1>9, <1>10 DEF TxMove

-----------------------------------------------------------------------------
(* The manager: one refresh has the flag *)

\* What a refresh does with the flag and with its place in the code.
FlagMove(t) ==
  \/ UNCHANGED <<running, refreshes>>
  \/ refreshes[t] = "idle" /\ At(t, "queued") /\ UNCHANGED running
  \/ refreshes[t] = "queued" /\ At(t, "idle") /\ UNCHANGED running
  \/ ~Refreshing(t) /\ ~running /\ running' = TRUE /\ (At(t, "start") \/ At(t, "refresh"))
  \/ Refreshing(t) /\ At(t, "refresh") /\ UNCHANGED running
  \/ Refreshing(t) /\ At(t, "idle") /\ running' = FALSE

\* A call begins where its refresh is put past the fetch.
Begun(t) == Busy(t)' => Busy(t) \/ refreshes'[t] = "refresh"
Left(t) == Busy(t)' /\ refreshes[t] = "refresh" => refreshes'[t] = "refresh"

LEMMA FlagMoveKept ==
  ASSUME CacheTypeOK, FlagInv, NEW t \in Refreshes, FlagMove(t), TxKept(t), Begun(t), Left(t)
  PROVE  FlagInv' /\ refreshes' \in [Refreshes -> {"idle", "start", "queued", "refresh"}] /\ running' \in BOOLEAN
<1>1. refreshes \in [Refreshes -> {"idle", "start", "queued", "refresh"}] /\ running \in BOOLEAN
  BY DEF CacheTypeOK
<1>2. \A w \in Refreshes \ {t} : refreshes'[w] = refreshes[w]
  BY <1>1 DEF FlagMove, At
<1>3. refreshes' \in [Refreshes -> {"idle", "start", "queued", "refresh"}] /\ running' \in BOOLEAN
  BY <1>1 DEF FlagMove, At
<1>4. \A w \in Refreshes : Busy(w)' => refreshes'[w] = "refresh"
  <2>1. ASSUME NEW w \in Refreshes \ {t}, Busy(w)' PROVE refreshes'[w] = "refresh"
    <3>1. Busy(w)
      BY <2>1, HolidayCacheAssumption DEF TxKept
    <3> QED BY <1>2, <3>1 DEF FlagInv
  <2>2. Busy(t)' => refreshes'[t] = "refresh"
    BY DEF Begun, Left, FlagInv
  <2> QED BY <2>1, <2>2
<1>5. /\ \A w, x \in Refreshes : Refreshing(w)' /\ Refreshing(x)' => w = x
      /\ running' = \E w \in Refreshes : Refreshing(w)'
  BY <1>1, <1>2 DEF FlagInv, FlagMove, At, Refreshing
<1> QED
  BY <1>3, <1>4, <1>5 DEF FlagInv

Stages == {"idle", "refreshing", "completed", "failed"}
ViewPlaces == {"idle", "has_year", "refresh", "list"}

\* What a refresh, another session and a request for the settings may change.
RefreshMove(t) ==
  /\ TxMove(t) /\ FlagMove(t) /\ Begun(t) /\ Left(t)
  /\ stage' \in Stages /\ started' \in 0 .. MaxRequests
  /\ UNCHANGED <<views, cacheSettingsVars>>
SessionMove(s) ==
  /\ TxMove(s)
  /\ views' \in [Views -> ViewPlaces] /\ started' \in 0 .. MaxRequests
  /\ UNCHANGED <<managerVars, cacheSettingsVars>>

CacheMove ==
  \/ \E t \in Refreshes : RefreshMove(t)
  \/ \E s \in Sessions \ Refreshes : SessionMove(s)
  \/ \E body \in CacheBodies : UpdateSettings(body)
  \/ CacheRestart
  \/ Request /\ UNCHANGED <<calendar, tx, managerVars, views, cacheSettingsVars>>

LEMMA RequestCounted == ASSUME CacheTypeOK, Request PROVE started' \in 0 .. MaxRequests
  BY HolidayCacheAssumption DEF CacheTypeOK, Request

LEMMA RefreshMoves ==
  ASSUME CacheTypeOK, FlagInv, NEW t \in Refreshes,
         \/ StartManualRefresh(t) \/ ScheduleJob(t) \/ RefreshFails(t) \/ RunManualRefresh(t)
         \/ RunScheduledRefresh(t) \/ RefreshStatement(t) \/ RefreshDone(t)
  PROVE  RefreshMove(t)
<1>0. /\ stage \in Stages /\ started \in 0 .. MaxRequests /\ t \in Sessions
      /\ tx \in [Sessions -> Tx]
      /\ refreshes \in [Refreshes -> {"idle", "start", "queued", "refresh"}]
      /\ Busy(t) => refreshes[t] = "refresh"
  BY HolidayCacheAssumption DEF CacheTypeOK, FlagInv, Stages
<1>1. CASE StartManualRefresh(t)
  <2>1. started' \in 0 .. MaxRequests /\ UNCHANGED <<tx, calendar>>
    BY <1>1, RequestCounted DEF StartManualRefresh
  <2> QED
    BY <1>0, <1>1, <2>1 DEF StartManualRefresh, RefreshMove, TxMove, FlagMove, Begun, Left, Busy, BeginRun,
      Refreshing, Stages, At
<1>2. CASE ScheduleJob(t)
  <2>1. started' \in 0 .. MaxRequests /\ UNCHANGED <<tx, calendar>>
    BY <1>2, RequestCounted DEF ScheduleJob
  <2> QED
    BY <1>0, <1>2, <2>1 DEF ScheduleJob, RefreshMove, TxMove, FlagMove, Begun, Left, Busy, At
<1>3. ASSUME tx'[t] = NoTx, Busy(t), FailRun \/ FinishRun, At(t, "idle")
      PROVE  FlagMove(t) /\ Begun(t) /\ Left(t) /\ stage' \in Stages
  BY <1>0, <1>3, NoTxTyped DEF FlagMove, Begun, Left, Busy, FailRun, FinishRun, Refreshing, Stages
<1>4. CASE RefreshFails(t)
  <2>1. Busy(t) /\ tx'[t] = NoTx
    BY <1>0, <1>4 DEF RefreshFails, YearFails, Busy, PutTx, CommitYear
  <2>2. TxMove(t)
    BY <1>4 DEF RefreshFails, TxMove
  <2> QED BY <1>0, <1>3, <1>4, <2>1, <2>2 DEF RefreshFails, RefreshMove
<1>5. CASE RefreshDone(t)
  <2>1. Busy(t) /\ tx'[t] = NoTx
    BY <1>0, <1>5 DEF RefreshDone, Busy, CommitYear
  <2>2. TxMove(t)
    BY <1>5 DEF RefreshDone, TxMove
  <2> QED BY <1>0, <1>3, <1>5, <2>1, <2>2 DEF RefreshDone, RefreshMove
<1>6. CASE RunManualRefresh(t)
  <2>1. TxMove(t)
    BY <1>6 DEF RunManualRefresh, TxMove
  <2>2. FlagMove(t) /\ stage' \in Stages
    BY <1>0, <1>6 DEF RunManualRefresh, FlagMove, FailRun, Refreshing, Stages
  <2>3. Begun(t) /\ Left(t)
    BY <1>0, <1>6 DEF RunManualRefresh, Begun, Left, Busy, At
  <2> QED BY <1>0, <1>6, <2>1, <2>2, <2>3 DEF RunManualRefresh, RefreshMove
<1>7. CASE RunScheduledRefresh(t)
  <2>1. TxMove(t)
    BY <1>7 DEF RunScheduledRefresh, TxMove
  <2>2. FlagMove(t) /\ stage' \in Stages
    BY <1>0, <1>7 DEF RunScheduledRefresh, FlagMove, FailRun, BeginRun, Refreshing, Stages, CacheTypeOK
  <2>3. Begun(t) /\ Left(t)
    BY <1>0, <1>7 DEF RunScheduledRefresh, Begun, Left, Busy, At
  <2> QED BY <1>0, <1>7, <2>1, <2>2, <2>3 DEF RunScheduledRefresh, RefreshMove
<1>8. CASE RefreshStatement(t)
  <2>1. TxMove(t)
    BY <1>8 DEF RefreshStatement, TxMove
  <2>2. Busy(t) /\ UNCHANGED managerVars
    BY <1>8 DEF RefreshStatement, DeleteYear, WakeDelete, Busy
  <2>3. FlagMove(t) /\ Begun(t) /\ Left(t)
    BY <2>2 DEF FlagMove, Begun, Left, managerVars
  <2> QED BY <1>0, <1>8, <2>1, <2>2, <2>3 DEF RefreshStatement, RefreshMove, managerVars
<1> QED
  BY <1>1, <1>2, <1>4, <1>5, <1>6, <1>7, <1>8

LEMMA ViewMoves ==
  ASSUME CacheTypeOK, NEW v \in Views,
         \/ OpenView(v) \/ ViewRefreshFails(v) \/ EnsureYearCached(v) \/ ViewStatement(v) \/ CloseView(v)
  PROVE  SessionMove(v)
<1>0. /\ views \in [Views -> ViewPlaces] /\ started \in 0 .. MaxRequests
      /\ \A pc \in ViewPlaces : ViewAt(v, pc) => views' \in [Views -> ViewPlaces]
  BY DEF CacheTypeOK, ViewAt, ViewPlaces
<1>1. views' \in [Views -> ViewPlaces]
  BY <1>0 DEF OpenView, ViewRefreshFails, EnsureYearCached, ViewStatement, CloseView, ViewPlaces
<1>2. TxMove(v)
  BY DEF OpenView, ViewRefreshFails, EnsureYearCached, ViewStatement, CloseView, TxMove
<1>3. started' \in 0 .. MaxRequests
  BY <1>0, RequestCounted DEF OpenView, ViewRefreshFails, EnsureYearCached, ViewStatement, CloseView
<1> QED
  BY <1>1, <1>2, <1>3 DEF SessionMove, OpenView, ViewRefreshFails, EnsureYearCached, ViewStatement, CloseView

LEMMA CacheMoves ==
  ASSUME CacheTypeOK, FlagInv, CacheNext
  PROVE  CacheMove
<1>1. \A v \in Views : v \in Sessions \ Refreshes
  BY HolidayCacheAssumption
<1>2. CASE \E t \in Refreshes : RefreshStep(t) \/ StartManualRefresh(t) \/ ScheduleJob(t) \/ RefreshFails(t)
  BY <1>2, RefreshMoves DEF RefreshStep, CacheMove
<1>3. CASE \E v \in Views : ViewStep(v) \/ OpenView(v) \/ ViewRefreshFails(v)
  BY <1>1, <1>3, ViewMoves DEF ViewStep, CacheMove
<1>4. CASE \E body \in CacheBodies : UpdateSettings(body)
  BY <1>4 DEF CacheMove
<1> QED
  BY <1>2, <1>3, <1>4 DEF CacheNext, CacheWork

LEMMA JobTyped == ASSUME NEW s \in CacheSettings PROVE JobOf(s) \in Jobs \cup {None}
<1>1. s.weekday - 1 \in 0 .. 6 /\ s.time \in Nat
  BY DEF CacheSettings
<1> QED
  BY <1>1 DEF JobOf, Jobs

LEMMA CacheMoveKept ==
  ASSUME CacheSafe, CacheMove
  PROVE  CacheSafe' /\ CalendarKept
<1>0. /\ CacheTypeOK /\ FlagInv /\ JobSurvivesRestart
      /\ Refreshes \subseteq Sessions
  BY HolidayCacheAssumption DEF CacheSafe
<1>1. CASE \E t \in Refreshes : RefreshMove(t)
  <2>1. PICK t \in Refreshes : RefreshMove(t)
    BY <1>1
  <2>2. TxKept(t)
    BY <1>0, <2>1, TxMoveKept DEF RefreshMove
  <2>3. /\ FlagInv' /\ running' \in BOOLEAN
        /\ refreshes' \in [Refreshes -> {"idle", "start", "queued", "refresh"}]
    BY <1>0, <2>1, <2>2, FlagMoveKept DEF RefreshMove
  <2>4. CacheTypeOK'
    BY <1>0, <2>1, <2>2, <2>3 DEF CacheTypeOK, RefreshMove, TxKept, Stages, cacheSettingsVars
  <2>5. JobSurvivesRestart'
    BY <1>0, <2>1 DEF RefreshMove, cacheSettingsVars, JobSurvivesRestart
  <2> QED BY <2>2, <2>3, <2>4, <2>5 DEF CacheSafe, TxKept
<1>2. CASE \E s \in Sessions \ Refreshes : SessionMove(s)
  <2>1. PICK s \in Sessions \ Refreshes : SessionMove(s)
    BY <1>2
  <2>2. TxKept(s)
    BY <1>0, <2>1, TxMoveKept DEF SessionMove
  <2>3. FlagInv'
    BY <1>0, <2>1, <2>2 DEF FlagInv, SessionMove, managerVars, TxKept, Refreshing
  <2>4. CacheTypeOK'
    BY <1>0, <2>1, <2>2 DEF CacheTypeOK, SessionMove, TxKept, ViewPlaces, cacheSettingsVars, managerVars
  <2>5. JobSurvivesRestart'
    BY <1>0, <2>1 DEF SessionMove, cacheSettingsVars, JobSurvivesRestart
  <2> QED BY <2>2, <2>3, <2>4, <2>5 DEF CacheSafe, TxKept
<1>3. CASE \E body \in CacheBodies : UpdateSettings(body)
  <2>1. PICK body \in CacheBodies : UpdateSettings(body)
    BY <1>3
  <2>2. body \in CacheSettings /\ JobOf(body) \in Jobs \cup {None}
    BY JobTyped, HolidayCacheAssumption
  <2>3. started' \in 0 .. MaxRequests
    BY <1>0, <2>1, RequestCounted DEF UpdateSettings
  <2>4. UNCHANGED <<calendar, tx, running, stage, refreshes, views>>
    BY <2>1 DEF UpdateSettings, managerVars
  <2>5. CacheTypeOK' /\ JobSurvivesRestart'
    BY <1>0, <2>1, <2>2, <2>3, <2>4, HolidayCacheAssumption DEF CacheTypeOK, UpdateSettings, JobSurvivesRestart
  <2>6. FlagInv' /\ CalendarKept
    BY <1>0, <2>4 DEF FlagInv, CalendarKept, Busy, Refreshing
  <2> QED BY <2>5, <2>6 DEF CacheSafe
<1>4. CASE CacheRestart
  <2>1. file \in CacheSettings /\ JobOf(file) \in Jobs \cup {None}
    BY <1>0, <1>4, JobTyped DEF CacheTypeOK, CacheRestart
  <2>2. tx' \in [Sessions -> Tx] /\ \A s \in Sessions : tx'[s] = NoTx
    BY <1>4, NoTxTyped DEF CacheRestart
  <2>3. CacheTypeOK' /\ JobSurvivesRestart'
    BY <1>0, <1>4, <2>1, <2>2 DEF CacheTypeOK, CacheRestart, JobSurvivesRestart
  <2>4. FlagInv' /\ CalendarKept
    BY <1>0, <1>4, <2>2, NoTxTyped DEF FlagInv, CalendarKept, Busy, Refreshing, CacheRestart
  <2> QED BY <2>3, <2>4 DEF CacheSafe
<1>5. CASE Request /\ UNCHANGED <<calendar, tx, managerVars, views, cacheSettingsVars>>
  <2>1. started' \in 0 .. MaxRequests
    BY <1>0, <1>5, RequestCounted
  <2> QED
    BY <1>0, <1>5, <2>1 DEF CacheSafe, CacheTypeOK, FlagInv, JobSurvivesRestart, CalendarKept, Busy, Refreshing,
      managerVars, cacheSettingsVars
<1> QED
  BY <1>1, <1>2, <1>3, <1>4, <1>5 DEF CacheMove

LEMMA CacheInitSafe == ASSUME CacheInit PROVE CacheSafe
<1>1. JobOf(settings) \in Jobs \cup {None} /\ settings \in CacheSettings
  BY JobTyped, HolidayCacheAssumption DEF CacheInit
<1>2. CacheTypeOK
  <2>1. tx \in [Sessions -> Tx]
    BY NoTxTyped DEF CacheInit
  <2>2. /\ refreshes \in [Refreshes -> {"idle", "start", "queued", "refresh"}]
        /\ views \in [Views -> {"idle", "has_year", "refresh", "list"}]
    BY DEF CacheInit
  <2>3. started \in 0 .. MaxRequests
    BY HolidayCacheAssumption DEF CacheInit
  <2>4. file \in CacheSettings /\ job \in Jobs \cup {None}
    BY <1>1 DEF CacheInit
  <2> QED
    BY <1>1, <2>1, <2>2, <2>3, <2>4 DEF CacheTypeOK, CacheInit
<1>3. FlagInv /\ JobSurvivesRestart
  BY NoTxTyped, HolidayCacheAssumption DEF CacheInit, FlagInv, Busy, Refreshing, JobSurvivesRestart
<1> QED
  BY <1>2, <1>3 DEF CacheSafe

(* No step moves two refreshes, but a restart, which ends them all.        *)
LEMMA FlagStep ==
  ASSUME CacheSafe, CacheSafe', CacheMove \/ UNCHANGED cacheVars
  PROVE  [Flag!Next]_(Flag!vars)
<1> DEFINE H == {t \in Refreshes : Refreshing(t)}
<1>1. \/ \E t \in Refreshes : \A w \in Refreshes \ {t} : Refreshing(w)' <=> Refreshing(w)
      \/ \A w \in Refreshes : ~Refreshing(w)'
      \/ \A w \in Refreshes : Refreshing(w)' <=> Refreshing(w)
  <2>1. CASE \E t \in Refreshes : RefreshMove(t)
    <3>1. PICK t \in Refreshes : FlagMove(t)
      BY <2>1 DEF RefreshMove
    <3>2. \A w \in Refreshes \ {t} : refreshes'[w] = refreshes[w]
      BY <3>1 DEF FlagMove, At, CacheSafe, CacheTypeOK
    <3> QED BY <3>2 DEF Refreshing
  <2>2. CASE CacheRestart
    BY <2>2 DEF CacheRestart, Refreshing
  <2>3. CASE UNCHANGED refreshes
    BY <2>3 DEF Refreshing
  <2> QED
    BY <2>1, <2>2, <2>3 DEF CacheMove, SessionMove, UpdateSettings, managerVars, cacheVars
<1>2. /\ \A t, w \in Refreshes : Refreshing(t) /\ Refreshing(w) => t = w
      /\ running = \E t \in Refreshes : Refreshing(t)
  BY DEF CacheSafe, FlagInv
<1>3. /\ \A t, w \in Refreshes : Refreshing(t)' /\ Refreshing(w)' => t = w
      /\ running' = \E t \in Refreshes : Refreshing(t)'
  BY DEF CacheSafe, FlagInv
<1>4. CASE H' = H
  BY <1>2, <1>3, <1>4 DEF Flag!vars
<1>5. CASE H' # H
  <2>1. PICK t \in Refreshes : Refreshing(t)' # Refreshing(t)
    BY <1>5 DEF Refreshing
  <2>2. CASE Refreshing(t)
    <3>1. H = {t} /\ H' = {}
      BY <1>1, <1>2, <1>3, <2>1, <2>2
    <3> QED
      BY <1>3, <3>1 DEF Flag!Next, Flag!End
  <2>3. CASE ~Refreshing(t)
    <3>1. Refreshing(t)'
      BY <2>1, <2>3 DEF Refreshing
    <3>2. ASSUME NEW w \in Refreshes, Refreshing(w) PROVE FALSE
      BY <1>1, <1>3, <2>3, <3>1, <3>2
    <3>3. H = {} /\ H' = {t}
      BY <1>3, <3>1, <3>2
    <3> QED
      BY <1>2, <1>3, <3>1, <3>3 DEF Flag!Next, Flag!Begin
  <2> QED
    BY <2>2, <2>3
<1> QED
  BY <1>4, <1>5

-----------------------------------------------------------------------------
(* A generation by itself *)

HasRead(q) == q.pc \in {"existing", "users", "years", "year", "holidays", "delete", "blocked", "commit"}

\* The place of a row that may go: its successor is built, or there is
\* nothing to build one from.
Replaced(q, k) == q.built[k[1]] # None \/ (q.saw = {} /\ q.force /\ q.key = k[1])

Covered(q) ==
  /\ q.todo \subseteq Wanted(q)
  /\ \A u \in Users : q.built[u] # None => u \in Wanted(q)
  /\ \A k \in q.deleted \cup q.snapshot : k[2] <= q.upto /\ Replaced(q, k)

Ready(q) == q.todo # {} /\ (q.built[Next1(q.todo)] # None \/ (q.saw = {} /\ q.force /\ q.todo = {q.key}))

Fresh(q) == /\ q.saw = {} /\ q.todo = {} /\ q.deleted = {} /\ q.snapshot = {}
            /\ \A u \in Users : q.built[u] = None

GenOK(q) ==
  /\ Covered(q)
  /\ q.pc \in {"delete", "blocked"} => Ready(q)
  /\ HasRead(q) \/ q.pc = "answer" \/ Fresh(q)

LEMMA FreshCovered == ASSUME NEW q, Fresh(q) PROVE Covered(q)
  BY DEF Fresh, Covered

LEMMA IdleOK == /\ Idle \in Gen /\ GenOK(Idle) /\ Fresh(Idle) /\ ~Holding(Idle) /\ ~HasRead(Idle)
                /\ Idle.pc = "idle"
<1>1. Idle \in Gen
  <2>1. [d \in Days |-> TRUE] \in [Days -> BOOLEAN] /\ [u \in Users |-> None] \in [Users -> Rule \cup {None}]
    OBVIOUS
  <2>2. 0 \in 0 .. LastDay /\ None \in Keys
    BY AttendanceDailyAssumption DEF Keys
  <2> QED BY <2>1, <2>2 DEF Idle, Gen
<1>2. Fresh(Idle) /\ Idle.pc = "idle"
  BY DEF Idle, Fresh
<1> QED
  BY <1>1, <1>2, FreshCovered DEF GenOK, Holding, HasRead

LEMMA NextExists ==
  ASSUME NEW S \in SUBSET Users, S # {}
  PROVE  Next1(S) \in S
<1>1. S \in SUBSET Nat
  BY AttendanceDailyAssumption
<1>2. \E u \in S : \A w \in S : u <= w
  BY <1>1, EarliestExists
<1> QED
  BY <1>2 DEF Next1

\* q and r are the same generation, at another place perhaps.
SameRun(q, r) == r.key = q.key /\ r.force = q.force /\ r.upto = q.upto /\ r.saw = q.saw

LEMMA Built ==
  ASSUME NEW q \in Gen, Covered(q), plan \in Rule
  PROVE  /\ BuildNext(q) \in Gen /\ GenOK(BuildNext(q)) /\ HasRead(BuildNext(q))
         /\ SameRun(q, BuildNext(q))
<1>1. CASE q.todo = {}
  <2> DEFINE r == [q EXCEPT !.pc = "commit"]
  <2>1. r \in Gen
    BY DEF Gen
  <2>2. /\ r.pc = "commit" /\ r.key = q.key /\ r.force = q.force /\ r.upto = q.upto /\ r.saw = q.saw
        /\ r.todo = q.todo /\ r.built = q.built /\ r.snapshot = q.snapshot /\ r.deleted = q.deleted
    BY DEF Gen
  <2>3. BuildNext(q) = r
    BY <1>1 DEF BuildNext
  <2> HIDE DEF r
  <2>4. Covered(r)
    BY <2>2 DEF Covered, Wanted, Replaced
  <2> QED BY <2>1, <2>2, <2>3, <2>4 DEF GenOK, HasRead, SameRun
<1>2. CASE q.todo # {}
  <2> DEFINE u == Next1(q.todo)
             r == [q EXCEPT !.pc = "delete", !.built[u] = plan]
  <2>0. u \in q.todo /\ q.todo \subseteq Users /\ plan # None /\ q.built \in [Users -> Rule \cup {None}]
    BY <1>2, NextExists, AttendanceDailyAssumption DEF Gen
  <2>1. r \in Gen
    <3> HIDE DEF u
    <3>1. [q.built EXCEPT ![u] = plan] \in [Users -> Rule \cup {None}]
      BY <2>0
    <3>2. r = [q EXCEPT !.pc = "delete", !.built = [q.built EXCEPT ![u] = plan]]
      BY DEF Gen
    <3>3. \A b \in [Users -> Rule \cup {None}] : [q EXCEPT !.pc = "delete", !.built = b] \in Gen
      BY DEF Gen
    <3> QED BY <3>1, <3>2, <3>3
  <2>2. /\ r.pc = "delete" /\ r.key = q.key /\ r.force = q.force /\ r.upto = q.upto /\ r.saw = q.saw
        /\ r.todo = q.todo /\ r.snapshot = q.snapshot /\ r.deleted = q.deleted
        /\ \A w \in Users : r.built[w] = IF w = u THEN plan ELSE q.built[w]
    <3> HIDE DEF u
    <3> QED BY <2>0 DEF Gen
  <2>3. BuildNext(q) = r
    BY <1>2 DEF BuildNext
  <2>6. q.deleted \cup q.snapshot \subseteq UserDays
    BY DEF Gen
  <2> HIDE DEF r
  <2>4. Covered(r)
    <3>1. \A k \in r.deleted \cup r.snapshot : k[1] \in Users
      BY <2>2, <2>6 DEF UserDays
    <3> QED BY <2>0, <2>2, <3>1 DEF Covered, Wanted, Replaced
  <2>5. Ready(r)
    BY <1>2, <2>0, <2>2 DEF Ready
  <2> QED BY <2>1, <2>2, <2>3, <2>4, <2>5 DEF GenOK, HasRead, SameRun
<1> QED
  BY <1>1, <1>2

\* A place further on, with no more to do.
LEMMA Onward ==
  ASSUME NEW q, Covered(q), NEW r, SameRun(q, r), r.todo \subseteq q.todo, r.built = q.built,
         r.deleted \cup r.snapshot \subseteq q.deleted \cup q.snapshot,
         r.pc \in {"existing", "users", "years", "year", "holidays", "commit", "answer"}
  PROVE  GenOK(r)
<1>1. Covered(r)
  BY DEF Covered, Wanted, Replaced, SameRun
<1> QED
  BY <1>1 DEF GenOK, HasRead

-----------------------------------------------------------------------------
(* What a generation does before it commits *)

\* What a generation that has read its punches knows of the rows that
\* recalculations of the same user have left.
Knows(q, present, rows) ==
  HasRead(q) =>
    /\ q.saw \subseteq present
    /\ \A k \in UserDays :
         (k[1] = q.key /\ k[2] <= q.upto /\ rows[k] # None /\ rows[k].recalculated = q.key)
            => rows[k].punches \subseteq q.saw

RowsOK(present, rows) ==
  \A k \in UserDays : rows[k] # None => rows[k].punches \subseteq present /\ RowOK(rows[k], k)

GenTypes ==
  /\ attendances \subseteq Punches
  /\ daily \in [UserDays -> DailyRow \cup {None}]
  /\ ensure_locks \subseteq Keys
  /\ gens \in [Generations -> Gen]
  /\ rule_row \in Rule \cup {None} /\ plan \in Rule
  /\ rules \in [RuleRequests -> RuleRequest]
  /\ moment \in 1 .. Len(Clock)

LocksInv ==
  /\ \A g \in Generations : Holding(gens[g]) => gens[g].key \in ensure_locks
  /\ \A g, h \in Generations : g # h /\ Holding(gens[g]) /\ Holding(gens[h]) => gens[g].key # gens[h].key
  /\ \A key \in ensure_locks : \E g \in Generations : Holding(gens[g]) /\ gens[g].key = key

RulesInv == \A x \in RuleRequests : rules[x].loaded # None => rule_row # None

GenSafe ==
  /\ GenTypes
  /\ \A g \in Generations : GenOK(gens[g]) /\ Knows(gens[g], attendances, daily)
  /\ RowsOK(attendances, daily)
  /\ LocksInv
  /\ RulesInv
  /\ NoOlderBeneath

\* A generation keeps its lock, takes it, gives it back, or has none.
LockStep(q, r) ==
  \/ r.key = q.key /\ (Holding(r) <=> Holding(q)) /\ UNCHANGED ensure_locks
  \/ r.key = q.key /\ Holding(r) /\ q.key \notin ensure_locks /\ ensure_locks' = ensure_locks \cup {q.key}
  \/ ~Holding(r) /\ Holding(q) /\ ensure_locks' = ensure_locks \ {q.key}
  \/ ~Holding(r) /\ ~Holding(q) /\ UNCHANGED ensure_locks

Moved(g) ==
  \E r \in Gen : /\ GenOK(r) /\ Knows(r, attendances, daily)
                 /\ Put(g, r) /\ LockStep(gens[g], r)
                 /\ UNCHANGED <<attendances, daily, moment>>

LEMMA StillKnows ==
  ASSUME NEW q, NEW r, NEW present, NEW rows, Knows(q, present, rows), HasRead(q), SameRun(q, r)
  PROVE  Knows(r, present, rows)
  BY DEF Knows, SameRun

LEMMA EndTyped ==
  ASSUME NEW i \in 1 .. Len(Clock), NEW rule \in Rule
  PROVE  EffectiveEnd(Clock[i].day, Clock[i].second, rule.plan_end, LastDay) \in 0 .. LastDay
<1>1. Clock[i].day \in Nat \ {0} /\ LastDay \in Nat
  <2>1. Clock[i] \in Moments /\ LastDay \in Nat
    BY AttendanceDailyAssumption
  <2> QED BY <2>1 DEF Moments
<1> QED
  BY <1>1 DEF EffectiveEnd

\* Before its punches are read.
LEMMA Early ==
  ASSUME NEW q, Fresh(q), NEW r, r.saw = q.saw, r.todo = q.todo, r.built = q.built,
         r.snapshot = q.snapshot, r.deleted = q.deleted,
         r.pc \in {"lock", "advisory", "rule", "rule_commit", "punches"}
  PROVE  GenOK(r) /\ ~HasRead(r)
<1>1. Fresh(r)
  BY DEF Fresh
<1> QED
  BY <1>1, FreshCovered DEF GenOK, HasRead

LEMMA GenerateMoved ==
  ASSUME GenSafe, NEW g \in Generations, NEW key \in Keys, NEW force \in BOOLEAN, Generate(g, key, force)
  PROVE  Moved(g)
<1> DEFINE q == [Idle EXCEPT !.key = key, !.force = force]
           r == [q EXCEPT !.pc = "lock", !.advisory = FALSE, !.upto = 0]
<1>1. q \in Gen /\ Fresh(q)
  BY IdleOK DEF Gen, Fresh
<1>2. r \in Gen /\ GenOK(r) /\ r.pc = "lock" /\ ~HasRead(r)
  <2>1. 0 \in 0 .. LastDay
    BY AttendanceDailyAssumption
  <2> HIDE DEF q
  <2>2. r \in Gen /\ r.pc = "lock"
    BY <1>1, <2>1 DEF Gen
  <2>3. r.saw = q.saw /\ r.todo = q.todo /\ r.built = q.built /\ r.snapshot = q.snapshot /\ r.deleted = q.deleted
    BY <1>1 DEF Gen
  <2> HIDE DEF r
  <2> QED BY <1>1, <2>2, <2>3, Early
<1>3. r = [Idle EXCEPT !.pc = "lock", !.key = key, !.force = force]
  <2>1. Idle.advisory = FALSE /\ Idle.upto = 0
    BY DEF Idle
  <2> QED BY <2>1, IdleOK DEF Gen
<1> HIDE DEF r, q
<1> QED
  BY <1>2, <1>3, IdleOK DEF Generate, Moved, LockStep, Holding, Knows

LEMMA EarlyMoved ==
  ASSUME GenSafe, NEW g \in Generations,
         AcquireLock(g) \/ AcquireGenerationLock(g) \/ LoadRule(g) \/ CreateRule(g)
  PROVE  Moved(g) /\ plan' \in Rule /\ rule_row' \in Rule \cup {None} /\ UNCHANGED rules
         /\ (rule_row # None => rule_row' # None)
<1> DEFINE q == gens[g]
<1>0. /\ q \in Gen /\ GenOK(q) /\ plan \in Rule /\ rule_row \in Rule \cup {None}
      /\ DefaultRule \in Rule /\ DefaultRule # None
      /\ q.advisory \in BOOLEAN /\ q.upto \in 0 .. LastDay
  BY AttendanceDailyAssumption DEF GenSafe, GenTypes, Gen
<1>1. q.pc \in {"lock", "advisory", "rule", "rule_commit"}
  BY DEF AcquireLock, AcquireGenerationLock, LoadRule, CreateRule
<1>2. Fresh(q)
  BY <1>0, <1>1 DEF GenOK, HasRead
<1>3. ASSUME NEW pc \in {"lock", "advisory", "rule", "rule_commit", "punches"}, NEW b, b \in BOOLEAN,
             NEW upto \in 0 .. LastDay, Put(g, [q EXCEPT !.pc = pc, !.advisory = b, !.upto = upto]),
             UNCHANGED <<attendances, daily, moment>>,
             \/ pc # "lock" /\ q.pc # "lock" /\ UNCHANGED ensure_locks
             \/ pc # "lock" /\ q.key \notin ensure_locks /\ ensure_locks' = ensure_locks \cup {q.key}
      PROVE  Moved(g)
  <2> DEFINE r == [q EXCEPT !.pc = pc, !.advisory = b, !.upto = upto]
  <2>1. r \in Gen /\ GenOK(r) /\ r.key = q.key /\ r.pc = pc /\ ~HasRead(r)
    <3>1. pc \in {"lock", "advisory", "rule", "rule_commit", "punches"} /\ b \in BOOLEAN /\ upto \in 0 .. LastDay
      BY <1>3
    <3>2. q \in Gen /\ Fresh(q)
      BY <1>0, <1>2
    <3> HIDE DEF q
    <3>3. r \in Gen /\ r.pc = pc /\ r.key = q.key
      BY <3>1, <3>2 DEF Gen
    <3>4. r.saw = q.saw /\ r.todo = q.todo /\ r.built = q.built /\ r.snapshot = q.snapshot /\ r.deleted = q.deleted
      BY <3>2 DEF Gen
    <3> HIDE DEF r
    <3> QED BY <3>1, <3>2, <3>3, <3>4, Early
  <2>2. Put(g, r)
    BY <1>3
  <2> HIDE DEF r
  <2>3. LockStep(q, r)
    BY <1>1, <1>3, <2>1 DEF LockStep, Holding
  <2> QED BY <1>3, <2>1, <2>2, <2>3 DEF Moved, Knows
<1>4. CASE AcquireLock(g)
  <2>1. [q EXCEPT !.pc = "advisory"] = [q EXCEPT !.pc = "advisory", !.advisory = q.advisory, !.upto = q.upto]
    BY <1>0 DEF Gen
  <2> HIDE DEF q
  <2> QED BY <1>0, <1>3, <1>4, <2>1 DEF AcquireLock, ruleVars, q
<1>5. CASE AcquireGenerationLock(g)
  <2>1. [q EXCEPT !.pc = "rule", !.advisory = TRUE] = [q EXCEPT !.pc = "rule", !.advisory = TRUE, !.upto = q.upto]
    BY <1>0 DEF Gen
  <2> HIDE DEF q
  <2> QED BY <1>0, <1>3, <1>5, <2>1 DEF AcquireGenerationLock, ruleVars, q
<1>6. CASE LoadRule(g)
  <2>1. CASE rule_row = None
    <3>1. [q EXCEPT !.pc = "rule_commit"] = [q EXCEPT !.pc = "rule_commit", !.advisory = q.advisory, !.upto = q.upto]
      BY <1>0 DEF Gen
    <3> HIDE DEF q
    <3> QED BY <1>0, <1>3, <1>6, <2>1, <3>1 DEF LoadRule, q
  <2>2. CASE rule_row # None
    <3> DEFINE upto == EffectiveEnd(Clock[moment].day, Clock[moment].second, rule_row.plan_end, LastDay)
    <3>1. upto \in 0 .. LastDay
      BY <1>0, <2>2, EndTyped DEF GenSafe, GenTypes
    <3>2. Put(g, [q EXCEPT !.pc = "punches", !.upto = upto]) /\ plan' = rule_row
      BY <1>6, <2>2 DEF LoadRule, WithRule
    <3> HIDE DEF upto
    <3>3. [q EXCEPT !.pc = "punches", !.upto = upto]
            = [q EXCEPT !.pc = "punches", !.advisory = q.advisory, !.upto = upto]
      BY <1>0 DEF Gen
    <3> HIDE DEF q
    <3> QED BY <1>0, <1>3, <1>6, <2>2, <3>1, <3>2, <3>3 DEF LoadRule, q
  <2> QED BY <2>1, <2>2
<1>7. CASE CreateRule(g)
  <2> DEFINE upto == EffectiveEnd(Clock[moment].day, Clock[moment].second, DefaultRule.plan_end, LastDay)
             s == [q EXCEPT !.advisory = FALSE]
  <2>1. upto \in 0 .. LastDay
    BY <1>0, EndTyped DEF GenSafe, GenTypes
  <2>2. Put(g, [s EXCEPT !.pc = "punches", !.upto = upto]) /\ plan' = DefaultRule /\ rule_row' = DefaultRule
    BY <1>7 DEF CreateRule, WithRule
  <2> HIDE DEF upto
  <2>3. [s EXCEPT !.pc = "punches", !.upto = upto] = [q EXCEPT !.pc = "punches", !.advisory = FALSE, !.upto = upto]
    BY <1>0 DEF Gen
  <2> HIDE DEF q, s
  <2> QED BY <1>0, <1>3, <1>7, <2>1, <2>2, <2>3 DEF CreateRule, q
<1> QED
  BY <1>4, <1>5, <1>6, <1>7

\* The generation goes to another place with the same knowledge.
LEMMA PlaceMoved ==
  ASSUME GenSafe, NEW g \in Generations, HasRead(gens[g]),
         NEW r \in Gen, GenOK(r), SameRun(gens[g], r), Put(g, r),
         \/ r.pc = "answer" /\ ensure_locks' = ensure_locks \ {gens[g].key}
         \/ HasRead(r) /\ UNCHANGED ensure_locks,
         UNCHANGED <<attendances, daily, moment>>
  PROVE  Moved(g)
<1>1. Knows(r, attendances, daily)
  BY StillKnows DEF GenSafe
<1>2. Holding(gens[g]) /\ r.key = gens[g].key
  BY DEF Holding, HasRead, SameRun
<1>3. LockStep(gens[g], r)
  BY <1>2 DEF LockStep, Holding, HasRead
<1> QED
  BY <1>1, <1>3 DEF Moved

LEMMA ReadPunchesMoved ==
  ASSUME GenSafe, NEW g \in Generations, ReadPunches(g)
  PROVE  Moved(g)
<1> DEFINE q == gens[g]
           seen == {p \in attendances : PunchAt[p].user_id \in Wanted(q) /\ PunchAt[p].day <= q.upto}
<1>0. /\ q \in Gen /\ Fresh(q) /\ q.pc = "punches" /\ RowsOK(attendances, daily)
      /\ attendances \subseteq Punches /\ seen \subseteq attendances
      /\ UNCHANGED <<attendances, daily, moment>>
  BY DEF GenSafe, GenTypes, GenOK, HasRead, ReadPunches
<1>1. \A k \in UserDays :
        (k[1] = q.key /\ k[2] <= q.upto /\ daily[k] # None /\ daily[k].recalculated = q.key)
           => daily[k].punches \subseteq seen
  <2> SUFFICES ASSUME NEW k \in UserDays, k[1] = q.key, k[2] <= q.upto, daily[k] # None,
                      NEW p \in daily[k].punches
               PROVE  p \in seen
    OBVIOUS
  <2>1. p \in attendances /\ PunchAt[p].user_id = k[1] /\ PunchAt[p].day = k[2]
    BY <1>0 DEF RowsOK, RowOK
  <2>2. k[1] \in Users /\ k[1] # None
    BY AttendanceDailyAssumption DEF UserDays
  <2> QED BY <2>1, <2>2 DEF Wanted
<1>2. Covered(q) /\ Holding(q)
  BY <1>0, FreshCovered DEF Holding
<1>3. CASE seen = {} /\ ~(q.force /\ q.key # None)
  <2> DEFINE r == [q EXCEPT !.pc = "answer"]
  <2>1. r \in Gen /\ GenOK(r) /\ r.pc = "answer"
    <3> HIDE DEF q
    <3>1. r \in Gen /\ r.pc = "answer" /\ SameRun(q, r)
      BY <1>0 DEF Gen, SameRun
    <3>2. r.todo = q.todo /\ r.built = q.built /\ r.snapshot = q.snapshot /\ r.deleted = q.deleted
      BY <1>0 DEF Gen
    <3> HIDE DEF r
    <3> QED BY <1>2, <3>1, <3>2, Onward
  <2>2. Put(g, r) /\ ensure_locks' = ensure_locks \ {q.key}
    BY <1>3 DEF ReadPunches, Answer
  <2> HIDE DEF r, q
  <2> QED BY <1>0, <1>2, <2>1, <2>2 DEF Moved, Knows, HasRead, LockStep, Holding, q
<1>4. CASE seen = {} /\ q.force /\ q.key # None
  <2> DEFINE r == [q EXCEPT !.pc = "delete", !.todo = {q.key}]
  <2>0. q.key \in Users
    BY <1>0, <1>4 DEF Gen, Keys
  <2>1. r \in Gen
    <3> HIDE DEF q
    <3> QED BY <1>0, <2>0 DEF Gen
  <2>2. /\ r.pc = "delete" /\ r.key = q.key /\ r.force = q.force /\ r.upto = q.upto /\ r.saw = q.saw
        /\ r.todo = {q.key} /\ r.built = q.built /\ r.snapshot = q.snapshot /\ r.deleted = q.deleted
    <3> HIDE DEF q
    <3> QED BY <1>0 DEF Gen
  <2>3. Put(g, r) /\ UNCHANGED ensure_locks
    BY <1>4 DEF ReadPunches
  <2> HIDE DEF r
  <2>4. Covered(r) /\ Ready(r)
    <3> HIDE DEF q, seen
    <3> QED BY <1>0, <1>4, <2>2 DEF Covered, Ready, Fresh, Wanted
  <2>5. Knows(r, attendances, daily)
    <3> HIDE DEF q, seen
    <3> QED BY <1>0, <1>1, <1>4, <2>2 DEF Knows, Fresh
  <2>6. GenOK(r) /\ LockStep(q, r)
    <3> HIDE DEF q, seen
    <3> QED BY <1>2, <2>2, <2>3, <2>4 DEF GenOK, HasRead, LockStep, Holding
  <2> QED BY <1>0, <2>1, <2>3, <2>5, <2>6 DEF Moved
<1>5. CASE seen # {}
  <2> DEFINE pc == IF q.force THEN "users" ELSE "existing"
             todo == {PunchAt[p].user_id : p \in seen}
             r == [q EXCEPT !.pc = pc, !.saw = seen, !.todo = todo]
  <2>0. /\ seen \subseteq Punches /\ todo \subseteq Users /\ todo \subseteq Wanted(q)
        /\ pc \in {"users", "existing"}
    BY <1>0, AttendanceDailyAssumption
  <2>1. r \in Gen
    <3> HIDE DEF q, seen, todo, pc
    <3> QED BY <1>0, <2>0 DEF Gen
  <2>2. /\ r.pc = pc /\ r.key = q.key /\ r.force = q.force /\ r.upto = q.upto /\ r.saw = seen
        /\ r.todo = todo /\ r.built = q.built /\ r.snapshot = q.snapshot /\ r.deleted = q.deleted
    <3> HIDE DEF q, seen, todo, pc
    <3> QED BY <1>0 DEF Gen
  <2>3. Put(g, r) /\ UNCHANGED ensure_locks
    BY <1>5 DEF ReadPunches
  <2> HIDE DEF r, todo, pc
  <2>4. Covered(r)
    <3> HIDE DEF q, seen
    <3> QED BY <1>0, <2>0, <2>2 DEF Covered, Fresh, Wanted
  <2>5. Knows(r, attendances, daily)
    <3> HIDE DEF q, seen
    <3> QED BY <1>0, <1>1, <2>2 DEF Knows
  <2>6. GenOK(r) /\ LockStep(q, r)
    <3> HIDE DEF q, seen
    <3> QED BY <1>2, <2>0, <2>2, <2>3, <2>4 DEF GenOK, HasRead, LockStep, Holding
  <2> QED BY <1>0, <2>1, <2>3, <2>5, <2>6 DEF Moved
<1> QED
  BY <1>3, <1>4, <1>5

LEMMA SkipMoved ==
  ASSUME GenSafe, NEW g \in Generations, SkipExisting(g) \/ SelectUsers(g)
  PROVE  Moved(g)
<1> DEFINE q == gens[g]
<1>0. /\ q \in Gen /\ Covered(q) /\ HasRead(q)
      /\ UNCHANGED <<attendances, daily, moment>>
  BY DEF GenSafe, GenTypes, GenOK, HasRead, SkipExisting, SelectUsers
<1>1. ASSUME NEW S \in SUBSET q.todo, NEW pc \in {"users", "years"},
             Put(g, [q EXCEPT !.pc = pc, !.todo = S]), UNCHANGED ensure_locks
      PROVE  Moved(g)
  <2> DEFINE r == [q EXCEPT !.pc = pc, !.todo = S]
  <2>1. r \in Gen
    <3> HIDE DEF q
    <3> QED BY <1>0, <1>1 DEF Gen
  <2>2. r.pc = pc /\ r.todo = S /\ r.built = q.built /\ r.snapshot = q.snapshot /\ r.deleted = q.deleted
    <3> HIDE DEF q
    <3> QED BY <1>0 DEF Gen
  <2>3. SameRun(q, r)
    <3> HIDE DEF q
    <3> QED BY <1>0 DEF Gen, SameRun
  <2>4. Put(g, r)
    BY <1>1
  <2> HIDE DEF r
  <2>5. GenOK(r) /\ HasRead(r)
    <3> HIDE DEF q
    <3> QED BY <1>0, <1>1, <2>2, <2>3, Onward DEF HasRead
  <2> QED BY <1>0, <1>1, <2>1, <2>3, <2>4, <2>5, PlaceMoved
<1>2. ASSUME Answer(g, q)
      PROVE  Moved(g)
  <2> DEFINE r == [q EXCEPT !.pc = "answer"]
  <2>1. r \in Gen
    <3> HIDE DEF q
    <3> QED BY <1>0, <1>2 DEF Gen
  <2>2. r.pc = "answer" /\ r.todo = q.todo /\ r.built = q.built /\ r.snapshot = q.snapshot /\ r.deleted = q.deleted
    <3> HIDE DEF q
    <3> QED BY <1>0 DEF Gen
  <2>3. SameRun(q, r)
    <3> HIDE DEF q
    <3> QED BY <1>0 DEF Gen, SameRun
  <2>4. Put(g, r) /\ ensure_locks' = ensure_locks \ {q.key}
    BY <1>2 DEF Answer
  <2> HIDE DEF r
  <2>5. GenOK(r)
    <3> HIDE DEF q
    <3> QED BY <1>0, <2>2, <2>3, Onward
  <2> QED BY <1>0, <2>1, <2>2, <2>3, <2>4, <2>5, PlaceMoved
<1>3. CASE SkipExisting(g)
  <2> DEFINE left == {u \in q.todo : \A d \in 1 .. q.upto : daily[<<u, d>>] = None}
  <2>1. left \in SUBSET q.todo
    OBVIOUS
  <2>2. \/ Answer(g, q)
        \/ Put(g, [q EXCEPT !.pc = "users", !.todo = left]) /\ UNCHANGED ensure_locks
    BY <1>3 DEF SkipExisting
  <2> HIDE DEF left, q
  <2> QED BY <1>1, <1>2, <2>1, <2>2
<1>4. CASE SelectUsers(g)
  <2> DEFINE left == q.todo \cap Registered
  <2>1. left \in SUBSET q.todo
    OBVIOUS
  <2>2. \/ Answer(g, q)
        \/ Put(g, [q EXCEPT !.pc = "years", !.todo = left]) /\ UNCHANGED ensure_locks
    BY <1>4 DEF SelectUsers
  <2> HIDE DEF left, q
  <2> QED BY <1>1, <1>2, <2>1, <2>2
<1> QED
  BY <1>3, <1>4

LEMMA YearMoved ==
  ASSUME GenSafe, NEW g \in Generations, ListYears(g) \/ YearStatement(g) \/ YearError(g)
  PROVE  Moved(g)
<1> DEFINE q == gens[g]
<1>0. /\ q \in Gen /\ GenOK(q) /\ Covered(q) /\ HasRead(q) /\ q.advisory \in BOOLEAN
      /\ gens \in [Generations -> Gen]
      /\ UNCHANGED <<attendances, daily, moment, ensure_locks>>
  BY DEF GenSafe, GenTypes, GenOK, HasRead, Gen, ListYears, YearStatement, YearError
<1>1. ASSUME NEW r \in Gen, r.pc \in {"year", "holidays"}, SameRun(q, r),
             r.todo = q.todo, r.built = q.built, r.snapshot = q.snapshot, r.deleted = q.deleted,
             Put(g, r)
      PROVE  Moved(g)
  <2>1. GenOK(r) /\ HasRead(r)
    <3> HIDE DEF q
    <3> QED BY <1>0, <1>1, Onward DEF HasRead
  <2> QED BY <1>0, <1>1, <2>1, PlaceMoved
<1>2. CASE Put(g, [q EXCEPT !.pc = "year"]) \/ Put(g, [q EXCEPT !.pc = "holidays"])
  <2> PICK pc \in {"year", "holidays"} : Put(g, [q EXCEPT !.pc = pc])
    BY <1>2
  <2> DEFINE r == [q EXCEPT !.pc = pc]
  <2>1. r \in Gen
    <3> HIDE DEF q
    <3> QED BY <1>0 DEF Gen
  <2>2. r.pc = pc /\ r.todo = q.todo /\ r.built = q.built /\ r.snapshot = q.snapshot /\ r.deleted = q.deleted
    <3> HIDE DEF q
    <3> QED BY <1>0 DEF Gen
  <2>3. SameRun(q, r)
    <3> HIDE DEF q
    <3> QED BY <1>0 DEF Gen, SameRun
  <2>4. Put(g, r)
    OBVIOUS
  <2> HIDE DEF r
  <2> QED BY <1>1, <2>1, <2>2, <2>3, <2>4
<1>3. CASE Put(g, [q EXCEPT !.pc = "holidays", !.advisory = FALSE])
  <2> DEFINE r == [q EXCEPT !.pc = "holidays", !.advisory = FALSE]
  <2>1. r \in Gen
    <3> HIDE DEF q
    <3> QED BY <1>0 DEF Gen
  <2>2. r.pc = "holidays" /\ r.todo = q.todo /\ r.built = q.built /\ r.snapshot = q.snapshot /\ r.deleted = q.deleted
    <3> HIDE DEF q
    <3> QED BY <1>0 DEF Gen
  <2>3. SameRun(q, r)
    <3> HIDE DEF q
    <3> QED BY <1>0 DEF Gen, SameRun
  <2>4. Put(g, r)
    BY <1>3
  <2> HIDE DEF r
  <2> QED BY <1>1, <2>1, <2>2, <2>3, <2>4
<1>4. CASE UNCHANGED gens
  <2>1. Put(g, q) /\ SameRun(q, q)
    BY <1>0, <1>4 DEF Put, SameRun
  <2> QED BY <1>0, <2>1, PlaceMoved
<1> QED
  BY <1>2, <1>3, <1>4 DEF ListYears, YearStatement, YearError

LEMMA WorkdayMapTyped == WorkdayMap \in [Days -> BOOLEAN]
<1>1. \A row : IsWorkdayFromType(row) \in BOOLEAN
  BY DEF IsWorkdayFromType
<1>2. \A d \in Days : IsWeekday[d] \in BOOLEAN
  BY HolidayCacheAssumption
<1> QED
  BY <1>1, <1>2 DEF WorkdayMap

LEMMA BuildMoved ==
  ASSUME GenSafe, NEW g \in Generations, HasRead(gens[g]), NEW s \in Gen, Covered(s), SameRun(gens[g], s),
         Put(g, BuildNext(s)), UNCHANGED <<attendances, daily, moment, ensure_locks>>
  PROVE  Moved(g)
<1> DEFINE r == BuildNext(s)
<1>1. r \in Gen /\ GenOK(r) /\ HasRead(r) /\ SameRun(s, r)
  BY Built DEF GenSafe, GenTypes
<1>2. SameRun(gens[g], r) /\ Put(g, r)
  BY <1>1 DEF SameRun
<1> HIDE DEF r
<1> QED
  BY <1>1, <1>2, PlaceMoved

LEMMA ListHolidaysMoved ==
  ASSUME GenSafe, NEW g \in Generations, ListHolidays(g)
  PROVE  Moved(g)
<1> DEFINE q == gens[g]
           W == WorkdayMap
           s == [q EXCEPT !.workdays = W]
<1>0. /\ q \in Gen /\ Covered(q) /\ HasRead(q) /\ W \in [Days -> BOOLEAN]
      /\ Put(g, BuildNext(s)) /\ UNCHANGED <<attendances, daily, moment, ensure_locks>>
  BY WorkdayMapTyped DEF GenSafe, GenTypes, GenOK, HasRead, ListHolidays
<1>1. s \in Gen
  <2> HIDE DEF q, W
  <2> QED BY <1>0 DEF Gen
<1>2. s.todo = q.todo /\ s.built = q.built /\ s.snapshot = q.snapshot /\ s.deleted = q.deleted /\ SameRun(q, s)
  <2> HIDE DEF q, W
  <2> QED BY <1>0 DEF Gen, SameRun
<1> HIDE DEF s
<1>3. Covered(s)
  <2> HIDE DEF q
  <2> QED BY <1>0, <1>2 DEF Covered, Wanted, Replaced, SameRun
<1> QED
  BY <1>0, <1>1, <1>2, <1>3, BuildMoved

LEMMA DeleteMoved ==
  ASSUME GenSafe, NEW g \in Generations, DeleteRecords(g)
  PROVE  Moved(g)
<1> DEFINE q == gens[g]
           u == Next1(q.todo)
           rows == RowsOf(u, q.upto)
<1>0. /\ q \in Gen /\ Covered(q) /\ HasRead(q) /\ Ready(q) /\ GenOK(q) /\ q.pc = "delete"
      /\ UNCHANGED <<attendances, daily, moment, ensure_locks>>
  BY DEF GenSafe, GenTypes, GenOK, HasRead, DeleteRecords
<1>1. u \in q.todo /\ u \in Users /\ (q.built[u] # None \/ (q.saw = {} /\ q.force /\ q.key = u))
  <2> HIDE DEF q
  <2>1. q.todo \in SUBSET Users /\ q.todo # {}
    BY <1>0 DEF Gen, Ready
  <2>2. u \in q.todo /\ u \in Users
    BY <2>1, NextExists
  <2> QED BY <1>0, <2>2 DEF Ready
<1>2. /\ rows \subseteq UserDays
      /\ \A k \in rows : k[2] <= q.upto /\ Replaced(q, k)
  <2>1. q.upto \in 0 .. LastDay /\ LastDay \in Nat
    BY <1>0, AttendanceDailyAssumption DEF Gen
  <2> HIDE DEF q, u
  <2>2. rows \subseteq UserDays /\ \A k \in rows : k[1] = u /\ k[2] <= q.upto
    BY <1>1, <2>1 DEF RowsOf, UserDays
  <2> QED BY <1>1, <2>2 DEF Replaced
<1>3. CASE rows \cap DeletedByOthers(g) # {}
  <2> DEFINE r == [q EXCEPT !.pc = "blocked", !.snapshot = rows]
  <2>1. r \in Gen
    <3> HIDE DEF q, rows
    <3> QED BY <1>0, <1>2 DEF Gen
  <2>2. r.pc = "blocked" /\ r.todo = q.todo /\ r.built = q.built /\ r.snapshot = rows /\ r.deleted = q.deleted
    <3> HIDE DEF q, rows
    <3> QED BY <1>0 DEF Gen
  <2>3. SameRun(q, r)
    <3> HIDE DEF q, rows
    <3> QED BY <1>0 DEF Gen, SameRun
  <2>4. Put(g, r)
    BY <1>3 DEF DeleteRecords
  <2> HIDE DEF r
  <2>5. Covered(r)
    <3> HIDE DEF q, rows
    <3> QED BY <1>0, <1>2, <2>2, <2>3 DEF Covered, Wanted, Replaced, SameRun
  <2>6. Ready(r)
    <3> HIDE DEF q, rows
    <3> QED BY <1>0, <2>2, <2>3 DEF Ready, SameRun
  <2>7. GenOK(r) /\ HasRead(r)
    BY <2>2, <2>5, <2>6 DEF GenOK, HasRead
  <2> QED BY <1>0, <2>1, <2>3, <2>4, <2>7, PlaceMoved
<1>4. CASE rows \cap DeletedByOthers(g) = {}
  <2> DEFINE s == [q EXCEPT !.todo = q.todo \ {u}, !.deleted = q.deleted \cup rows]
  <2>0. Put(g, BuildNext(s))
    BY <1>4 DEF DeleteRecords
  <2>1. s \in Gen
    <3> HIDE DEF q, rows, u
    <3> QED BY <1>0, <1>2 DEF Gen
  <2>2. s.todo = q.todo \ {u} /\ s.built = q.built /\ s.snapshot = q.snapshot /\ s.deleted = q.deleted \cup rows
    <3> HIDE DEF q, rows, u
    <3> QED BY <1>0 DEF Gen
  <2>3. SameRun(q, s)
    <3> HIDE DEF q, rows, u
    <3> QED BY <1>0 DEF Gen, SameRun
  <2> HIDE DEF s
  <2>5. Covered(s)
    <3> HIDE DEF q, rows, u
    <3> QED BY <1>0, <1>2, <2>2, <2>3 DEF Covered, Wanted, Replaced, SameRun
  <2> QED BY <1>0, <2>0, <2>1, <2>3, <2>5, BuildMoved
<1> QED
  BY <1>3, <1>4

LEMMA WakeMoved ==
  ASSUME GenSafe, NEW g \in Generations, WakeRecords(g)
  PROVE  Moved(g)
<1> DEFINE q == gens[g]
           T == q.todo \ {Next1(q.todo)}
           D == q.deleted \cup q.snapshot
           s == [q EXCEPT !.todo = T, !.snapshot = {}, !.deleted = D]
<1>0. /\ q \in Gen /\ Covered(q) /\ HasRead(q) /\ T \subseteq q.todo
      /\ Put(g, BuildNext(s)) /\ UNCHANGED <<attendances, daily, moment, ensure_locks>>
  BY DEF GenSafe, GenTypes, GenOK, HasRead, WakeRecords
<1>1. D \subseteq UserDays /\ T \subseteq Users
  BY <1>0 DEF Gen
<1>2. D = q.deleted \cup q.snapshot
  OBVIOUS
<1>3. s \in Gen
  <2> HIDE DEF q, T, D
  <2> QED BY <1>0, <1>1 DEF Gen
<1>4. s.todo = T /\ s.built = q.built /\ s.snapshot = {} /\ s.deleted = D /\ SameRun(q, s)
  <2> HIDE DEF q, T, D
  <2> QED BY <1>0 DEF Gen, SameRun
<1> HIDE DEF s, D
<1>5. Covered(s)
  <2> HIDE DEF q, T
  <2> QED BY <1>0, <1>2, <1>4 DEF Covered, Wanted, Replaced, SameRun
<1> QED
  BY <1>0, <1>3, <1>4, <1>5, BuildMoved

LEMMA EndMoved ==
  ASSUME GenSafe, NEW g \in Generations,
         \/ CloseAnswer(g)
         \/ FailGeneration(g) /\ Put(g, Idle) /\ UNCHANGED daily
  PROVE  Moved(g)
<1>1. CASE CloseAnswer(g)
  <2>1. ~Holding(gens[g]) /\ UNCHANGED ensure_locks
    BY <1>1 DEF CloseAnswer, Holding
  <2>2. LockStep(gens[g], Idle) /\ Knows(Idle, attendances, daily)
    BY <2>1, IdleOK DEF LockStep, Knows
  <2> QED BY <1>1, <2>2, IdleOK DEF CloseAnswer, Moved
<1>2. CASE FailGeneration(g) /\ Put(g, Idle) /\ UNCHANGED daily
  <2>1. Holding(gens[g]) /\ ensure_locks' = ensure_locks \ {gens[g].key}
    BY <1>2 DEF FailGeneration, Holding
  <2>2. LockStep(gens[g], Idle) /\ Knows(Idle, attendances, daily)
    BY <2>1, IdleOK DEF LockStep, Knows
  <2> QED BY <1>2, <2>2, IdleOK DEF FailGeneration, Moved
<1> QED
  BY <1>1, <1>2

-----------------------------------------------------------------------------
(* What a step of one generation leaves true *)

LEMMA MovedKept ==
  ASSUME GenSafe, NEW g \in Generations, Moved(g),
         plan' \in Rule, rule_row' \in Rule \cup {None}, UNCHANGED rules,
         rule_row # None => rule_row' # None
  PROVE  GenSafe'
<1>1. PICK r \in Gen : /\ GenOK(r) /\ Knows(r, attendances, daily)
                       /\ Put(g, r) /\ LockStep(gens[g], r)
                       /\ UNCHANGED <<attendances, daily, moment>>
  BY DEF Moved
<1>2. gens \in [Generations -> Gen] /\ gens[g].key \in Keys /\ ensure_locks \subseteq Keys
  BY DEF GenSafe, GenTypes, Gen
<1>3. /\ gens' \in [Generations -> Gen] /\ gens'[g] = r
      /\ \A h \in Generations \ {g} : gens'[h] = gens[h]
  BY <1>1, <1>2 DEF Put
<1>4. GenTypes'
  <2>1. ensure_locks' \subseteq Keys
    BY <1>1, <1>2 DEF LockStep
  <2> QED BY <1>1, <1>3, <2>1 DEF GenSafe, GenTypes
<1>5. \A h \in Generations : GenOK(gens'[h]) /\ Knows(gens'[h], attendances', daily')
  BY <1>1, <1>3 DEF GenSafe
<1>6. RowsOK(attendances', daily') /\ NoOlderBeneath'
  BY <1>1 DEF GenSafe, NoOlderBeneath
<1>7. LocksInv'
  <2>1. /\ \A h \in Generations : Holding(gens[h]) => gens[h].key \in ensure_locks
        /\ \A f, h \in Generations : f # h /\ Holding(gens[f]) /\ Holding(gens[h]) => gens[f].key # gens[h].key
        /\ \A key \in ensure_locks : \E h \in Generations : Holding(gens[h]) /\ gens[h].key = key
    BY DEF GenSafe, LocksInv
  <2>2. /\ \A h \in Generations : Holding(gens'[h]) => gens'[h].key \in ensure_locks'
        /\ \A f, h \in Generations : f # h /\ Holding(gens'[f]) /\ Holding(gens'[h]) => gens'[f].key # gens'[h].key
        /\ \A key \in ensure_locks' : \E h \in Generations : Holding(gens'[h]) /\ gens'[h].key = key
    <3>1. CASE r.key = gens[g].key /\ (Holding(r) <=> Holding(gens[g])) /\ UNCHANGED ensure_locks
      BY <1>3, <2>1, <3>1
    <3>2. CASE r.key = gens[g].key /\ Holding(r) /\ gens[g].key \notin ensure_locks
               /\ ensure_locks' = ensure_locks \cup {gens[g].key}
      BY <1>3, <2>1, <3>2
    <3>3. CASE ~Holding(r) /\ Holding(gens[g]) /\ ensure_locks' = ensure_locks \ {gens[g].key}
      BY <1>3, <2>1, <3>3
    <3>4. CASE ~Holding(r) /\ ~Holding(gens[g]) /\ UNCHANGED ensure_locks
      BY <1>3, <2>1, <3>4
    <3> QED BY <1>1, <3>1, <3>2, <3>3, <3>4 DEF LockStep
  <2> QED BY <2>2 DEF LocksInv
<1>8. RulesInv'
  BY DEF GenSafe, RulesInv
<1> QED
  BY <1>4, <1>5, <1>6, <1>7, <1>8 DEF GenSafe

Stored(g) ==
  \E after \in Gen : /\ GenOK(after) /\ ~Holding(after)
                     /\ Commit(g, after)
                     /\ ensure_locks' = ensure_locks \ {gens[g].key}
                     /\ UNCHANGED <<attendances, moment>>

LEMMA CommitStored ==
  ASSUME GenSafe, NEW g \in Generations,
         CommitRecords(g) \/ (FailGeneration(g) /\ Commit(g, Idle))
  PROVE  Stored(g)
<1>1. CASE CommitRecords(g)
  <2> DEFINE q == gens[g]
             r == [q EXCEPT !.pc = "answer", !.advisory = FALSE, !.deleted = {}]
  <2>0. /\ q \in Gen /\ Covered(q)
        /\ Commit(g, r) /\ ensure_locks' = ensure_locks \ {q.key} /\ UNCHANGED <<attendances, moment>>
    BY <1>1 DEF GenSafe, GenTypes, GenOK, CommitRecords
  <2>1. r \in Gen
    <3> HIDE DEF q
    <3> QED BY <2>0 DEF Gen
  <2>2. /\ r.pc = "answer" /\ r.todo = q.todo /\ r.built = q.built /\ r.snapshot = q.snapshot
        /\ r.deleted = {} /\ SameRun(q, r)
    <3> HIDE DEF q
    <3> QED BY <2>0 DEF Gen, SameRun
  <2> HIDE DEF r
  <2>3. GenOK(r) /\ ~Holding(r)
    <3> HIDE DEF q
    <3> QED BY <2>0, <2>2, Onward DEF Holding
  <2> QED BY <2>0, <2>1, <2>3 DEF Stored
<1>2. CASE FailGeneration(g) /\ Commit(g, Idle)
  BY <1>2, IdleOK DEF FailGeneration, Stored
<1> QED
  BY <1>1, <1>2

LEMMA LatestIdAbove ==
  ASSUME daily \in [UserDays -> DailyRow \cup {None}]
  PROVE  LatestId \in Nat /\ \A k \in UserDays : daily[k] # None => daily[k].id <= LatestId
<1> DEFINE K == {k \in UserDays : daily[k] # None}
           I == {daily[k].id : k \in K}
           ids == {0} \cup I
<1>1. IsFiniteSet(UserDays)
  <2>1. IsFiniteSet(Users) /\ IsFiniteSet(1 .. LastDay)
    BY AttendanceDailyAssumption, HolidayCacheAssumption
  <2> QED BY <2>1, FS_Product DEF UserDays
<1>2. IsFiniteSet(K)
  BY <1>1, FS_Subset
<1>3. \A k \in K : daily[k].id \in Nat
  BY DEF DailyRow
<1>4. IsFiniteSet(I)
  <2> DEFINE f == [k \in K |-> daily[k].id]
  <2>1. f \in Surjection(K, I)
    BY DEF Surjection
  <2> HIDE DEF f, K, I
  <2> QED BY <1>2, <2>1, FS_Surjection
<1>5. ids \in SUBSET Nat /\ ids # {}
  BY <1>3
<1>6. IsFiniteSet(ids)
  <2>1. IsFiniteSet({0})
    BY FS_Singleton
  <2> HIDE DEF I
  <2> QED BY <1>4, <2>1, FS_Union
<1>7. LatestId = LatestOf(ids)
  BY DEF LatestId
<1>8. \A k \in UserDays : daily[k] # None => daily[k].id \in ids
  OBVIOUS
<1> HIDE DEF ids
<1> QED
  BY <1>5, <1>6, <1>7, <1>8, LatestExists

\* The rows after a commit: those it has written, those it has left.
LEMMA RowsStored ==
  ASSUME GenSafe, NEW g \in Generations, Stored(g)
  PROVE  /\ gens[g] \in Gen /\ gens[g].pc = "commit"
         /\ daily' \in [UserDays -> DailyRow \cup {None}]
         /\ LatestId + 1 \in Nat
         /\ \A k \in UserDays : daily[k] # None => daily[k].id < LatestId + 1
         /\ \A k \in Written(gens[g]) :
              /\ k \in UserDays /\ k[2] <= gens[g].upto
              /\ daily'[k] # None /\ RowOK(daily'[k], k)
              /\ daily'[k].id = LatestId + 1
              /\ daily'[k].punches = PunchesOf(gens[g], k)
              /\ daily'[k].recalculated = IF gens[g].force THEN gens[g].key ELSE None
         /\ \A k \in UserDays \ Written(gens[g]) :
              daily'[k] = daily[k] \/ (daily'[k] = None /\ k \in gens[g].deleted)
<1> DEFINE q == gens[g]
           id == LatestId + 1
<1>0. q \in Gen /\ q.pc = "commit" /\ StoreRecords(q) /\ daily \in [UserDays -> DailyRow \cup {None}]
  BY DEF GenSafe, GenTypes, Stored, Commit
<1>1. id \in Nat /\ \A k \in UserDays : daily[k] # None => daily[k].id < id
  <2>1. LatestId \in Nat /\ \A k \in UserDays : daily[k] # None => daily[k].id <= LatestId
    BY <1>0, LatestIdAbove
  <2>2. \A k \in UserDays : daily[k] # None => daily[k].id \in Nat
    BY <1>0 DEF DailyRow
  <2> QED BY <2>1, <2>2
<1>2. daily' = [k \in UserDays |-> IF k \in Written(q) THEN NewRow(q, k, id)
                                   ELSE IF k \in q.deleted THEN None ELSE daily[k]]
  BY <1>0 DEF StoreRecords
<1>3. ASSUME NEW k \in Written(q)
      PROVE  /\ k \in UserDays /\ k[2] <= q.upto
             /\ daily'[k] \in DailyRow /\ daily'[k] # None /\ RowOK(daily'[k], k)
             /\ daily'[k].id = id
             /\ daily'[k].punches = PunchesOf(q, k)
             /\ daily'[k].recalculated = IF q.force THEN q.key ELSE None
  <2>1. k \in UserDays /\ k[2] <= q.upto /\ q.built[k[1]] # None
    BY DEF Written
  <2>2. daily'[k] = NewRow(q, k, id)
    BY <1>2, <2>1
  <2> HIDE DEF q, id
  <2> QED BY <1>0, <1>1, <2>1, <2>2, NewRowTyped, NoRowAssumption
<1>4. \A k \in UserDays \ Written(q) :
        daily'[k] = daily[k] \/ (daily'[k] = None /\ k \in q.deleted)
  BY <1>2
<1>5. daily' \in [UserDays -> DailyRow \cup {None}]
  <2>1. \A k \in UserDays : daily'[k] \in DailyRow \cup {None}
    BY <1>0, <1>3, <1>4
  <2>2. \E F : daily' = [k \in UserDays |-> F[k]]
    <3> DEFINE F == [k \in UserDays |-> IF k \in Written(q) THEN NewRow(q, k, id)
                                        ELSE IF k \in q.deleted THEN None ELSE daily[k]]
    <3>1. F = [k \in UserDays |-> F[k]]
      OBVIOUS
    <3>2. daily' = F
      BY <1>2
    <3> HIDE DEF F
    <3> QED BY <3>1, <3>2
  <2> QED BY <2>1, <2>2
<1> QED
  BY <1>0, <1>1, <1>3, <1>4, <1>5

LEMMA StoredKept ==
  ASSUME GenSafe, NEW g \in Generations, Stored(g), UNCHANGED ruleVars
  PROVE  GenSafe'
<1> DEFINE q == gens[g]
           id == LatestId + 1
           gone == q.deleted \cup Written(q)
<1>1. PICK after \in Gen : /\ GenOK(after) /\ ~Holding(after)
                           /\ Commit(g, after)
                           /\ ensure_locks' = ensure_locks \ {q.key}
                           /\ UNCHANGED <<attendances, moment>>
  BY DEF Stored
<1>2. /\ gens \in [Generations -> Gen] /\ ensure_locks \subseteq Keys
      /\ daily \in [UserDays -> DailyRow \cup {None}]
  BY DEF GenSafe, GenTypes
<1>3. gens' = [h \in Generations |-> IF h = g THEN after ELSE [gens[h] EXCEPT !.snapshot = @ \ gone]]
  BY <1>1 DEF Commit
<1>4. ASSUME NEW h \in Generations \ {g}
      PROVE  /\ gens'[h] \in Gen /\ GenOK(gens'[h])
             /\ gens'[h].pc = gens[h].pc /\ SameRun(gens[h], gens'[h])
  <2> DEFINE p == gens[h]
             S == p.snapshot \ gone
             r == [p EXCEPT !.snapshot = S]
  <2>1. p \in Gen /\ GenOK(p)
    BY DEF GenSafe, GenTypes
  <2>2. gens'[h] = r
    BY <1>3
  <2>3. S \subseteq p.snapshot
    OBVIOUS
  <2>4. r \in Gen
    <3> HIDE DEF p, S
    <3> QED BY <2>1, <2>3 DEF Gen
  <2>5. /\ r.pc = p.pc /\ r.todo = p.todo /\ r.built = p.built /\ r.snapshot = S /\ r.deleted = p.deleted
        /\ r.saw = p.saw /\ r.key = p.key /\ r.force = p.force /\ r.upto = p.upto
    <3> HIDE DEF p, S
    <3> QED BY <2>1 DEF Gen
  <2> HIDE DEF r
  <2>6. Covered(r) /\ (Fresh(p) => Fresh(r)) /\ (Ready(p) => Ready(r))
    <3> HIDE DEF p, S
    <3> QED BY <2>1, <2>3, <2>5 DEF GenOK, Covered, Fresh, Ready, Replaced, Wanted
  <2>7. GenOK(r)
    <3> HIDE DEF p, S
    <3> QED BY <2>1, <2>5, <2>6 DEF GenOK, HasRead
  <2> HIDE DEF S
  <2> QED BY <2>2, <2>4, <2>5, <2>7 DEF SameRun
<1>5. gens' \in [Generations -> Gen] /\ gens'[g] = after
  BY <1>3, <1>4
<1>6. GenTypes'
  BY <1>1, <1>2, <1>5, RowsStored DEF GenSafe, GenTypes, ruleVars
<1>7. LocksInv'
  <2>1. /\ \A h \in Generations : Holding(gens[h]) => gens[h].key \in ensure_locks
        /\ \A f, h \in Generations : f # h /\ Holding(gens[f]) /\ Holding(gens[h]) => gens[f].key # gens[h].key
        /\ \A key \in ensure_locks : \E h \in Generations : Holding(gens[h]) /\ gens[h].key = key
    BY DEF GenSafe, LocksInv
  <2>2. Holding(q)
    BY RowsStored DEF Holding
  <2>3. \A h \in Generations \ {g} : (Holding(gens'[h]) <=> Holding(gens[h])) /\ gens'[h].key = gens[h].key
    BY <1>4 DEF Holding, SameRun
  <2>4. /\ \A h \in Generations : Holding(gens'[h]) => gens'[h].key \in ensure_locks'
        /\ \A f, h \in Generations : f # h /\ Holding(gens'[f]) /\ Holding(gens'[h]) => gens'[f].key # gens'[h].key
        /\ \A key \in ensure_locks' : \E h \in Generations : Holding(gens'[h]) /\ gens'[h].key = key
    BY <1>1, <1>5, <2>1, <2>2, <2>3
  <2> QED BY <2>4 DEF LocksInv
<1>8. q.saw \subseteq attendances
  BY RowsStored DEF GenSafe, Knows, HasRead
<1>9. RowsOK(attendances', daily')
  <2> SUFFICES ASSUME NEW k \in UserDays, daily'[k] # None
               PROVE  daily'[k].punches \subseteq attendances /\ RowOK(daily'[k], k)
    BY <1>1 DEF RowsOK
  <2>1. CASE k \in Written(q)
    <3>1. PunchesOf(q, k) \subseteq q.saw
      BY DEF PunchesOf
    <3> QED BY <1>8, <2>1, <3>1, RowsStored
  <2>2. CASE k \notin Written(q)
    <3>1. daily'[k] = daily[k]
      BY <2>2, RowsStored
    <3> QED BY <3>1 DEF GenSafe, RowsOK
  <2> QED BY <2>1, <2>2
<1>10. \A h \in Generations : GenOK(gens'[h])
  BY <1>1, <1>4, <1>5
<1>11. ASSUME NEW h \in Generations
       PROVE  Knows(gens'[h], attendances', daily')
  <2>1. CASE h = g
    BY <1>1, <1>5, <2>1 DEF Knows, HasRead, Holding
  <2>2. CASE h # g
    <3> DEFINE p == gens[h]
    <3> SUFFICES ASSUME HasRead(p)
                 PROVE  /\ p.saw \subseteq attendances
                        /\ \A k \in UserDays :
                             (k[1] = p.key /\ k[2] <= p.upto /\ daily'[k] # None /\ daily'[k].recalculated = p.key)
                               => daily'[k].punches \subseteq p.saw
      BY <1>1, <1>4, <2>2 DEF Knows, HasRead, SameRun
    <3>1. Knows(p, attendances, daily) /\ p.key # q.key
      BY <2>2, RowsStored DEF GenSafe, LocksInv, Holding, HasRead
    <3>2. ASSUME NEW k \in UserDays, k[1] = p.key, k[2] <= p.upto, daily'[k] # None,
                 daily'[k].recalculated = p.key
          PROVE  daily'[k].punches \subseteq p.saw
      <4>1. p.key \in Users /\ p.key # None
        BY <3>2, AttendanceDailyAssumption DEF UserDays
      <4>2. k \notin Written(q)
        BY <3>1, <3>2, <4>1, RowsStored
      <4>3. daily'[k] = daily[k]
        BY <3>2, <4>2, RowsStored
      <4> QED BY <3>1, <3>2, <4>3 DEF Knows
    <3> QED BY <3>1, <3>2 DEF Knows
  <2> QED BY <2>1, <2>2
<1>12. NoOlderBeneath'
  <2> SUFFICES ASSUME NEW u \in Users, NEW d \in 1 .. LastDay, NEW e \in 1 .. LastDay, d < e,
                      daily'[<<u, d>>] # None, daily'[<<u, e>>] # None
               PROVE  daily'[<<u, d>>].id >= daily'[<<u, e>>].id
    BY DEF NoOlderBeneath
  <2>0. <<u, d>> \in UserDays /\ <<u, e>> \in UserDays /\ d \in Nat /\ e \in Nat
        /\ q.upto \in 0 .. LastDay /\ LastDay \in Nat
    BY RowsStored, AttendanceDailyAssumption DEF UserDays, Gen
  <2>1. <<u, e>> \in Written(q) => <<u, d>> \in Written(q)
    BY <2>0 DEF Written
  <2>2. id \in Nat
    BY RowsStored
  <2>3. CASE <<u, d>> \in Written(q) /\ <<u, e>> \in Written(q)
    BY <2>2, <2>3, RowsStored
  <2>4. CASE <<u, d>> \in Written(q) /\ <<u, e>> \notin Written(q)
    <3>1. daily'[<<u, e>>] = daily[<<u, e>>] /\ daily[<<u, e>>] # None
      BY <2>0, <2>4, RowsStored
    <3>2. daily[<<u, e>>].id < id /\ daily[<<u, e>>].id \in Nat
      BY <1>2, <2>0, <3>1, RowsStored DEF DailyRow
    <3>3. daily'[<<u, d>>].id = id
      BY <2>4, RowsStored
    <3> HIDE DEF id
    <3> QED BY <2>2, <3>1, <3>2, <3>3
  <2>5. CASE <<u, d>> \notin Written(q)
    <3>1. daily'[<<u, e>>] = daily[<<u, e>>] /\ daily'[<<u, d>>] = daily[<<u, d>>]
      BY <2>0, <2>1, <2>5, RowsStored
    <3> QED BY <3>1 DEF GenSafe, NoOlderBeneath
  <2> QED BY <2>1, <2>3, <2>4, <2>5
<1>13. RulesInv'
  BY DEF GenSafe, RulesInv, ruleVars
<1> QED
  BY <1>6, <1>7, <1>9, <1>10, <1>11, <1>12, <1>13 DEF GenSafe

-----------------------------------------------------------------------------
(* The other steps *)

\* The records, their locks and their generations are left alone.
Elsewhere ==
  /\ UNCHANGED <<daily, ensure_locks, gens>>
  /\ attendances \subseteq attendances' /\ attendances' \subseteq Punches
  /\ moment' \in 1 .. Len(Clock)
  /\ plan' \in Rule /\ rule_row' \in Rule \cup {None} /\ rules' \in [RuleRequests -> RuleRequest]
  /\ RulesInv'

LEMMA ElsewhereKept ==
  ASSUME GenSafe, Elsewhere
  PROVE  GenSafe'
<1>1. GenTypes'
  BY DEF GenSafe, GenTypes, Elsewhere
<1>2. RowsOK(attendances', daily') /\ LocksInv' /\ NoOlderBeneath'
  BY DEF GenSafe, RowsOK, LocksInv, NoOlderBeneath, Elsewhere
<1>3. \A g \in Generations : GenOK(gens'[g]) /\ Knows(gens'[g], attendances', daily')
  BY DEF GenSafe, Knows, Elsewhere
<1> QED
  BY <1>1, <1>2, <1>3 DEF GenSafe, Elsewhere

LEMMA SavedTyped ==
  ASSUME NEW wanted \in Rule, NEW loaded \in Rule, rule_row \in Rule, NEW q, q.loaded = loaded
  PROVE  SavedRule(q, wanted) \in Rule
<1> DEFINE r == [f \in DOMAIN wanted |-> IF wanted[f] # loaded[f] THEN wanted[f] ELSE rule_row[f]]
<1>1. loaded # None
  BY AttendanceDailyAssumption
<1>2. SavedRule(q, wanted) = r
  BY <1>1 DEF SavedRule
<1>3. DOMAIN wanted = {"plan_start", "plan_end"}
  BY DEF Rule
<1>4. r \in Rule
  BY <1>3 DEF Rule
<1> QED
  BY <1>2, <1>4

LEMMA RuleElsewhere ==
  ASSUME GenSafe, NEW x \in RuleRequests,
         \/ \E body \in RuleBodies \cup {None} : AskForRule(x, body)
         \/ GetRule(x) \/ CommitRule(x) \/ FailRule(x)
  PROVE  Elsewhere
<1>0. /\ rules \in [RuleRequests -> RuleRequest] /\ rules[x] \in RuleRequest
      /\ rule_row \in Rule \cup {None} /\ plan \in Rule /\ moment \in 1 .. Len(Clock)
      /\ attendances \subseteq Punches /\ RulesInv
  BY DEF GenSafe, GenTypes
<1>1. NoRuleRequest \in RuleRequest /\ NoRuleRequest.loaded = None
  BY DEF NoRuleRequest, RuleRequest
<1>2. DefaultRule \in Rule /\ RuleBodies \subseteq Rule /\ None \notin Rule
  BY AttendanceDailyAssumption
<1>3. UNCHANGED generationVars
  BY DEF AskForRule, GetRule, CommitRule, FailRule
<1>4. ASSUME NEW r \in RuleRequest, PutRule(x, r), r.loaded # None => rule_row' # None,
             rule_row # None => rule_row' # None
      PROVE  rules' \in [RuleRequests -> RuleRequest] /\ RulesInv'
  BY <1>0, <1>4 DEF PutRule, RulesInv
<1>5. CASE \E body \in RuleBodies \cup {None} : AskForRule(x, body)
  <2>1. PICK body \in RuleBodies \cup {None} : AskForRule(x, body)
    BY <1>5
  <2> DEFINE r == [NoRuleRequest EXCEPT !.pc = "get", !.body = body]
  <2>2. r \in RuleRequest /\ r.loaded = None
    BY <1>1 DEF RuleRequest
  <2>3. PutRule(x, r) /\ UNCHANGED <<rule_row, plan>>
    BY <2>1 DEF AskForRule
  <2> HIDE DEF r
  <2> QED BY <1>0, <1>3, <1>4, <2>2, <2>3 DEF Elsewhere, generationVars
<1>6. CASE GetRule(x)
  <2> DEFINE r == [rules[x] EXCEPT !.pc = "commit", !.loaded = rule_row]
  <2>1. r \in RuleRequest /\ r.loaded = rule_row
    BY <1>0 DEF RuleRequest
  <2>2. /\ UNCHANGED rule_row /\ plan' \in Rule
        /\ PutRule(x, NoRuleRequest) \/ PutRule(x, r)
    BY <1>0, <1>6 DEF GetRule
  <2> HIDE DEF r
  <2> QED BY <1>0, <1>1, <1>3, <1>4, <2>1, <2>2 DEF Elsewhere, generationVars
<1>7. CASE CommitRule(x)
  <2> DEFINE q == rules[x]
             wanted == IF q.body = None THEN DefaultRule ELSE q.body
  <2>1. wanted \in Rule
    BY <1>0, <1>2 DEF RuleRequest
  <2>2. rule_row' = SavedRule(q, wanted) /\ plan' = wanted /\ PutRule(x, NoRuleRequest)
    BY <1>7 DEF CommitRule
  <2>3. q.loaded \in Rule \cup {None} /\ (q.loaded # None => rule_row # None)
    BY <1>0 DEF RulesInv, RuleRequest
  <2> HIDE DEF wanted, q
  <2>4. rule_row' \in Rule
    <3>1. CASE q.loaded = None
      BY <2>1, <2>2, <3>1 DEF SavedRule
    <3>2. CASE q.loaded # None
      BY <1>0, <2>1, <2>2, <2>3, <3>2, SavedTyped
    <3> QED BY <3>1, <3>2
  <2> QED BY <1>0, <1>1, <1>2, <1>3, <1>4, <2>1, <2>2, <2>4 DEF Elsewhere, generationVars
<1>8. CASE FailRule(x)
  BY <1>0, <1>1, <1>3, <1>4, <1>8 DEF FailRule, Elsewhere, generationVars
<1> QED
  BY <1>5, <1>6, <1>7, <1>8

LEMMA OthersElsewhere ==
  ASSUME GenSafe,
         \/ \E p \in Punches : PunchArrives(p)
         \/ TimePasses
         \/ UNCHANGED <<generationVars, ruleVars>>
  PROVE  Elsewhere
<1>0. /\ rules \in [RuleRequests -> RuleRequest]
      /\ rule_row \in Rule \cup {None} /\ plan \in Rule /\ moment \in 1 .. Len(Clock)
      /\ attendances \subseteq Punches /\ RulesInv
  BY DEF GenSafe, GenTypes
<1>1. CASE \E p \in Punches : PunchArrives(p)
  BY <1>0, <1>1 DEF PunchArrives, Elsewhere, ruleVars, RulesInv
<1>2. CASE TimePasses
  <2>1. Len(Clock) \in Nat
    BY AttendanceDailyAssumption
  <2> QED BY <1>0, <1>2, <2>1 DEF TimePasses, Elsewhere, ruleVars, RulesInv
<1>3. CASE UNCHANGED <<generationVars, ruleVars>>
  BY <1>0, <1>3 DEF Elsewhere, generationVars, ruleVars, RulesInv
<1> QED
  BY <1>1, <1>2, <1>3

LEMMA RestartKept ==
  ASSUME GenSafe, Restart
  PROVE  GenSafe' /\ UNCHANGED daily
<1>1. \A g \in Generations : gens'[g] = Idle
  BY DEF Restart
<1>2. GenTypes'
  <2>1. gens' \in [Generations -> Gen]
    BY IdleOK DEF Restart
  <2>2. NoRuleRequest \in RuleRequest
    BY DEF NoRuleRequest, RuleRequest
  <2>3. rules' \in [RuleRequests -> RuleRequest]
    BY <2>2 DEF Restart
  <2> QED BY <2>1, <2>3, AttendanceDailyAssumption DEF Restart, GenSafe, GenTypes
<1>3. /\ RowsOK(attendances', daily') /\ NoOlderBeneath'
      /\ LocksInv' /\ \A g \in Generations : GenOK(gens'[g]) /\ Knows(gens'[g], attendances', daily')
  BY <1>1, IdleOK DEF Restart, GenSafe, NoOlderBeneath, LocksInv, Knows
<1>4. RulesInv'
  BY DEF Restart, RulesInv, NoRuleRequest
<1> QED
  BY <1>2, <1>3, <1>4 DEF GenSafe, Restart

\* The records change with a commit and not otherwise.
RowStep == UNCHANGED daily \/ \E g \in Generations : Stored(g)

LEMMA GenKept ==
  ASSUME GenSafe, [Next]_vars
  PROVE  GenSafe' /\ RowStep
<1>0. plan \in Rule /\ rule_row \in Rule \cup {None}
  BY DEF GenSafe, GenTypes
<1>1. ASSUME NEW g \in Generations, Moved(g), UNCHANGED ruleVars
      PROVE  GenSafe' /\ RowStep
  <2>1. UNCHANGED daily
    BY <1>1 DEF Moved
  <2> QED BY <1>0, <1>1, <2>1, MovedKept DEF ruleVars, RowStep
<1>2. ASSUME NEW g \in Generations,
             AcquireLock(g) \/ AcquireGenerationLock(g) \/ LoadRule(g) \/ CreateRule(g)
      PROVE  GenSafe' /\ RowStep
  <2>1. Moved(g) /\ plan' \in Rule /\ rule_row' \in Rule \cup {None} /\ UNCHANGED rules
        /\ (rule_row # None => rule_row' # None)
    BY <1>2, EarlyMoved
  <2>2. UNCHANGED daily
    BY <2>1 DEF Moved
  <2> QED BY <2>1, <2>2, MovedKept DEF RowStep
<1>3. ASSUME NEW g \in Generations,
             \/ ReadPunches(g) \/ SkipExisting(g) \/ SelectUsers(g) \/ ListYears(g) \/ YearStatement(g)
             \/ YearError(g) \/ ListHolidays(g) \/ DeleteRecords(g) \/ WakeRecords(g) \/ CloseAnswer(g)
             \/ \E key \in Keys, force \in BOOLEAN : Generate(g, key, force)
      PROVE  GenSafe' /\ RowStep
  <2>1. Moved(g)
    BY <1>3, ReadPunchesMoved, SkipMoved, YearMoved, ListHolidaysMoved, DeleteMoved, WakeMoved, EndMoved,
       GenerateMoved
  <2>2. UNCHANGED ruleVars
    BY <1>3 DEF ReadPunches, SkipExisting, SelectUsers, ListYears, YearStatement, YearError, ListHolidays,
       DeleteRecords, WakeRecords, CloseAnswer, Generate
  <2> QED BY <1>1, <2>1, <2>2
<1>4. ASSUME NEW g \in Generations, CommitRecords(g) \/ FailGeneration(g)
      PROVE  GenSafe' /\ RowStep
  <2>1. UNCHANGED ruleVars
    BY <1>4 DEF CommitRecords, FailGeneration
  <2>2. Stored(g) \/ Moved(g)
    BY <1>4, CommitStored, EndMoved DEF FailGeneration
  <2> QED BY <1>1, <2>1, <2>2, StoredKept DEF RowStep
<1>5. CASE Restart
  BY <1>5, RestartKept DEF RowStep
<1>6. CASE Elsewhere
  BY <1>6, ElsewhereKept DEF RowStep, Elsewhere
<1>7. CASE \E x \in RuleRequests : RuleStep(x) \/ (\E body \in RuleBodies \cup {None} : AskForRule(x, body))
                                   \/ FailRule(x)
  BY <1>6, <1>7, RuleElsewhere DEF RuleStep
<1>8. CASE \/ \E p \in Punches : PunchArrives(p)
           \/ TimePasses
           \/ UNCHANGED <<generationVars, ruleVars>>
  BY <1>6, <1>8, OthersElsewhere
<1>9. CASE \E g \in Generations : Step(g)
  BY <1>2, <1>3, <1>4, <1>9 DEF Step
<1>10. CASE \E g \in Generations : \/ \E key \in Keys, force \in BOOLEAN : Generate(g, key, force)
                                   \/ FailGeneration(g) \/ YearError(g)
  BY <1>3, <1>4, <1>10
<1> QED
  BY <1>5, <1>7, <1>8, <1>9, <1>10 DEF Next, Work, vars

LEMMA InitGenSafe == ASSUME Init PROVE GenSafe
<1> DEFINE upto == EffectiveEnd(Clock[1].day, Clock[1].second, DefaultRule.plan_end, LastDay)
           saw == {p \in Earlier : PunchAt[p].day <= upto /\ PunchAt[p].user_id \in Registered}
           W == WorkdayMap
           B == [u \in Users |-> IF \E p \in saw : PunchAt[p].user_id = u THEN DefaultRule ELSE None]
           q == [Idle EXCEPT !.upto = upto, !.saw = saw, !.workdays = W, !.built = B]
<1>1. 1 \in 1 .. Len(Clock) /\ DefaultRule \in Rule
  BY AttendanceDailyAssumption
<1>2. /\ upto \in 0 .. LastDay /\ saw \subseteq Earlier /\ Earlier \subseteq Punches
      /\ W \in [Days -> BOOLEAN] /\ B \in [Users -> Rule \cup {None}]
  BY <1>1, EndTyped, WorkdayMapTyped, AttendanceDailyAssumption
<1>3. q \in Gen /\ q.saw = saw
  <2> HIDE DEF upto, saw, W, B
  <2> QED BY <1>2, IdleOK DEF Gen
<1>4. Listed = [k \in UserDays |-> IF k \in Written(q) THEN NewRow(q, k, 1) ELSE None]
  BY DEF Listed
<1>5. attendances = Earlier /\ (daily = [k \in UserDays |-> None] \/ daily = Listed)
  BY DEF Init
<1> HIDE DEF q, saw
<1>6. ASSUME NEW k \in UserDays
      PROVE  \/ daily[k] = None
             \/ /\ daily[k] \in DailyRow /\ RowOK(daily[k], k) /\ daily[k].id = 1
                /\ daily[k].punches \subseteq Earlier
  <2>1. CASE daily = Listed /\ k \in Written(q)
    <3>1. daily[k] = NewRow(q, k, 1) /\ q.built[k[1]] # None
      BY <1>4, <2>1 DEF Written
    <3>2. PunchesOf(q, k) \subseteq Earlier
      BY <1>2, <1>3 DEF PunchesOf
    <3> QED BY <1>3, <3>1, <3>2, NewRowTyped
  <2> QED BY <1>4, <1>5, <2>1
<1>7. daily \in [UserDays -> DailyRow \cup {None}]
  <2>1. \E F : daily = [k \in UserDays |-> F[k]]
    <3> DEFINE F == [k \in UserDays |-> None]
               E == [k \in UserDays |-> IF k \in Written(q) THEN NewRow(q, k, 1) ELSE None]
    <3>1. F = [k \in UserDays |-> F[k]] /\ E = [k \in UserDays |-> E[k]]
      OBVIOUS
    <3>2. daily = F \/ daily = E
      BY <1>4, <1>5
    <3> HIDE DEF E, F
    <3> QED BY <3>1, <3>2
  <2> QED BY <1>6, <2>1
<1>8. NoRuleRequest \in RuleRequest /\ NoRuleRequest.loaded = None
  BY DEF NoRuleRequest, RuleRequest
<1>9. GenTypes
  <2>1. rules \in [RuleRequests -> RuleRequest] /\ gens \in [Generations -> Gen]
    BY <1>8, IdleOK DEF Init
  <2>2. rule_row \in Rule \cup {None} /\ plan \in Rule /\ moment \in 1 .. Len(Clock)
    BY <1>1 DEF Init
  <2> QED BY <1>2, <1>7, <2>1, <2>2 DEF GenTypes, Init
<1>10. RowsOK(attendances, daily)
  BY <1>5, <1>6 DEF RowsOK
<1>11. NoOlderBeneath
  <2> SUFFICES ASSUME NEW u \in Users, NEW d \in 1 .. LastDay, NEW e \in 1 .. LastDay,
                      daily[<<u, d>>] # None, daily[<<u, e>>] # None
               PROVE  daily[<<u, d>>].id >= daily[<<u, e>>].id
    BY DEF NoOlderBeneath
  <2>1. <<u, d>> \in UserDays /\ <<u, e>> \in UserDays
    BY DEF UserDays
  <2>2. daily[<<u, d>>].id = 1 /\ daily[<<u, e>>].id = 1
    BY <1>6, <2>1
  <2> QED BY <2>2
<1>12. /\ LocksInv /\ RulesInv
       /\ \A g \in Generations : GenOK(gens[g]) /\ Knows(gens[g], attendances, daily)
  BY <1>8, IdleOK DEF Init, LocksInv, RulesInv, Knows
<1> QED
  BY <1>9, <1>10, <1>11, <1>12 DEF GenSafe

-----------------------------------------------------------------------------
(* Both together *)

LEMMA CacheSide ==
  ASSUME CacheSafe, [Next]_vars
  PROVE  CacheMove \/ UNCHANGED cacheVars
<1>0. CacheTypeOK /\ FlagInv /\ started \in 0 .. MaxRequests /\ views \in [Views -> ViewPlaces]
  BY DEF CacheSafe, CacheTypeOK, ViewPlaces
<1>1. ASSUME NEW g \in Generations, TxMove(g), UNCHANGED <<managerVars, views, cacheSettingsVars, started>>
      PROVE  CacheMove
  <2>1. g \in Sessions \ Refreshes
    BY AttendanceDailyAssumption
  <2>2. SessionMove(g)
    BY <1>0, <1>1 DEF SessionMove
  <2> QED BY <2>1, <2>2 DEF CacheMove
<1>2. ASSUME NEW g \in Generations, ListYears(g) \/ YearStatement(g) \/ YearError(g) \/ FailGeneration(g)
      PROVE  CacheMove
  <2>1. TxMove(g)
    BY <1>2 DEF ListYears, YearStatement, YearError, FailGeneration, TxMove
  <2>2. UNCHANGED <<managerVars, views, cacheSettingsVars, started>>
    BY <1>2 DEF ListYears, YearStatement, YearError, FailGeneration
  <2> QED BY <1>1, <2>1, <2>2
<1>3. CASE \E g \in Generations : Step(g)
  BY <1>2, <1>3 DEF Step, AcquireLock, AcquireGenerationLock, LoadRule, CreateRule, ReadPunches, SkipExisting,
    SelectUsers, ListHolidays, DeleteRecords, WakeRecords, CommitRecords, CloseAnswer
<1>4. CASE \E g \in Generations : \/ \E key \in Keys, force \in BOOLEAN : Generate(g, key, force)
                                  \/ FailGeneration(g) \/ YearError(g)
  BY <1>2, <1>4 DEF Generate, CacheMove
<1>5. CASE \E x \in RuleRequests : RuleStep(x) \/ (\E body \in RuleBodies \cup {None} : AskForRule(x, body))
                                   \/ FailRule(x)
  BY <1>5 DEF RuleStep, GetRule, CommitRule, FailRule, AskForRule, CacheMove
<1>6. CASE CacheNext
  BY <1>0, <1>6, CacheMoves
<1>7. CASE (\E p \in Punches : PunchArrives(p)) \/ TimePasses \/ UNCHANGED vars
  BY <1>7 DEF PunchArrives, TimePasses, vars
<1>8. CASE Restart
  BY <1>8 DEF Restart, CacheMove
<1>9. CASE CacheWork
  BY <1>6, <1>9 DEF CacheNext
<1> QED
  BY <1>3, <1>4, <1>5, <1>6, <1>7, <1>8, <1>9 DEF Next, Work

IInv == CacheSafe /\ GenSafe

LEMMA NextSafe ==
  ASSUME IInv, [Next]_vars
  PROVE  /\ IInv'
         /\ RowStep /\ CalendarKept
         /\ [Flag!Next]_(Flag!vars)
<1>1. GenSafe' /\ RowStep
  BY GenKept DEF IInv
<1>2. CacheMove \/ UNCHANGED cacheVars
  BY CacheSide DEF IInv
<1>3. CacheSafe' /\ CalendarKept
  <2>1. CASE CacheMove
    BY <2>1, CacheMoveKept DEF IInv
  <2>2. CASE UNCHANGED cacheVars
    BY <2>2 DEF IInv, CacheSafe, CacheTypeOK, FlagInv, JobSurvivesRestart, CalendarKept, Busy, Refreshing,
      cacheVars, managerVars, cacheSettingsVars
  <2> QED BY <1>2, <2>1, <2>2
<1>4. [Flag!Next]_(Flag!vars)
  BY <1>2, <1>3, FlagStep DEF IInv
<1> QED
  BY <1>1, <1>3, <1>4 DEF IInv

LEMMA Invariance == Spec => []IInv
<1>1. Init => IInv
  BY InitGenSafe, CacheInitSafe DEF Init, IInv
<1>2. IInv /\ [Next]_vars => IInv'
  BY NextSafe
<1> QED
  BY <1>1, <1>2, PTL DEF Spec

-----------------------------------------------------------------------------
(* Waiting: what a generation has while it waits *)

\* The rows of the days are deleted user by user, in one order; whoever waits
\* for rows waits for those of the next user.
Orderly(q) ==
  /\ q.advisory => q.pc \notin {"idle", "lock", "advisory"}
  /\ q.deleted # {} => q.pc \in {"delete", "blocked", "commit"}
  /\ q.snapshot # {} => q.pc = "blocked"
  /\ \A k \in q.snapshot : k[1] = Next1(q.todo)
  /\ \A k \in q.deleted, u \in q.todo : k[1] < u
OrderInv == \A g \in Generations : Orderly(gens[g])

\* A generation that has not deleted yet.
Unwritten(q) == q.pc \notin {"delete", "blocked", "commit"}

LEMMA UnwrittenOrderly ==
  ASSUME NEW q, Orderly(q), Unwritten(q), NEW r, r.deleted = q.deleted, r.snapshot = q.snapshot,
         r.pc \notin {"idle", "lock", "advisory"} \/ ~r.advisory
  PROVE  Orderly(r)
  BY DEF Orderly, Unwritten

LEMMA NextIsFirst ==
  ASSUME NEW S \in SUBSET Users, S # {}
  PROVE  \A w \in S \ {Next1(S)} : Next1(S) < w
<1>1. S \in SUBSET Nat
  BY AttendanceDailyAssumption
<1>2. \E u \in S : \A w \in S : u <= w
  BY <1>1, EarliestExists
<1>3. Next1(S) \in S /\ \A w \in S : Next1(S) <= w
  BY <1>2 DEF Next1
<1> SUFFICES ASSUME NEW w \in S, w # Next1(S) PROVE Next1(S) < w
  OBVIOUS
<1>4. Next1(S) \in Nat /\ w \in Nat /\ Next1(S) <= w
  BY <1>1, <1>3
<1> QED
  BY <1>4

\* The next user's rows are added, and there is nothing to wait for.
LEMMA BuildOrderly ==
  ASSUME NEW q \in Gen, NEW D, D = q.deleted, q.snapshot = {},
         \A k \in D, u \in q.todo : k[1] < u
  PROVE  Orderly(BuildNext(q))
<1>1. CASE q.todo = {}
  <2> DEFINE r == [q EXCEPT !.pc = "commit"]
  <2>1. r.pc = "commit" /\ r.todo = q.todo /\ r.snapshot = q.snapshot /\ r.deleted = q.deleted
    BY DEF Gen
  <2>2. BuildNext(q) = r
    BY <1>1 DEF BuildNext
  <2> HIDE DEF r
  <2> QED BY <2>1, <2>2 DEF Orderly
<1>2. CASE q.todo # {}
  <2> DEFINE u == Next1(q.todo)
             r == [q EXCEPT !.pc = "delete", !.built[u] = plan]
  <2> HIDE DEF u
  <2>1. r.pc = "delete" /\ r.todo = q.todo /\ r.snapshot = q.snapshot /\ r.deleted = q.deleted
    BY DEF Gen
  <2>2. BuildNext(q) = r
    BY <1>2 DEF BuildNext, u
  <2> HIDE DEF r
  <2> QED BY <2>1, <2>2 DEF Orderly
<1> QED
  BY <1>1, <1>2

\* A step of one generation keeps the others orderly.
LEMMA PutOrderly ==
  ASSUME GenSafe, OrderInv, NEW g \in Generations, NEW r, Orderly(r), Put(g, r)
  PROVE  OrderInv'
  BY DEF GenSafe, GenTypes, OrderInv, Put

LEMMA IdleOrderly == Orderly(Idle)
  BY DEF Orderly, Idle

LEMMA EarlyOrderly ==
  ASSUME GenSafe, OrderInv, NEW g \in Generations,
         \/ \E key \in Keys, force \in BOOLEAN : Generate(g, key, force)
         \/ AcquireLock(g) \/ AcquireGenerationLock(g) \/ LoadRule(g) \/ CreateRule(g)
  PROVE  OrderInv'
<1> DEFINE q == gens[g]
<1>0. q \in Gen /\ Orderly(q)
  BY DEF GenSafe, GenTypes, OrderInv
<1>1. CASE \E key \in Keys, force \in BOOLEAN : Generate(g, key, force)
  <2>1. PICK key \in Keys, force \in BOOLEAN : Put(g, [Idle EXCEPT !.pc = "lock", !.key = key, !.force = force])
    BY <1>1 DEF Generate
  <2> DEFINE r == [Idle EXCEPT !.pc = "lock", !.key = key, !.force = force]
  <2>2. Orderly(r)
    BY DEF Orderly, Idle
  <2> HIDE DEF r
  <2> QED BY <2>1, <2>2, PutOrderly DEF r
<1>2. CASE AcquireLock(g)
  <2> DEFINE r == [q EXCEPT !.pc = "advisory"]
  <2>1. Put(g, r) /\ q.pc = "lock"
    BY <1>2 DEF AcquireLock
  <2>2. r.deleted = q.deleted /\ r.snapshot = q.snapshot /\ r.advisory = q.advisory
    BY <1>0 DEF Gen
  <2>3. ~q.advisory /\ Unwritten(q)
    BY <1>0, <2>1 DEF Orderly, Unwritten
  <2> HIDE DEF r, q
  <2> QED BY <1>0, <2>1, <2>2, <2>3, UnwrittenOrderly, PutOrderly
<1>3. ASSUME NEW r, Put(g, r), r.deleted = q.deleted, r.snapshot = q.snapshot,
             r.pc \in {"rule", "rule_commit", "punches"}, Unwritten(q)
      PROVE  OrderInv'
  BY <1>0, <1>3, UnwrittenOrderly, PutOrderly
<1>4. CASE AcquireGenerationLock(g)
  <2> DEFINE r == [q EXCEPT !.pc = "rule", !.advisory = TRUE]
  <2>1. Put(g, r) /\ Unwritten(q)
    BY <1>4 DEF AcquireGenerationLock, Unwritten
  <2>2. r.deleted = q.deleted /\ r.snapshot = q.snapshot /\ r.pc = "rule"
    BY <1>0 DEF Gen
  <2> HIDE DEF r, q
  <2> QED BY <1>3, <2>1, <2>2
<1>5. ASSUME NEW s \in Gen, s.deleted = q.deleted, s.snapshot = q.snapshot, NEW rule, WithRule(g, s, rule), Unwritten(q)
      PROVE  OrderInv'
  <2> DEFINE upto == EffectiveEnd(Clock[moment].day, Clock[moment].second, rule.plan_end, LastDay)
             r == [s EXCEPT !.pc = "punches", !.upto = upto]
  <2>1. Put(g, r)
    BY <1>5 DEF WithRule
  <2> HIDE DEF upto
  <2>2. r.deleted = s.deleted /\ r.snapshot = s.snapshot /\ r.pc = "punches"
    BY DEF Gen
  <2> HIDE DEF r, q
  <2> QED BY <1>3, <1>5, <2>1, <2>2
<1>6. CASE LoadRule(g)
  <2>1. Unwritten(q)
    BY <1>6 DEF LoadRule, Unwritten
  <2>2. CASE Put(g, [q EXCEPT !.pc = "rule_commit"])
    <3> DEFINE r == [q EXCEPT !.pc = "rule_commit"]
    <3>1. r.deleted = q.deleted /\ r.snapshot = q.snapshot /\ r.pc = "rule_commit"
      BY <1>0 DEF Gen
    <3>2. Put(g, r)
      BY <2>2
    <3> HIDE DEF r, q
    <3> QED BY <1>3, <2>1, <3>1, <3>2
  <2>3. CASE WithRule(g, q, rule_row)
    BY <1>0, <1>5, <2>1, <2>3
  <2> QED BY <1>6, <2>2, <2>3 DEF LoadRule
<1>7. CASE CreateRule(g)
  <2> DEFINE s == [q EXCEPT !.advisory = FALSE]
  <2>1. s \in Gen /\ s.deleted = q.deleted /\ s.snapshot = q.snapshot
    BY <1>0 DEF Gen
  <2>2. WithRule(g, s, DefaultRule) /\ Unwritten(q)
    BY <1>7 DEF CreateRule, Unwritten
  <2> HIDE DEF s, q
  <2> QED BY <1>5, <2>1, <2>2
<1> QED
  BY <1>1, <1>2, <1>4, <1>6, <1>7

LEMMA ReadOrderly ==
  ASSUME GenSafe, OrderInv, NEW g \in Generations,
         \/ ReadPunches(g) \/ SkipExisting(g) \/ SelectUsers(g) \/ ListYears(g) \/ YearStatement(g) \/ YearError(g)
  PROVE  OrderInv'
<1> DEFINE q == gens[g]
<1>0. q \in Gen /\ Orderly(q) /\ Unwritten(q)
  BY DEF GenSafe, GenTypes, OrderInv, Unwritten, ReadPunches, SkipExisting, SelectUsers, ListYears, YearStatement,
     YearError
<1>1. ASSUME NEW r, Put(g, r), r.deleted = q.deleted, r.snapshot = q.snapshot,
             r.pc \in {"answer", "delete", "existing", "users", "years", "year", "holidays"}
      PROVE  OrderInv'
  BY <1>0, <1>1, UnwrittenOrderly, PutOrderly
<1>2. ASSUME NEW pc \in {"answer", "year", "holidays"}, Put(g, [q EXCEPT !.pc = pc])
      PROVE  OrderInv'
  <2> DEFINE r == [q EXCEPT !.pc = pc]
  <2>1. r.deleted = q.deleted /\ r.snapshot = q.snapshot /\ r.pc = pc
    BY <1>0 DEF Gen
  <2>2. Put(g, r)
    BY <1>2
  <2> HIDE DEF r, q
  <2> QED BY <1>1, <2>1, <2>2
<1>3. ASSUME NEW pc \in {"delete", "users", "years"}, NEW todo, Put(g, [q EXCEPT !.pc = pc, !.todo = todo])
      PROVE  OrderInv'
  <2> DEFINE r == [q EXCEPT !.pc = pc, !.todo = todo]
  <2>1. r.deleted = q.deleted /\ r.snapshot = q.snapshot /\ r.pc = pc
    BY <1>0 DEF Gen
  <2>2. Put(g, r)
    BY <1>3
  <2> HIDE DEF r, q
  <2> QED BY <1>1, <2>1, <2>2
<1>4. CASE ReadPunches(g)
  <2> DEFINE seen == {p \in attendances : PunchAt[p].user_id \in Wanted(q) /\ PunchAt[p].day <= q.upto}
             pc == IF q.force THEN "users" ELSE "existing"
             todo == {PunchAt[p].user_id : p \in seen}
             r == [q EXCEPT !.pc = pc, !.saw = seen, !.todo = todo]
  <2>1. \/ Put(g, [q EXCEPT !.pc = "answer"])
        \/ Put(g, [q EXCEPT !.pc = "delete", !.todo = {q.key}])
        \/ Put(g, r)
    BY <1>4 DEF ReadPunches, Answer
  <2>2. pc \in {"users", "existing"}
    OBVIOUS
  <2> HIDE DEF seen, todo, pc
  <2>3. r.deleted = q.deleted /\ r.snapshot = q.snapshot /\ r.pc = pc
    BY <1>0 DEF Gen
  <2> HIDE DEF r
  <2>4. CASE Put(g, r)
    BY <1>1, <2>2, <2>3, <2>4
  <2> HIDE DEF q
  <2> QED BY <1>2, <1>3, <2>1, <2>4
<1>5. CASE SkipExisting(g)
  <2> DEFINE left == {u \in q.todo : \A d \in 1 .. q.upto : daily[<<u, d>>] = None}
  <2>1. Put(g, [q EXCEPT !.pc = "answer"]) \/ Put(g, [q EXCEPT !.pc = "users", !.todo = left])
    BY <1>5 DEF SkipExisting, Answer
  <2> HIDE DEF left, q
  <2> QED BY <1>2, <1>3, <2>1
<1>6. CASE SelectUsers(g)
  <2> DEFINE left == q.todo \cap Registered
  <2>1. Put(g, [q EXCEPT !.pc = "answer"]) \/ Put(g, [q EXCEPT !.pc = "years", !.todo = left])
    BY <1>6 DEF SelectUsers, Answer
  <2> HIDE DEF left, q
  <2> QED BY <1>2, <1>3, <2>1
<1>7. CASE ListYears(g) \/ YearStatement(g) \/ YearError(g)
  <2> DEFINE r == [q EXCEPT !.pc = "holidays", !.advisory = FALSE]
  <2>1. \/ Put(g, [q EXCEPT !.pc = "year"]) \/ Put(g, [q EXCEPT !.pc = "holidays"])
        \/ Put(g, r) \/ UNCHANGED gens
    BY <1>7 DEF ListYears, YearStatement, YearError
  <2>2. r.deleted = q.deleted /\ r.snapshot = q.snapshot /\ r.pc = "holidays"
    BY <1>0 DEF Gen
  <2> HIDE DEF r
  <2>3. CASE Put(g, r)
    BY <1>1, <2>2, <2>3
  <2>4. CASE UNCHANGED gens
    BY <2>4 DEF OrderInv
  <2> HIDE DEF q
  <2> QED BY <1>2, <2>1, <2>3, <2>4
<1> QED
  BY <1>4, <1>5, <1>6, <1>7

LEMMA WriteOrderly ==
  ASSUME GenSafe, OrderInv, NEW g \in Generations, ListHolidays(g) \/ DeleteRecords(g) \/ WakeRecords(g)
  PROVE  OrderInv'
<1> DEFINE q == gens[g]
           u == Next1(q.todo)
<1>0. q \in Gen /\ Orderly(q) /\ GenOK(q)
  BY DEF GenSafe, GenTypes, OrderInv
<1>1. CASE ListHolidays(g)
  <2> DEFINE W == WorkdayMap
             s == [q EXCEPT !.workdays = W]
  <2>1. Put(g, BuildNext(s)) /\ W \in [Days -> BOOLEAN] /\ q.deleted = {} /\ q.snapshot = {}
    BY <1>0, <1>1, WorkdayMapTyped DEF ListHolidays, Orderly
  <2> HIDE DEF q, W
  <2>2. s \in Gen /\ s.deleted = q.deleted /\ s.snapshot = q.snapshot
    BY <1>0, <2>1 DEF Gen
  <2> HIDE DEF s
  <2>3. Orderly(BuildNext(s))
    BY <2>1, <2>2, BuildOrderly
  <2> QED BY <2>1, <2>3, PutOrderly
<1>2. q.todo \in SUBSET Users
  BY <1>0 DEF Gen
<1>3. ASSUME NEW R \in SUBSET UserDays, \A k \in R : k[1] = u, q.todo # {},
             Put(g, BuildNext([q EXCEPT !.todo = q.todo \ {u}, !.snapshot = {}, !.deleted = q.deleted \cup R]))
      PROVE  OrderInv'
  <2> DEFINE T == q.todo \ {u}
             D == q.deleted \cup R
             s == [q EXCEPT !.todo = T, !.snapshot = {}, !.deleted = D]
  <2>1. T \in SUBSET Users /\ D \in SUBSET UserDays
    BY <1>0 DEF Gen
  <2>2. \A k \in D, w \in T : k[1] < w
    <3>1. u \in q.todo /\ \A w \in T : u < w
      BY <1>2, <1>3, NextExists, NextIsFirst
    <3>2. \A k \in q.deleted, w \in T : k[1] < w
      BY <1>0 DEF Orderly
    <3> QED BY <1>3, <3>1, <3>2
  <2> HIDE DEF T, D
  <2>3. s \in Gen /\ s.deleted = D /\ s.snapshot = {} /\ s.todo = T
    <3> HIDE DEF q
    <3> QED BY <1>0, <2>1 DEF Gen
  <2>4. Put(g, BuildNext(s))
    BY <1>3 DEF T, D
  <2> HIDE DEF s, q
  <2>5. Orderly(BuildNext(s))
    BY <2>2, <2>3, BuildOrderly
  <2> QED BY <2>4, <2>5, PutOrderly
<1>4. CASE DeleteRecords(g)
  <2> DEFINE rows == RowsOf(u, q.upto)
  <2>1. q.todo # {} /\ q.snapshot = {} /\ q.pc = "delete"
    BY <1>0, <1>4 DEF DeleteRecords, Orderly, GenOK, Ready
  <2>2. rows \in SUBSET UserDays /\ \A k \in rows : k[1] = u
    <3>1. u \in Users /\ q.upto \in 0 .. LastDay /\ LastDay \in Nat
      <4>1. u \in q.todo
        BY <1>2, <2>1, NextExists
      <4> QED BY <1>0, <1>2, <4>1, AttendanceDailyAssumption DEF Gen
    <3> HIDE DEF u, q
    <3> QED BY <3>1 DEF RowsOf, UserDays
  <2>3. CASE rows \cap DeletedByOthers(g) # {}
    <3> DEFINE r == [q EXCEPT !.pc = "blocked", !.snapshot = rows]
    <3>1. Put(g, r)
      BY <1>4, <2>3 DEF DeleteRecords
    <3> HIDE DEF rows
    <3>2. r.pc = "blocked" /\ r.snapshot = rows /\ r.todo = q.todo /\ r.deleted = q.deleted /\ r.advisory = q.advisory
      <4> HIDE DEF q
      <4> QED BY <1>0 DEF Gen
    <3> HIDE DEF r
    <3>3. Orderly(r)
      BY <1>0, <2>2, <3>2 DEF Orderly
    <3> QED BY <3>1, <3>3, PutOrderly
  <2>4. CASE rows \cap DeletedByOthers(g) = {}
    <3> DEFINE T == q.todo \ {u}
               D == q.deleted \cup rows
    <3>1. Put(g, BuildNext([q EXCEPT !.todo = T, !.deleted = D]))
      BY <1>4, <2>4 DEF DeleteRecords
    <3>2. [q EXCEPT !.todo = T, !.deleted = D] = [q EXCEPT !.todo = T, !.snapshot = {}, !.deleted = D]
      <4> HIDE DEF T, D
      <4>1. q.snapshot = {} /\ q \in Gen
        BY <1>0, <2>1
      <4> HIDE DEF q
      <4> QED BY <4>1 DEF Gen
    <3>3. Put(g, BuildNext([q EXCEPT !.todo = T, !.snapshot = {}, !.deleted = D]))
      BY <3>1, <3>2
    <3> QED BY <1>3, <2>1, <2>2, <3>3
  <2> QED BY <2>3, <2>4
<1>5. CASE WakeRecords(g)
  <2>1. q.todo # {} /\ q.snapshot \in SUBSET UserDays /\ \A k \in q.snapshot : k[1] = u
    BY <1>0, <1>5 DEF WakeRecords, Orderly, GenOK, Ready, Gen
  <2>2. Put(g, BuildNext([q EXCEPT !.todo = q.todo \ {u}, !.snapshot = {}, !.deleted = q.deleted \cup q.snapshot]))
    BY <1>5 DEF WakeRecords
  <2> QED BY <1>3, <2>1, <2>2
<1> QED
  BY <1>1, <1>4, <1>5

LEMMA CommitOrderly ==
  ASSUME GenSafe, OrderInv, NEW g \in Generations, CommitRecords(g) \/ FailGeneration(g) \/ CloseAnswer(g)
  PROVE  OrderInv'
<1> DEFINE q == gens[g]
           gone == q.deleted \cup Written(q)
<1>0. q \in Gen /\ Orderly(q)
  BY DEF GenSafe, GenTypes, OrderInv
<1>1. CASE Put(g, Idle)
  BY <1>1, IdleOrderly, PutOrderly
<1>2. ASSUME NEW after, Commit(g, after), Orderly(after)
      PROVE  OrderInv'
  <2>1. gens' = [h \in Generations |-> IF h = g THEN after ELSE [gens[h] EXCEPT !.snapshot = @ \ gone]]
    BY <1>2 DEF Commit
  <2> HIDE DEF gone
  <2>2. ASSUME NEW h \in Generations \ {g}
        PROVE  Orderly(gens'[h])
    <3> DEFINE p == gens[h]
               S == p.snapshot \ gone
               r == [p EXCEPT !.snapshot = S]
    <3>1. p \in Gen /\ Orderly(p) /\ gens'[h] = r
      BY <2>1 DEF GenSafe, GenTypes, OrderInv
    <3>2. S \subseteq p.snapshot
      OBVIOUS
    <3> HIDE DEF p, S
    <3>3. r.pc = p.pc /\ r.snapshot = S /\ r.todo = p.todo /\ r.deleted = p.deleted /\ r.advisory = p.advisory
      BY <3>1 DEF Gen
    <3> HIDE DEF r
    <3>4. Orderly(r)
      BY <3>1, <3>2, <3>3 DEF Orderly
    <3> QED BY <3>1, <3>4
  <2> QED BY <1>2, <2>1, <2>2 DEF OrderInv
<1>3. CASE CommitRecords(g)
  <2> DEFINE r == [q EXCEPT !.pc = "answer", !.advisory = FALSE, !.deleted = {}]
  <2>1. Commit(g, r) /\ q.pc = "commit"
    BY <1>3 DEF CommitRecords, Commit
  <2>2. r.deleted = {} /\ r.snapshot = q.snapshot /\ r.advisory = FALSE /\ q.snapshot = {}
    BY <1>0, <2>1 DEF Gen, Orderly
  <2> HIDE DEF r
  <2>3. Orderly(r)
    BY <2>2 DEF Orderly
  <2> QED BY <1>2, <2>1, <2>3
<1> QED
  BY <1>1, <1>2, <1>3, IdleOrderly DEF FailGeneration, CloseAnswer

LEMMA OrderKept ==
  ASSUME GenSafe, OrderInv, [Next]_vars
  PROVE  OrderInv'
<1>1. CASE \E g \in Generations : Step(g)
  BY <1>1, EarlyOrderly, ReadOrderly, WriteOrderly, CommitOrderly DEF Step
<1>2. CASE \E g \in Generations : \/ \E key \in Keys, force \in BOOLEAN : Generate(g, key, force)
                                  \/ FailGeneration(g) \/ YearError(g)
  BY <1>2, EarlyOrderly, ReadOrderly, CommitOrderly
<1>3. CASE UNCHANGED gens
  BY <1>3 DEF OrderInv
<1>4. CASE \E x \in RuleRequests : RuleStep(x) \/ (\E body \in RuleBodies \cup {None} : AskForRule(x, body))
                                   \/ FailRule(x)
  BY <1>3, <1>4 DEF RuleStep, GetRule, CommitRule, FailRule, AskForRule, generationVars
<1>5. CASE (\E p \in Punches : PunchArrives(p)) \/ TimePasses \/ UNCHANGED <<generationVars, ruleVars>>
  BY <1>3, <1>5 DEF PunchArrives, TimePasses, generationVars
<1>6. CASE Restart
  BY <1>6, IdleOrderly DEF Restart, OrderInv
<1> QED
  BY <1>1, <1>2, <1>4, <1>5, <1>6 DEF Next, Work, vars

\* Who has deleted the rows of the year goes on to its commit, and a session
\* with a call of refresh_year under way belongs to somebody who is at it.
TxLocks == \A s \in Sessions : tx[s].locks => tx[s].pc = "commit"
YearInv ==
  /\ \A v \in Views : Busy(v) => views[v] = "refresh"
  /\ \A g \in Generations : Busy(g) => gens[g].pc = "year"
  /\ \A s \in Sessions \ (Refreshes \cup Views \cup Generations) : ~Busy(s)

LEMMA TxMoveLocks ==
  ASSUME CacheTypeOK, TxLocks, NEW s \in Sessions, TxMove(s)
  PROVE  TxLocks'
<1>1. tx \in [Sessions -> Tx] /\ tx[s] \in Tx
  BY DEF CacheTypeOK
<1>2. ASSUME NEW q, PutTx(s, q), q.locks => q.pc = "commit"
      PROVE  TxLocks'
  BY <1>1, <1>2 DEF PutTx, TxLocks
<1>3. NoTx.locks = FALSE /\ Doomed.locks = FALSE
  BY DEF NoTx, Doomed
<1>4. ASSUME NEW after \in {NoTx, Doomed}, CommitYear(s, after)
      PROVE  TxLocks'
  <2>1. ASSUME NEW w \in Sessions
        PROVE  tx'[w].locks => tx'[w].pc = "commit"
    <3>1. CASE w = s
      BY <1>3, <1>4, <3>1 DEF CommitYear
    <3>2. CASE w # s /\ tx'[w] = tx[w]
      BY <3>2 DEF TxLocks
    <3>3. CASE w # s /\ tx'[w] = [tx[w] EXCEPT !.pc = "commit"]
      BY <1>1, <3>3 DEF Tx
    <3> QED BY <1>4, <3>1, <3>2, <3>3 DEF CommitYear
  <2> QED BY <2>1 DEF TxLocks
<1>5. CASE UNCHANGED <<calendar, tx>>
  BY <1>5 DEF TxLocks
<1>6. CASE FetchYear(s)
  BY <1>2, <1>6 DEF FetchYear
<1>7. CASE DeleteYear(s)
  <2> DEFINE b == calendar # NoRows
  <2>1. /\ ~tx[s].locks
        /\ \/ PutTx(s, [tx[s] EXCEPT !.pc = "waiting"])
           \/ PutTx(s, [tx[s] EXCEPT !.pc = "commit", !.locks = b])
    BY <1>7 DEF DeleteYear, TxLocks
  <2> HIDE DEF b
  <2>2. CASE PutTx(s, [tx[s] EXCEPT !.pc = "waiting"])
    <3>1. ~[tx[s] EXCEPT !.pc = "waiting"].locks
      BY <1>1, <2>1 DEF Tx
    <3> QED BY <1>2, <2>2, <3>1
  <2>3. CASE PutTx(s, [tx[s] EXCEPT !.pc = "commit", !.locks = b])
    <3>1. [tx[s] EXCEPT !.pc = "commit", !.locks = b].pc = "commit"
      BY <1>1 DEF Tx
    <3> QED BY <1>2, <2>3, <3>1
  <2> QED BY <2>1, <2>2, <2>3
<1>8. CASE WakeDelete(s)
  <2>1. [tx[s] EXCEPT !.pc = "commit", !.locks = TRUE].pc = "commit"
    BY <1>1 DEF Tx
  <2> QED BY <1>2, <1>8, <2>1 DEF WakeDelete
<1>9. CASE PutTx(s, NoTx) \/ PutTx(s, Doomed)
  BY <1>2, <1>3, <1>9
<1> QED
  BY <1>4, <1>5, <1>6, <1>7, <1>8, <1>9 DEF TxMove, YearFails

LEMMA LocksKept ==
  ASSUME CacheSafe, TxLocks, CacheMove \/ UNCHANGED cacheVars
  PROVE  TxLocks'
<1>1. CacheTypeOK /\ Refreshes \subseteq Sessions
  BY HolidayCacheAssumption DEF CacheSafe
<1>2. CASE UNCHANGED tx
  BY <1>2 DEF TxLocks
<1>3. CASE CacheRestart
  BY <1>3 DEF CacheRestart, TxLocks, NoTx
<1> QED
  BY <1>1, <1>2, <1>3, TxMoveLocks DEF CacheMove, RefreshMove, SessionMove, UpdateSettings, cacheVars

\* A step of one session: it is where its call is, and the others stay.
YearStep(s) ==
  /\ TxMove(s)
  /\ \A v \in Views \ {s} : views'[v] = views[v]
  /\ \A g \in Generations \ {s} : gens'[g].pc = gens[g].pc
  /\ Busy(s)' => \/ s \in Refreshes
                 \/ s \in Views /\ views'[s] = "refresh"
                 \/ s \in Generations /\ gens'[s].pc = "year"

LEMMA YearStepKept ==
  ASSUME CacheTypeOK, YearInv, NEW s \in Sessions, YearStep(s)
  PROVE  YearInv'
<1>1. \A w \in Sessions \ {s} : Busy(w)' => Busy(w)
  BY TxMoveKept DEF YearStep, TxKept
<1>2. Views \subseteq Sessions /\ Generations \subseteq Sessions /\ Refreshes \cap Views = {}
      /\ Generations \cap (Refreshes \cup Views) = {}
  BY HolidayCacheAssumption, AttendanceDailyAssumption
<1>3. ASSUME NEW v \in Views, Busy(v)' PROVE views'[v] = "refresh"
  <2>1. CASE v = s
    BY <1>2, <1>3, <2>1 DEF YearStep
  <2>2. CASE v # s
    BY <1>1, <1>2, <1>3, <2>2 DEF YearStep, YearInv
  <2> QED BY <2>1, <2>2
<1>4. ASSUME NEW g \in Generations, Busy(g)' PROVE gens'[g].pc = "year"
  <2>1. CASE g = s
    BY <1>2, <1>4, <2>1 DEF YearStep
  <2>2. CASE g # s
    BY <1>1, <1>2, <1>4, <2>2 DEF YearStep, YearInv
  <2> QED BY <2>1, <2>2
<1>5. ASSUME NEW w \in Sessions \ (Refreshes \cup Views \cup Generations) PROVE ~Busy(w)'
  BY <1>1, <1>5 DEF YearStep, YearInv
<1> QED
  BY <1>3, <1>4, <1>5 DEF YearInv

\* A call that has ended, or a session that is not at one.
LEMMA NotBusy ==
  ASSUME CacheTypeOK, NEW s \in Sessions,
         tx'[s] = NoTx \/ tx'[s] = Doomed \/ (UNCHANGED tx /\ ~Busy(s))
  PROVE  ~Busy(s)'
  BY DEF Busy, NoTx, Doomed

LEMMA ViewYear ==
  ASSUME CacheTypeOK, YearInv, NEW v \in Views, UNCHANGED gens,
         \/ OpenView(v) \/ ViewRefreshFails(v) \/ EnsureYearCached(v) \/ ViewStatement(v) \/ CloseView(v)
  PROVE  YearInv'
<1>0. v \in Sessions /\ tx \in [Sessions -> Tx] /\ views \in [Views -> ViewPlaces] /\ (Busy(v) => views[v] = "refresh")
  BY HolidayCacheAssumption DEF CacheTypeOK, ViewPlaces, YearInv
<1>1. TxMove(v)
  BY DEF OpenView, ViewRefreshFails, EnsureYearCached, ViewStatement, CloseView, TxMove
<1>2. \A w \in Views \ {v} : views'[w] = views[w]
  BY <1>0 DEF OpenView, ViewRefreshFails, EnsureYearCached, ViewStatement, CloseView, ViewAt
<1>3. Busy(v)' => views'[v] = "refresh"
  <2>1. CASE OpenView(v)
    BY <1>0, <2>1, NotBusy DEF OpenView
  <2>2. CASE ViewRefreshFails(v)
    <3>1. tx'[v] = Doomed
      BY <1>0, <2>2 DEF ViewRefreshFails, YearFails, PutTx, CommitYear
    <3> QED BY <1>0, <3>1, NotBusy
  <2>3. CASE EnsureYearCached(v)
    <3>1. CASE ViewAt(v, "refresh")
      BY <1>0, <3>1 DEF ViewAt
    <3>2. CASE UNCHANGED tx
      BY <1>0, <2>3, <3>2, NotBusy DEF EnsureYearCached
    <3> QED BY <2>3, <3>1, <3>2 DEF EnsureYearCached
  <2>4. CASE ViewStatement(v)
    <3>1. CASE UNCHANGED views
      BY <2>4, <3>1 DEF ViewStatement
    <3>2. CASE CommitYear(v, NoTx)
      <4>1. tx'[v] = NoTx
        BY <1>0, <3>2 DEF CommitYear
      <4> QED BY <1>0, <4>1, NotBusy
    <3> QED BY <2>4, <3>1, <3>2 DEF ViewStatement
  <2>5. CASE CloseView(v)
    <3>1. tx'[v] = NoTx
      BY <1>0, <2>5 DEF CloseView, PutTx
    <3> QED BY <1>0, <3>1, NotBusy
  <2> QED BY <2>1, <2>2, <2>3, <2>4, <2>5
<1> QED
  BY <1>0, <1>1, <1>2, <1>3, YearStepKept DEF YearStep

\* A generation that is not in a call of refresh_year goes on without one.
LEMMA BesideYear ==
  ASSUME YearInv, NEW g \in Generations, gens[g].pc # "year", UNCHANGED <<tx, views>>,
         \A h \in Generations \ {g} : gens'[h].pc = gens[h].pc
  PROVE  YearInv'
  BY DEF YearInv, Busy

LEMMA GenerationYear ==
  ASSUME CacheTypeOK, GenSafe, YearInv, NEW g \in Generations, Step(g) \/ FailGeneration(g) \/ YearError(g)
  PROVE  YearInv'
<1>0. /\ g \in Sessions /\ tx \in [Sessions -> Tx] /\ (Busy(g) => gens[g].pc = "year")
      /\ gens \in [Generations -> Gen] /\ gens[g] \in Gen
  BY AttendanceDailyAssumption DEF CacheTypeOK, YearInv, GenSafe, GenTypes
<1>1. ASSUME NEW r, Put(g, r) PROVE \A h \in Generations \ {g} : gens'[h].pc = gens[h].pc
  BY <1>0, <1>1 DEF Put
<1>2. ASSUME NEW after, Commit(g, after) PROVE \A h \in Generations \ {g} : gens'[h].pc = gens[h].pc
  <2> DEFINE gone == gens[g].deleted \cup Written(gens[g])
  <2>1. gens' = [h \in Generations |-> IF h = g THEN after ELSE [gens[h] EXCEPT !.snapshot = @ \ gone]]
    BY <1>2 DEF Commit
  <2> HIDE DEF gone
  <2> QED BY <1>0, <2>1 DEF Gen
<1>3. ASSUME UNCHANGED cacheVars, gens[g].pc # "year", NEW r, Put(g, r)
      PROVE  YearInv'
  BY <1>1, <1>3, BesideYear DEF cacheVars
<1>4. CASE \/ AcquireLock(g) \/ AcquireGenerationLock(g) \/ LoadRule(g) \/ CreateRule(g) \/ ReadPunches(g)
           \/ SkipExisting(g) \/ SelectUsers(g) \/ ListHolidays(g)
           \/ DeleteRecords(g) \/ WakeRecords(g) \/ CloseAnswer(g)
  <2>1. gens[g].pc # "year" /\ UNCHANGED cacheVars /\ \E r : Put(g, r)
    BY <1>4 DEF AcquireLock, AcquireGenerationLock, LoadRule, CreateRule, ReadPunches, SkipExisting, SelectUsers,
       ListHolidays, DeleteRecords, WakeRecords, CloseAnswer, WithRule, Answer
  <2> QED BY <1>3, <2>1
<1>5. CASE CommitRecords(g)
  <2>1. gens[g].pc # "year" /\ UNCHANGED cacheVars
    BY <1>5 DEF CommitRecords, Commit
  <2>2. \A h \in Generations \ {g} : gens'[h].pc = gens[h].pc
    BY <1>2, <1>5 DEF CommitRecords
  <2> QED BY <2>1, <2>2, BesideYear DEF cacheVars
<1>6. ASSUME TxMove(g), UNCHANGED views, \A h \in Generations \ {g} : gens'[h].pc = gens[h].pc,
             Busy(g)' => gens'[g].pc = "year"
      PROVE  YearInv'
  BY <1>0, <1>6, YearStepKept DEF YearStep
<1>7. CASE ListYears(g)
  <2>1. TxMove(g) /\ UNCHANGED views /\ gens[g].pc = "years"
    BY <1>7 DEF ListYears, TxMove
  <2>2. CASE Put(g, [gens[g] EXCEPT !.pc = "year"])
    <3>1. gens'[g].pc = "year"
      BY <1>0, <2>2 DEF Put, Gen
    <3> QED BY <1>1, <1>6, <2>1, <2>2, <3>1
  <2>3. CASE UNCHANGED tx /\ Put(g, [gens[g] EXCEPT !.pc = "holidays"])
    BY <1>0, <1>1, <1>6, <2>1, <2>3, NotBusy
  <2> QED BY <1>7, <2>2, <2>3 DEF ListYears
<1>8. CASE YearStatement(g)
  <2>1. TxMove(g) /\ UNCHANGED views /\ gens[g].pc = "year"
    BY <1>8 DEF YearStatement, TxMove
  <2>2. CASE UNCHANGED gens
    BY <1>6, <2>1, <2>2
  <2>3. CASE CommitYear(g, NoTx) /\ Put(g, [gens[g] EXCEPT !.pc = "holidays", !.advisory = FALSE])
    <3>1. tx'[g] = NoTx
      BY <1>0, <2>3 DEF CommitYear
    <3> QED BY <1>0, <1>1, <1>6, <2>1, <2>3, <3>1, NotBusy
  <2> QED BY <1>8, <2>2, <2>3 DEF YearStatement
<1>9. CASE YearError(g)
  <2>1. TxMove(g) /\ UNCHANGED views
    BY <1>9 DEF YearError, TxMove
  <2>2. tx'[g] = Doomed
    BY <1>0, <1>9 DEF YearError, YearFails, PutTx, CommitYear
  <2>3. \A h \in Generations \ {g} : gens'[h].pc = gens[h].pc
    BY <1>1, <1>9 DEF YearError
  <2> QED BY <1>0, <1>6, <2>1, <2>2, <2>3, NotBusy
<1>10. CASE FailGeneration(g)
  <2>1. TxMove(g) /\ UNCHANGED views /\ tx'[g] = NoTx
    BY <1>0, <1>10 DEF FailGeneration, TxMove, PutTx
  <2>2. \A h \in Generations \ {g} : gens'[h].pc = gens[h].pc
    BY <1>1, <1>2, <1>10 DEF FailGeneration
  <2> QED BY <1>0, <1>6, <2>1, <2>2, NotBusy
<1> QED
  BY <1>4, <1>5, <1>7, <1>8, <1>9, <1>10 DEF Step

LEMMA YearKept ==
  ASSUME CacheSafe, GenSafe, YearInv, [Next]_vars
  PROVE  YearInv'
<1>0. CacheTypeOK /\ FlagInv /\ Refreshes \subseteq Sessions
  BY HolidayCacheAssumption DEF CacheSafe
<1>1. CASE \E g \in Generations : Step(g) \/ FailGeneration(g) \/ YearError(g)
  BY <1>0, <1>1, GenerationYear
<1>2. CASE \E g \in Generations : \E key \in Keys, force \in BOOLEAN : Generate(g, key, force)
  <2>1. PICK g \in Generations : \E key \in Keys, force \in BOOLEAN : Generate(g, key, force)
    BY <1>2
  <2>2. gens[g].pc # "year" /\ UNCHANGED <<tx, views>>
    BY <2>1 DEF Generate, Idle
  <2>3. \A h \in Generations \ {g} : gens'[h].pc = gens[h].pc
    BY <2>1 DEF Generate, Put, GenSafe, GenTypes
  <2> QED BY <2>2, <2>3, BesideYear
<1>3. CASE UNCHANGED <<tx, views, gens>>
  BY <1>3 DEF YearInv, Busy
<1>4. CASE \E x \in RuleRequests : RuleStep(x) \/ (\E body \in RuleBodies \cup {None} : AskForRule(x, body))
                                   \/ FailRule(x)
  BY <1>3, <1>4 DEF RuleStep, GetRule, CommitRule, FailRule, AskForRule, generationVars, cacheVars
<1>5. CASE (\E p \in Punches : PunchArrives(p)) \/ TimePasses \/ UNCHANGED vars
  BY <1>3, <1>5 DEF PunchArrives, TimePasses, generationVars, cacheVars, vars
<1>6. CASE Restart
  BY <1>6, HolidayCacheAssumption, AttendanceDailyAssumption DEF Restart, CacheRestart, YearInv, Busy, NoTx
<1>7. CASE CacheNext /\ UNCHANGED generationVars
  <2>1. UNCHANGED gens
    BY <1>7 DEF generationVars
  <2>2. CASE \E t \in Refreshes : RefreshStep(t) \/ StartManualRefresh(t) \/ ScheduleJob(t) \/ RefreshFails(t)
    <3>1. PICK t \in Refreshes : RefreshMove(t)
      BY <1>0, <2>2, RefreshMoves DEF RefreshStep
    <3>2. t \in Sessions /\ YearStep(t)
      BY <1>0, <2>1, <3>1 DEF RefreshMove, YearStep
    <3> QED BY <1>0, <3>2, YearStepKept
  <2>3. CASE \E v \in Views : ViewStep(v) \/ OpenView(v) \/ ViewRefreshFails(v)
    BY <1>0, <2>1, <2>3, ViewYear DEF ViewStep
  <2>4. CASE \E body \in CacheBodies : UpdateSettings(body)
    BY <1>3, <2>1, <2>4 DEF UpdateSettings
  <2> QED BY <1>7, <2>2, <2>3, <2>4 DEF CacheNext, CacheWork
<1> QED
  BY <1>1, <1>2, <1>4, <1>5, <1>6, <1>7 DEF Next, Work, CacheNext

WaitInv == OrderInv /\ TxLocks /\ YearInv

LEMMA Waits == Spec => [](IInv /\ WaitInv)
<1>1. Init => IInv /\ WaitInv
  <2> SUFFICES ASSUME Init PROVE IInv /\ WaitInv
    OBVIOUS
  <2>1. IInv
    BY InitGenSafe, CacheInitSafe DEF Init, IInv
  <2>2. OrderInv
    BY IdleOrderly DEF Init, OrderInv
  <2>3. TxLocks /\ YearInv
    BY HolidayCacheAssumption, AttendanceDailyAssumption DEF Init, CacheInit, TxLocks, YearInv, Busy, NoTx
  <2> QED BY <2>1, <2>2, <2>3 DEF WaitInv
<1>2. IInv /\ WaitInv /\ [Next]_vars => IInv' /\ WaitInv'
  <2> SUFFICES ASSUME IInv, WaitInv, [Next]_vars PROVE IInv' /\ WaitInv'
    OBVIOUS
  <2>1. IInv'
    BY NextSafe
  <2>2. OrderInv'
    BY OrderKept DEF IInv, WaitInv
  <2>3. TxLocks'
    BY CacheSide, LocksKept DEF IInv, WaitInv
  <2>4. YearInv'
    BY YearKept DEF IInv, WaitInv
  <2> QED BY <2>1, <2>2, <2>3, <2>4 DEF WaitInv
<1> QED
  BY <1>1, <1>2, PTL DEF Spec

LEMMA SomebodyHas ==
  ASSUME IInv, WaitInv, NEW s \in Sessions, Waiting(s)
  PROVE  \E h \in Sessions : WaitsFor(s, h)
<1>0. Generations \subseteq Sessions /\ Refreshes \subseteq Sessions /\ Views \subseteq Sessions
  BY HolidayCacheAssumption, AttendanceDailyAssumption
<1>1. CASE s \in Generations /\ gens[s].pc = "lock" /\ gens[s].key \in ensure_locks
  <2>1. PICK h \in Generations : Holding(gens[h]) /\ gens[h].key = gens[s].key
    BY <1>1 DEF IInv, GenSafe, LocksInv
  <2> QED BY <1>0, <1>1, <2>1 DEF WaitsFor
<1>2. CASE s \in Generations /\ gens[s].pc = "advisory"
           /\ \E h \in Generations : gens[h].advisory /\ gens[h].key = gens[s].key
  BY <1>0, <1>2 DEF WaitsFor
<1>3. CASE s \in Generations /\ gens[s].pc = "blocked" /\ gens[s].snapshot \cap DeletedByOthers(s) # {}
  <2>1. PICK h \in Generations \ {s} : gens[s].snapshot \cap gens[h].deleted # {}
    BY <1>3 DEF DeletedByOthers
  <2> QED BY <1>0, <1>3, <2>1 DEF WaitsFor
<1>4. CASE tx[s].pc = "waiting" /\ YearLocked
  <2>1. PICK h \in Sessions : tx[h].locks
    BY <1>4 DEF YearLocked
  <2>2. Busy(h)
    BY <2>1 DEF WaitInv, TxLocks, Busy
  <2>3. AtYear(h)
    BY <2>2 DEF WaitInv, YearInv, AtYear, IInv, CacheSafe, FlagInv
  <2> QED BY <1>4, <2>1, <2>3 DEF WaitsFor
<1> QED
  BY <1>1, <1>2, <1>3, <1>4 DEF Waiting

\* Who waits for somebody who waits is a generation that waits for the lock of
\* its key, or for rows of a user before the next user of the other.
LEMMA WaitsOnce ==
  ASSUME IInv, WaitInv, NEW s \in Sessions, NEW h \in Sessions, WaitsFor(s, h), Waiting(h)
  PROVE  /\ s \in Generations
         /\ \/ gens[s].pc = "lock" /\ h \in Generations /\ gens[h].pc # "lock"
            \/ /\ gens[s].pc = "blocked" /\ h \in Generations /\ gens[h].pc = "blocked"
               /\ Next1(gens[s].todo) < Next1(gens[h].todo)
<1>0. /\ Generations \cap (Refreshes \cup Views) = {} /\ gens \in [Generations -> Gen]
  BY AttendanceDailyAssumption DEF IInv, GenSafe, GenTypes
<1>1. \A g \in Generations : tx[g].pc = "waiting" => gens[g].pc = "year"
  BY DEF WaitInv, YearInv, Busy
<1>2. CASE tx[s].pc = "waiting" /\ tx[h].locks /\ AtYear(h)
  <2>1. tx[h].pc = "commit"
    BY <1>2 DEF WaitInv, TxLocks
  <2>2. h \in Generations => gens[h].pc = "year"
    BY <1>0, <1>2 DEF AtYear
  <2> QED BY <2>1, <2>2 DEF Waiting
<1>3. CASE s \in Generations /\ h \in Generations /\ gens[s].pc = "lock" /\ Holding(gens[h])
  BY <1>3 DEF Holding
<1>4. CASE s \in Generations /\ h \in Generations /\ gens[s].pc = "advisory" /\ gens[h].advisory
           /\ gens[h].key = gens[s].key
  <2>1. gens[h].pc \notin {"idle", "lock", "advisory"}
    BY <1>4 DEF WaitInv, OrderInv, Orderly
  <2>2. gens[h].pc # "answer"
    <3>1. tx[h].pc = "waiting" => gens[h].pc = "year"
      BY <1>1, <1>4
    <3> QED BY <1>4, <3>1 DEF Waiting
  <2>3. h # s /\ Holding(gens[h]) /\ Holding(gens[s])
    BY <1>4, <2>1, <2>2 DEF Holding
  <2> QED BY <1>4, <2>3 DEF IInv, GenSafe, LocksInv
<1>5. CASE s \in Generations /\ h \in Generations /\ gens[s].pc = "blocked" /\ h # s
           /\ gens[s].snapshot \cap gens[h].deleted # {}
  <2>1. Orderly(gens[s]) /\ Orderly(gens[h]) /\ gens[h] \in Gen
    BY <1>0, <1>5 DEF WaitInv, OrderInv
  <2>2. PICK k \in gens[s].snapshot : k \in gens[h].deleted
    BY <1>5
  <2>3. gens[h].pc \in {"delete", "blocked", "commit"} /\ k[1] = Next1(gens[s].todo)
    BY <2>1, <2>2 DEF Orderly
  <2>4. gens[h].pc = "blocked"
    BY <1>1, <1>5, <2>3 DEF Waiting
  <2>5. gens[h].todo \in SUBSET Users /\ gens[h].todo # {}
    BY <1>5, <2>1, <2>4 DEF Gen, IInv, GenSafe, GenOK, Ready
  <2>6. k[1] < Next1(gens[h].todo)
    BY <2>1, <2>2, <2>5, NextExists DEF Orderly
  <2> QED BY <1>5, <2>3, <2>4, <2>6
<1> QED
  BY <1>2, <1>3, <1>4, <1>5 DEF WaitsFor

-----------------------------------------------------------------------------
(* Theorems *)

(* Every variable stays in its set, the records of the days with it.       *)
THEOREM TypesKept == Spec => []TypeOK
<1>1. IInv => TypeOK
  BY DEF IInv, CacheSafe, GenSafe, GenTypes, TypeOK
<1> QED
  BY <1>1, Invariance, PTL

(* The job of the scheduler is the one of the file, whatever request for   *)
(* other settings fails and wherever.                                      *)
THEOREM JobOfFile == Spec => []JobSurvivesRestart
<1>1. IInv => JobSurvivesRestart
  BY DEF IInv, CacheSafe
<1> QED
  BY <1>1, Invariance, PTL

(* HolidayCacheManager implements RunFlag for any number of refreshes.     *)
THEOREM RefreshesImplementFlag == Spec => OneRefresh
<1>1. Init => Flag!Init
  BY DEF Init, CacheInit, Flag!Init, Refreshing
<1>2. IInv /\ [Next]_vars => [Flag!Next]_(Flag!vars)
  BY NextSafe
<1> QED
  BY <1>1, <1>2, Invariance, PTL DEF Spec, OneRefresh, Flag!Spec

(* No overlap of refreshes, views and generations empties the cached year. *)
THEOREM YearStays == Spec => CachedYearStays
<1> DEFINE A == calendar # NoRows /\ calendar' = NoRows =>
                  \E s \in Sessions : tx[s].pc = "commit" /\ tx[s].answer = NoRows
<1>1. IInv /\ [Next]_vars => [A]_cacheVars
  BY NextSafe DEF CalendarKept
<1> HIDE DEF A
<1>2. Spec => [][A]_cacheVars
  BY <1>1, Invariance, PTL DEF Spec
<1> QED
  BY <1>2 DEF CachedYearStays, A

(* A month's days age from the last to the first, for any number of days,  *)
(* of users and of overlapping generations.                                *)
THEOREM NoneOlder == Spec => []NoOlderBeneath
<1>1. IInv => NoOlderBeneath
  BY DEF IInv, GenSafe
<1> QED
  BY <1>1, Invariance, PTL

(* Whatever waits, for the lock of a key, the advisory lock, rows of        *)
(* records or rows of the calendar, waits for somebody at work, and no      *)
(* number of generations, refreshes and views can wait for each other: the  *)
(* half of "every request ends" that is not about fairness.                 *)
THEOREM NoneInVain == Spec => []NobodyWaitsInVain
<1>1. ASSUME IInv, WaitInv PROVE NobodyWaitsInVain
  <2> SUFFICES ASSUME NEW S \in SUBSET Sessions, S # {}, \A s \in S : Waiting(s)
               PROVE  \E s \in S : /\ \E h \in Sessions : WaitsFor(s, h)
                                   /\ \A h \in S : ~WaitsFor(s, h)
    BY DEF NobodyWaitsInVain
  <2> DEFINE B == {s \in S \cap Generations : gens[s].pc = "blocked"}
             U == {Next1(gens[s].todo) : s \in B}
  <2>1. ASSUME NEW s \in S, \A h \in S : ~WaitsFor(s, h)
        PROVE  \E w \in S : /\ \E h \in Sessions : WaitsFor(w, h)
                            /\ \A h \in S : ~WaitsFor(w, h)
    BY <1>1, <2>1, SomebodyHas
  <2>2. CASE \E s \in S : s \notin Generations \/ gens[s].pc \notin {"lock", "blocked"}
    <3>1. PICK s \in S : s \notin Generations \/ gens[s].pc \notin {"lock", "blocked"}
      BY <2>2
    <3>2. \A h \in S : ~WaitsFor(s, h)
      BY <1>1, <3>1, WaitsOnce
    <3> QED BY <2>1, <3>2
  <2>3. CASE B # {}
    <3>1. U \subseteq Users
      <4> SUFFICES ASSUME NEW s \in B PROVE Next1(gens[s].todo) \in Users
        OBVIOUS
      <4>1. gens[s].todo \in SUBSET Users /\ gens[s].todo # {}
        BY <1>1 DEF IInv, GenSafe, GenTypes, GenOK, Ready, Gen
      <4> QED BY <4>1, NextExists
    <3>2. U \in SUBSET Nat /\ U # {} /\ IsFiniteSet(U)
      <4>1. U # {}
        BY <2>3
      <4> HIDE DEF U
      <4> QED BY <3>1, <4>1, AttendanceDailyAssumption, FS_Subset
    <3>3. PICK u \in U : \A w \in U : w <= u
      <4> HIDE DEF U
      <4> QED BY <3>2, LatestExists
    <3>4. PICK s \in B : Next1(gens[s].todo) = u
      BY <3>3
    <3>5. ASSUME NEW h \in S, WaitsFor(s, h) PROVE FALSE
      <4>1. h \in B /\ Next1(gens[s].todo) < Next1(gens[h].todo)
        BY <1>1, <3>5, WaitsOnce
      <4>2. Next1(gens[h].todo) \in U /\ u \in U
        BY <3>3, <4>1
      <4> HIDE DEF U
      <4>3. Next1(gens[h].todo) \in Nat /\ u \in Nat /\ Next1(gens[h].todo) <= u
        BY <3>2, <3>3, <4>2
      <4> QED BY <3>4, <4>1, <4>3
    <3> QED BY <2>1, <3>5
  <2>4. CASE \A s \in S : s \in Generations /\ gens[s].pc = "lock"
    <3>1. PICK s \in S : TRUE
      OBVIOUS
    <3>2. \A h \in S : ~WaitsFor(s, h)
      BY <1>1, <2>4, <3>1, WaitsOnce
    <3> QED BY <2>1, <3>2
  <2> QED BY <2>2, <2>3, <2>4
<1> QED
  BY <1>1, Waits, PTL

(* The figures add up, whatever punches, calendars and rules the records   *)
(* were built from.                                                        *)
THEOREM FiguresAddUp == Spec => []SummaryAddsUp
<1>1. ASSUME GenSafe PROVE SummaryAddsUp
  <2> DEFINE K == {k \in UserDays : daily[k] # None}
             record == [k \in K |-> daily[k].record]
             Working == {k \in K : record[k].is_workday}
             Present == {k \in K : record[k].is_workday /\ record[k].status \in {1, 2, 3, 5, 6}}
             Absent == {k \in K : record[k].status \in {4}}
  <2>1. IsFiniteSet(K)
    <3>1. IsFiniteSet(Users) /\ IsFiniteSet(1 .. LastDay)
      BY AttendanceDailyAssumption, HolidayCacheAssumption
    <3>2. IsFiniteSet(UserDays)
      BY <3>1, FS_Product DEF UserDays
    <3> QED BY <3>2, FS_Subset
  <2>2. IsFiniteSet(Present) /\ IsFiniteSet(Absent)
    <3> HIDE DEF K, record
    <3> QED BY <2>1, FS_Subset
  <2>3. ASSUME NEW k \in K PROVE Accounted(record[k])
    BY <1>1 DEF GenSafe, RowsOK, RowOK
  <2>4. Working = Present \cup Absent /\ Present \cap Absent = {}
    <3> HIDE DEF K, record
    <3> QED BY <2>3 DEF Accounted
  <2>5. Cardinality(Present) \in Nat /\ Cardinality(Absent) \in Nat
    BY <2>2, FS_CardinalityType
  <2>6. Cardinality(Working) = Cardinality(Present) + Cardinality(Absent)
    <3> HIDE DEF Working, Present, Absent
    <3>1. Cardinality({}) = 0
      BY FS_EmptySet
    <3>2. Cardinality(Working)
            = Cardinality(Present) + Cardinality(Absent) - Cardinality(Present \cap Absent)
      BY <2>2, <2>4, FS_Union
    <3>3. Cardinality(Present \cap Absent) = 0
      BY <2>4, <3>1
    <3> QED BY <2>5, <3>2, <3>3
  <2>7. /\ MonthlySummary(record, K).workday_count = Cardinality(Working)
        /\ MonthlySummary(record, K).attendance_days = Cardinality(Present)
        /\ MonthlySummary(record, K).absence_count = Cardinality(Absent)
    <3> HIDE DEF K, record
    <3> QED BY DEF MonthlySummary
  <2> HIDE DEF Working, Present, Absent
  <2> QED BY <2>6, <2>7 DEF SummaryAddsUp
<1> QED
  BY <1>1, Invariance, PTL DEF IInv

(* Whatever fails or collides between the DELETE of a record and the       *)
(* commit, a record goes with its successor or not at all.                 *)
THEOREM NoneLost == Spec => RecordsSurvive
<1> DEFINE A == \A k \in UserDays : daily[k] # None /\ daily'[k] = None =>
                  \E g \in Generations : /\ gens[g].pc = "commit" /\ gens[g].key = k[1]
                                         /\ gens[g].force /\ gens[g].saw = {}
<1>1. ASSUME IInv, [Next]_vars PROVE A
  <2>1. GenSafe /\ RowStep
    BY <1>1, NextSafe DEF IInv
  <2> SUFFICES ASSUME NEW k \in UserDays, daily[k] # None, daily'[k] = None
               PROVE  \E g \in Generations : /\ gens[g].pc = "commit" /\ gens[g].key = k[1]
                                             /\ gens[g].force /\ gens[g].saw = {}
    OBVIOUS
  <2>2. PICK g \in Generations : Stored(g)
    BY <2>1 DEF RowStep
  <2>3. k \notin Written(gens[g]) /\ k \in gens[g].deleted /\ gens[g].pc = "commit"
    BY <2>1, <2>2, RowsStored
  <2>4. k[2] <= gens[g].upto /\ Replaced(gens[g], k)
    BY <2>1, <2>3 DEF GenSafe, GenOK, Covered
  <2> QED BY <2>3, <2>4 DEF Replaced, Written
<1>2. IInv /\ [Next]_vars => [A]_vars
  BY <1>1
<1> HIDE DEF A
<1>3. Spec => [][A]_vars
  BY <1>2, Invariance, PTL DEF Spec
<1> QED
  BY <1>3 DEF RecordsSurvive, A

(* Recalculations of one user never undo each other: the lock of the key   *)
(* is held from before the punches are read until after the commit.        *)
THEOREM NoneUndone == Spec => RecalculationsInOrder
<1> DEFINE A == \A k \in UserDays :
                  (daily[k] # None /\ daily[k].recalculated = k[1])
                    => \/ daily'[k] = None \/ daily'[k].recalculated # k[1]
                       \/ daily[k].punches \subseteq daily'[k].punches
<1>1. ASSUME IInv, [Next]_vars PROVE A
  <2>1. GenSafe /\ RowStep
    BY <1>1, NextSafe DEF IInv
  <2> SUFFICES ASSUME NEW k \in UserDays, daily[k] # None, daily[k].recalculated = k[1],
                      daily'[k] # None, daily'[k].recalculated = k[1],
                      NEW p \in daily[k].punches
               PROVE  p \in daily'[k].punches
    OBVIOUS
  <2>2. CASE daily'[k] = daily[k]
    BY <2>2
  <2>3. CASE daily'[k] # daily[k]
    <3>1. PICK g \in Generations : Stored(g)
      BY <2>1, <2>3 DEF RowStep
    <3>2. k \in Written(gens[g]) /\ gens[g].pc = "commit"
      BY <2>1, <2>3, <3>1, RowsStored
    <3>3. /\ k[2] <= gens[g].upto /\ daily'[k].punches = PunchesOf(gens[g], k)
          /\ k[1] = IF gens[g].force THEN gens[g].key ELSE None
      BY <2>1, <3>1, <3>2, RowsStored
    <3>4. k[1] # None
      BY AttendanceDailyAssumption DEF UserDays
    <3>5. p \in gens[g].saw
      BY <2>1, <3>2, <3>3, <3>4 DEF GenSafe, Knows, HasRead
    <3>6. PunchAt[p].user_id = k[1] /\ PunchAt[p].day = k[2]
      BY <2>1 DEF GenSafe, RowsOK, RowOK
    <3> QED BY <3>3, <3>5, <3>6 DEF PunchesOf
  <2> QED BY <2>2, <2>3
<1>2. IInv /\ [Next]_vars => [A]_vars
  BY <1>1
<1> HIDE DEF A
<1>3. Spec => [][A]_vars
  BY <1>2, Invariance, PTL DEF Spec
<1> QED
  BY <1>3 DEF RecalculationsInOrder, A
-----------------------------------------------------------------------------
(* The figures of one day *)

LEMMA Minute ==
  ASSUME NEW from \in Seconds, NEW to \in Seconds
  PROVE  LET m == MinutesBetween(from, to) IN
         /\ m \in Nat
         /\ from <= to => 60 * m <= to - from /\ to - from < 60 * m + 60
         /\ to <= from => m = 0
BY DEF MinutesBetween, Seconds

(* attendance_record.py:213-288: on a working day that was begun within    *)
(* the planned hours, the minutes that were missed and the minutes that    *)
(* were worked make up the plan and the overtime, to within the minutes    *)
(* lost to rounding; nobody leaves early and late at once, and a day off   *)
(* has no minutes missed.                                                  *)
DayAddsUp(r, first, last) ==
  /\ r.early_minutes = 0 \/ r.overtime_minutes = 0
  /\ ~r.is_workday => r.late_minutes = 0 /\ r.early_minutes = 0 /\ r.overtime_minutes = r.work_minutes
  /\ r.is_workday /\ first \in r.plan_start .. r.plan_end =>
       LET missed == r.late_minutes + r.early_minutes
           planned == MinutesBetween(r.plan_start, r.plan_end)
       IN missed + r.work_minutes - planned - r.overtime_minutes \in -2 .. 1

THEOREM MinutesAddUp ==
  ASSUME NEW n \in Nat, n > 1, NEW first \in Seconds, NEW last \in Seconds, first <= last,
         NEW is_workday \in BOOLEAN, NEW rule \in Rule
  PROVE  DayAddsUp(BuildDailyRecord(n, first, last, is_workday, rule), first, last)
<1> DEFINE r == BuildDailyRecord(n, first, last, is_workday, rule)
           from == rule.plan_start
           to == rule.plan_end
           late == MinutesBetween(from, first)
           early == MinutesBetween(last, to)
           work == MinutesBetween(first, last)
           over == MinutesBetween(to, last)
           planned == MinutesBetween(from, to)
<1>1. from \in Seconds /\ to \in Seconds
  BY DEF Rule
<1>2. /\ r.is_workday = is_workday /\ r.plan_start = from /\ r.plan_end = to
      /\ r.work_minutes = work
      /\ is_workday => r.late_minutes = late /\ r.early_minutes = early /\ r.overtime_minutes = over
      /\ ~is_workday => r.late_minutes = 0 /\ r.early_minutes = 0 /\ r.overtime_minutes = work
  BY DEF BuildDailyRecord
<1> HIDE DEF r, from, to
<1>3. /\ late \in Nat /\ (from <= first => 60 * late <= first - from /\ first - from < 60 * late + 60)
      /\ early \in Nat /\ (last <= to => 60 * early <= to - last /\ to - last < 60 * early + 60)
      /\ (to <= last => early = 0)
      /\ work \in Nat /\ 60 * work <= last - first /\ last - first < 60 * work + 60
      /\ over \in Nat /\ (to <= last => 60 * over <= last - to /\ last - to < 60 * over + 60)
      /\ (last <= to => over = 0)
      /\ planned \in Nat /\ (from <= to => 60 * planned <= to - from /\ to - from < 60 * planned + 60)
  BY <1>1, Minute
<1> HIDE DEF late, early, work, over, planned
<1>4. from \in Int /\ to \in Int /\ first \in Int /\ last \in Int
  <2>1. \A t \in Seconds : t \in Int
    BY DEF Seconds
  <2> QED BY <1>1, <2>1
<1>5. early = 0 \/ over = 0
  BY <1>3, <1>4
<1>6. ASSUME first \in from .. to
      PROVE  late + early + work - planned - over \in -2 .. 1
  <2>1. CASE last <= to
    BY <1>3, <1>4, <1>6, <2>1
  <2>2. CASE to <= last
    BY <1>3, <1>4, <1>6, <2>2
  <2> QED BY <1>4, <2>1, <2>2
<1> QED
  BY <1>2, <1>3, <1>5, <1>6 DEF DayAddsUp, planned, r
=============================================================================
