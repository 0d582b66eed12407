---------------------------- MODULE DailyRecord ----------------------------
(***************************************************************************)
(* The arithmetic of a month's attendance: the days a generation covers,   *)
(* the record of one day (AttendanceRecordService._build_daily_record) and *)
(* the figures of the month (AttendanceDailyRepository.monthly_summary).   *)
(* Days are numbered from the first of the month; a time of day is its     *)
(* second.  Sums of minutes are left out of the figures.                   *)
(***************************************************************************)
EXTENDS Integers, FiniteSets

Seconds == 0 .. 86399
Rule == [plan_start : Seconds, plan_end : Seconds]

(* effective_year_month_range: the last day that counts.  Today counts     *)
(* once the working day is over.                                           *)
EffectiveEnd(today, now, plan_end, last_day) ==
  LET effective_today == IF now <= plan_end THEN today - 1 ELSE today
  IN IF last_day <= effective_today THEN last_day ELSE effective_today

(* max(0, int(seconds // 60)) *)
MinutesBetween(from, to) == IF from <= to THEN (to - from) \div 60 ELSE 0

StatusOf(n, is_workday, late, early) ==
  CASE n = 0  -> IF is_workday THEN 4 ELSE 1
    [] n = 1  -> 5
    [] n >= 2 /\ ~is_workday -> 7
    [] n >= 2 /\ is_workday -> IF late > 0 THEN (IF early > 0 THEN 6 ELSE 2)
                               ELSE (IF early > 0 THEN 3 ELSE 1)

BuildDailyRecord_RestAsAbsent(n, first, last, is_workday, rule) ==   \* mutated form: no punch is an absence, also on a day off
  [status |-> IF n = 0 THEN 4 ELSE StatusOf(n, is_workday, 0, 0),
   is_workday |-> is_workday, plan_start |-> rule.plan_start, plan_end |-> rule.plan_end,
   late_minutes |-> 0, early_minutes |-> 0, work_minutes |-> 0, overtime_minutes |-> 0]

(* The record of a day with n punches: the first is the check-in, the last *)
(* of several the check-out.                                               *)
BuildDailyRecord(n, first, last, is_workday, rule) ==
  LET late == IF is_workday /\ n > 0 THEN MinutesBetween(rule.plan_start, first) ELSE 0
      early == IF is_workday /\ n > 1 THEN MinutesBetween(last, rule.plan_end) ELSE 0
      work == IF n > 1 THEN MinutesBetween(first, last) ELSE 0
  IN [status |-> StatusOf(n, is_workday, late, early),
      is_workday |-> is_workday, plan_start |-> rule.plan_start, plan_end |-> rule.plan_end,
      late_minutes |-> late, early_minutes |-> early, work_minutes |-> work,
      overtime_minutes |-> IF ~is_workday THEN work
                           ELSE IF n > 1 THEN MinutesBetween(rule.plan_end, last) ELSE 0]

DailyRecords == [status : 1 .. 7, is_workday : BOOLEAN, plan_start : Seconds, plan_end : Seconds,
                 late_minutes : Nat, early_minutes : Nat, work_minutes : Nat, overtime_minutes : Nat]

(* The figures of the records under the keys K. *)
MonthlySummary(record, K) ==
  LET Count(S) == Cardinality({k \in K : record[k].status \in S})
  IN [workday_count   |-> Cardinality({k \in K : record[k].is_workday}),
      attendance_days |-> Cardinality({k \in K : record[k].is_workday
                                                 /\ record[k].status \in {1, 2, 3, 5, 6}}),
      overtime_days   |-> Count({7}),
      late_count      |-> Count({2, 6}),
      early_count     |-> Count({3, 6}),
      absence_count   |-> Count({4}),
      missing_count   |-> Count({5})]
=============================================================================
