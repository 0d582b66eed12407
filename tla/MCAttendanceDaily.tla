------------------------- MODULE MCAttendanceDaily -------------------------
(* Small instances of AttendanceDaily. *)
EXTENDS AttendanceDaily, TLC

Hour(h) == h * 3600

(* The second day of a month of two days, in the morning, and the day after. *)
MCClock == <<[day |-> 2, second |-> Hour(9)], [day |-> 3, second |-> Hour(9)]>>
MCDays == 1 .. 2
MCIsWeekday == [d \in Days |-> d = 1]

(* User 1 comes late and leaves early on the first day. *)
MCPunchAt == ("p1" :> [user_id |-> 1, day |-> 1, second |-> Hour(11)])
          @@ ("p2" :> [user_id |-> 1, day |-> 1, second |-> Hour(16)])
          @@ ("p3" :> [user_id |-> 2, day |-> 2, second |-> Hour(10)])

MCAnswers == {NoRows, [d \in {2} |-> [type |-> 4, is_holiday |-> FALSE]]}

MCDefaultRule == [plan_start |-> Hour(10), plan_end |-> Hour(18)]
MCRuleBodies == {[plan_start |-> Hour(8), plan_end |-> Hour(10)],
                 [plan_start |-> Hour(11), plan_end |-> Hour(18)]}
MCEarlyRule == {[plan_start |-> Hour(7), plan_end |-> Hour(8)]}

Weekly == [enabled |-> TRUE, frequency |-> "weekly", time |-> 3, weekday |-> 7]
Daily == [Weekly EXCEPT !.frequency = "daily"]
MCCacheBodies == {Daily}
=============================================================================
