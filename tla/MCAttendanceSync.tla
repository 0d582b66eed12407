-------------------------- MODULE MCAttendanceSync --------------------------
(* Small instances of AttendanceSync. *)
EXTENDS AttendanceSync

CONSTANTS d1, d2, e1, e2, e3, eight, nine

(* One person at two moments: twice in one second at d1, later at d2.       *)
MCPunches == {[user_id |-> "u1", timestamp |-> t] : t \in {1, 2}}
MCDeviceOf == [e \in Entries |-> IF e = e3 THEN d2 ELSE d1]
MCPunchOf == [e \in Entries |-> [user_id |-> "u1", timestamp |-> IF e = e3 THEN 2 ELSE 1]]

MCBodies == {[enabled |-> TRUE, time |-> eight, device_ips |-> {}],
             [enabled |-> FALSE, time |-> nine, device_ips |-> {d1}]}
=============================================================================
