----------------------------- MODULE MCDoorHub -----------------------------
(* A small instance of DoorHub. *)
EXTENDS DoorHub, TLC

MCMenu == ("event" :> [event_key |-> "door_open", operator |-> "ann"])
       @@ ("again" :> [event_key |-> "door_open", operator |-> "ann"])
       @@ ("lab" :> [event_key |-> "lab", operator |-> "bob"])
       @@ ("help" :> [event_key |-> "help", operator |-> "bob"])
MCEventMap == "lab" :> "10.0.0.2"
MCConfigured == <<"10.0.0.1">>
MCBodies == {[ip |-> "10.0.0.1", serial |-> None, active |-> TRUE],
             [ip |-> "10.0.0.2", serial |-> None, active |-> FALSE]}

At(year, month, day) ==
  [year |-> year, month |-> month, day |-> day, hour |-> 8, minute |-> 30, second |-> 15]
Record(who, dt) == [who |-> who, time |-> EncodeZkTime(dt)]
MCUpperBound == At(2027, 1, 1)
MCEnrolled == {[uid |-> 1, user_id |-> 9]}

(* Two records of 40 bytes and 17 bytes more, the second on a 30 February. *)
Good == Record(9, At(2026, 3, 1))
MCLog ==
  [count |-> 2, total |-> 97, available |-> 97,
   words |-> [size \in SupportedSizes |->
     [i \in 1 .. (97 \div size) |->
        IF size # 40 THEN Record(7, At(2030, 1, 1)) ELSE IF i = 1 THEN Good ELSE Record(9, At(2026, 2, 30))]]]
MCLogs == {MCLog, [MCLog EXCEPT !.available = 50]}
=============================================================================
