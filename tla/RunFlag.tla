------------------------------ MODULE RunFlag ------------------------------
(***************************************************************************)
(* What AttendanceSyncManager and HolidayCacheManager promise of their     *)
(* runs: a run begins only while no other goes on, and a flag tells        *)
(* whether one does.  Which code a run is in, what it reads and how it     *)
(* fails is left to the modules that implement this one.                   *)
(***************************************************************************)
CONSTANT Runs

VARIABLES flag,       \* a run is going on
          holders     \* the coroutines that carry one out
vars == <<flag, holders>>

Init == flag = FALSE /\ holders = {}

Begin(t) == ~flag /\ flag' = TRUE /\ holders' = {t}

End(t) == holders = {t} /\ flag' = FALSE /\ holders' = {}

Next == \E t \in Runs : Begin(t) \/ End(t)

Spec == Init /\ [][Next]_vars
=============================================================================
