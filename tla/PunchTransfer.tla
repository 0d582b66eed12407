--------------------------- MODULE PunchTransfer ---------------------------
(***************************************************************************)
(* What the synchronisation of attendances promises, whatever devices,     *)
(* serial numbers, awaits and failures it goes through: one run at a time  *)
(* carries punches from the terminals to the table, and tells of those     *)
(* that have arrived.  A punch is made, then recorded, then reported; none *)
(* goes back, none is recorded but by a run, and only a run that has ended *)
(* reports.                                                                *)
(***************************************************************************)
CONSTANT Punches

VARIABLES running,    \* a run is going on
          punched,    \* made at a terminal
          recorded,   \* with a row in the table
          reported    \* shown as fetched by a completed run
vars == <<running, punched, recorded, reported>>

Init ==
  /\ running = FALSE
  /\ punched \in SUBSET Punches
  /\ recorded = {}
  /\ reported = {}

Punch(p) ==
  /\ punched' = punched \cup {p}
  /\ UNCHANGED <<running, recorded, reported>>

Begin ==
  /\ ~running
  /\ running' = TRUE
  /\ UNCHANGED <<punched, recorded, reported>>

(* A run writes the punches S of one device and goes on to the next.       *)
Record(S) ==
  /\ running
  /\ recorded' = recorded \cup S
  /\ UNCHANGED <<running, punched, reported>>

(* A run ends: one that completes writes S and reports R, one that fails   *)
(* may have written S and reports nothing.                                 *)
End(S, R) ==
  /\ running
  /\ running' = FALSE
  /\ recorded' = recorded \cup S
  /\ R \subseteq recorded'
  /\ reported' = reported \cup R
  /\ UNCHANGED punched

Next ==
  \/ \E p \in Punches : Punch(p)
  \/ Begin
  \/ \E S \in SUBSET punched : Record(S) \/ \E R \in SUBSET (recorded \cup S) : End(S, R)

Spec == Init /\ [][Next]_vars

(* What follows of the order of the steps. *)
InOrder ==
  /\ punched \subseteq Punches
  /\ recorded \subseteq punched
  /\ reported \subseteq recorded
=============================================================================
