----------------------------- MODULE DoorLedger -----------------------------
(***************************************************************************)
(* What the server promises of every request to open a door, whether it    *)
(* came by HTTP or by the bot and whatever terminals, threads and the      *)
(* process do meanwhile: the command to unlock is sent once at most, then  *)
(* the request is logged once at most, then the person is told once at     *)
(* most; each step may be missing, none comes after a later one, and none  *)
(* is taken back.                                                          *)
(***************************************************************************)
EXTENDS Naturals

CONSTANTS Requests, None

VARIABLES sent,      \* request -> commands to unlock that were sent
          logged,    \* rows of door_logs: [request, result]
          told       \* request -> what the person was told, or None
vars == <<sent, logged, told>>

Results == {"failed", "success"}

Init ==
  /\ sent = [r \in Requests |-> 0]
  /\ logged = {}
  /\ told = [r \in Requests |-> None]

Unlogged(r) == \A row \in logged : row.request # r

Send(r) ==
  /\ sent[r] = 0 /\ Unlogged(r) /\ told[r] = None
  /\ sent' = [sent EXCEPT ![r] = 1]
  /\ UNCHANGED <<logged, told>>

Log(r, result) ==
  /\ Unlogged(r) /\ told[r] = None
  /\ result = "success" => sent[r] = 1
  /\ logged' = logged \cup {[request |-> r, result |-> result]}
  /\ UNCHANGED <<sent, told>>

Tell(r, text) ==
  /\ told[r] = None
  /\ text = "opened" => [request |-> r, result |-> "success"] \in logged
  /\ text = "denied" => sent[r] = 0 /\ Unlogged(r)
  /\ told' = [told EXCEPT ![r] = text]
  /\ UNCHANGED <<sent, logged>>

Next ==
  \E r \in Requests : \/ Send(r)
                      \/ \E result \in Results : Log(r, result)
                      \/ \E text \in {"opened", "not opened", "denied"} : Tell(r, text)

Spec == Init /\ [][Next]_vars

(* What follows of the order of the steps. *)
Agrees ==
  /\ \A r \in Requests : /\ told[r] = "opened" => [request |-> r, result |-> "success"] \in logged
                         /\ told[r] = "denied" => sent[r] = 0 /\ Unlogged(r)
  /\ \A row \in logged : row.request \in Requests /\ (row.result = "success" => sent[row.request] = 1)
  /\ \A row, other \in logged : row.request = other.request => row = other
=============================================================================
