---------------------------- MODULE DoorControl ----------------------------
(***************************************************************************)
(* Opening a door: DoorService.open (app/services/door.py), which unlocks  *)
(* and then logs, and the route that calls it (app/api/v1/door.py).        *)
(***************************************************************************)
EXTENDS ZkClient

CONSTANTS Openers,    \* requests that reach DoorService.open
          Opens       \* ... by way of POST /door/open

Texts == {"opened", "not opened", "denied"}   \* what the person is told

ASSUME DoorControlAssumption == Openers \subseteq Calls /\ Opens \subseteq Openers /\ None \notin Texts

VARIABLES opens,      \* request -> the await of DoorService.open it is at
          answers,    \* request -> what the person was told, or None
          door_logs   \* door_logs: who caused the row, and its result
doorVars == <<opens, answers, door_logs>>

Opening == [pc : {"idle", "unlock", "commit", "refresh", "returned", "raised", "over"},
            result : {"failed", "success"}, error : Exceptions \cup {None, "RuntimeError"}]
NotOpening == [pc |-> "idle", result |-> "failed", error |-> None]
OpeningOver == [NotOpening EXCEPT !.pc = "over"]

DoorTypeOK ==
  /\ opens \in [Openers -> Opening]
  /\ answers \in [Openers -> Texts \cup {None}]
  /\ door_logs \subseteq [request : Openers, result : {"failed", "success"}]

DoorInit ==
  /\ opens = [r \in Openers |-> NotOpening]
  /\ answers = [r \in Openers |-> None]
  /\ door_logs = {}

PutOpen(r, q) == opens' = [opens EXCEPT ![r] = q]
Raised(q, error) == [q EXCEPT !.pc = "raised", !.error = error]

(* A request opens one door once. *)
BeginOpen(r, ip) ==
  /\ opens[r].pc = "idle"
  /\ PutOpen(r, [NotOpening EXCEPT !.pc = "unlock"])
  /\ PutCall(r, NewCall("unlock", ip))

UnlockReturned_TimesOut(r) ==   \* mutated form: the thread is waited for so long and no longer
  /\ opens[r].pc = "unlock"
  /\ PutOpen(r, Raised(opens[r], "Exception"))
  /\ UNCHANGED <<zkVars, answers, door_logs>>

(* The worker thread is done.  Only ZKOperationError is caught.            *)
UnlockReturned(r) ==
  LET error == calls[r].raised IN
  /\ opens[r].pc = "unlock" /\ calls[r].pc = "done"
  /\ PutCall(r, NoCall)
  /\ PutOpen(r, CASE error = None -> [opens[r] EXCEPT !.pc = "commit", !.result = "success"]
                  [] error = "ZKOperationError" -> [opens[r] EXCEPT !.pc = "commit"]
                  [] error \notin {None, "ZKOperationError"} -> Raised(opens[r], error))
  /\ UNCHANGED <<disabled, stranded, unlocks, answers, door_logs>>

LogRow(r) == door_logs' = door_logs \cup {[request |-> r, result |-> opens[r].result]}

CommitLog_Swallowed(r) ==   \* mutated form: an error of the INSERT is swallowed
  /\ opens[r].pc = "commit"
  /\ LogRow(r) \/ UNCHANGED door_logs
  /\ PutOpen(r, [opens[r] EXCEPT !.pc = "refresh"])
  /\ UNCHANGED <<zkVars, answers>>

(* INSERT and COMMIT, which may fail, also after it took effect. *)
CommitLog(r) ==
  /\ opens[r].pc = "commit"
  /\ \/ LogRow(r) /\ PutOpen(r, [opens[r] EXCEPT !.pc = "refresh"])
     \/ (LogRow(r) \/ UNCHANGED door_logs) /\ PutOpen(r, Raised(opens[r], "Exception"))
  /\ UNCHANGED <<zkVars, answers>>

(* SELECT of the row; a result "failed" becomes RuntimeError after that.   *)
RefreshLog(r) ==
  /\ opens[r].pc = "refresh"
  /\ PutOpen(r, IF opens[r].result = "failed" THEN Raised(opens[r], "RuntimeError")
                ELSE [opens[r] EXCEPT !.pc = "returned"])
     \/ PutOpen(r, Raised(opens[r], "Exception"))
  /\ UNCHANGED <<zkVars, answers, door_logs>>

(* open_door: the client learns of the success or gets an error. *)
AnswerOpen(r) ==
  /\ opens[r].pc \in {"returned", "raised"}
  /\ answers' = [answers EXCEPT ![r] = IF opens[r].pc = "returned" THEN "opened" ELSE "not opened"]
  /\ PutOpen(r, OpeningOver)
  /\ UNCHANGED <<zkVars, door_logs>>

OpenStep(r) ==
  UnlockReturned(r) \/ CommitLog(r) \/ RefreshLog(r) \/ (r \in Opens /\ AnswerOpen(r))

Underway(r) == opens[r].pc \in {"unlock", "commit", "refresh", "returned", "raised"}

(* The coroutine ends where it is; a worker thread goes on. *)
Dropped(q, over) == IF q.pc = "idle" THEN q ELSE over

-----------------------------------------------------------------------------
(* Properties *)

(* Whoever is told that the door was opened opened it and is in the log    *)
(* with that, and the log says so of nobody else, whatever fails or is     *)
(* killed in between (door.py:17-40, handlers.py:105-123).                 *)
OpenedIsLogged ==
  /\ \A r \in Openers : answers[r] = "opened" => [request |-> r, result |-> "success"] \in door_logs
  /\ \A row \in door_logs : row.result = "success" => unlocks[row.request] = 1
=============================================================================
