------------------------------ MODULE DoorHub ------------------------------
(***************************************************************************)
(* The application around its terminals: the lifespan of app/main.py       *)
(* starts and stops what DoorControl, FeishuBot and DeviceRegistry do, and *)
(* attendance logs are read beside them.  The process may be killed and is *)
(* then started again.                                                     *)
(***************************************************************************)
EXTENDS FeishuBot, DeviceRegistry

CONSTANTS LogReads,      \* calls of get_attendance_safe by the attendance synchronisation
          MaxRequests,   \* bound: requests, deliveries and reads
          MaxStarts      \* bound: times the process is started

ASSUME DoorHubAssumption ==
  /\ LogReads \subseteq Calls \ (Openers \cup DeviceRequests)
  /\ Openers \cap DeviceRequests = {}
  /\ Openers = Opens \cup Deliveries /\ Calls = Openers \cup DeviceRequests \cup LogReads
  /\ MaxRequests \in Nat /\ MaxStarts \in Nat

VARIABLES phase,     \* how far the lifespan is
          arrived,   \* number of requests, deliveries and reads
          starts     \* number of starts
hubVars == <<phase, arrived, starts>>
vars == <<zkVars, doorVars, app_loop, botVars, deviceVars, hubVars>>

TypeOK ==
  /\ ZkTypeOK /\ DoorTypeOK /\ BotTypeOK /\ DeviceTypeOK
  /\ phase \in {"off", "devices", "managers", "serving", "down"}
  /\ arrived \in 0 .. MaxRequests /\ starts \in 0 .. MaxStarts

Init ==
  /\ ZkInit /\ DoorInit /\ BotInit /\ DeviceInit
  /\ phase = "off" /\ arrived = 0 /\ starts = 0

-----------------------------------------------------------------------------
(* lifespan *)

StartApp_LoopLater ==   \* mutated form: the loop is not made known to other threads
  /\ phase = "off" /\ starts < MaxStarts
  /\ phase' = "devices" /\ starts' = starts + 1
  /\ UNCHANGED <<zkVars, doorVars, app_loop, botVars, deviceVars, arrived>>

(* set_app_loop; the tables and the administrator follow. *)
StartApp ==
  /\ phase = "off" /\ starts < MaxStarts
  /\ phase' = "devices" /\ starts' = starts + 1
  /\ app_loop' = "app"
  /\ UNCHANGED <<zkVars, doorVars, botVars, deviceVars, arrived>>

RegisterDevices ==
  /\ phase = "devices"
  /\ EnsureConfiguredDevices({ConfiguredIps[i] : i \in DOMAIN ConfiguredIps})
  /\ phase' = "managers"
  /\ UNCHANGED <<zkVars, doorVars, app_loop, botVars, device_reqs, arrived, starts>>

(* The settings are loaded; both managers and the bot start, without an    *)
(* await, and requests are served from here on.                            *)
StartManagers ==
  /\ phase = "managers"
  /\ StartBot
  /\ phase' = "serving"
  /\ UNCHANGED <<zkVars, doorVars, app_loop, deviceVars, arrived, starts>>

Serving == phase = "serving"

(* The server waits for its requests before the lifespan goes on; handlers *)
(* of events and the coroutines of the managers are not waited for.        *)
Shutdown ==
  /\ Serving
  /\ \A r \in Opens : ~Underway(r)
  /\ \A x \in DeviceRequests : device_reqs[x].pc \in {"idle", "over"}
  /\ StopBot
  /\ app_loop' = None
  /\ phase' = "down"
  /\ UNCHANGED <<zkVars, answers, door_logs, deviceVars, arrived, starts>>

(* The loop is closed: what still runs on it is cancelled where it is; the *)
(* process waits for its worker threads.                                   *)
LoopCloses ==
  /\ phase = "down"
  /\ \E e \in Deliveries : tasks[e].on = "app"
  /\ Cancelled("app")
  /\ UNCHANGED <<zkVars, answers, door_logs, app_loop, client, loop, thread, deviceVars, hubVars>>

(* Everything in memory is gone: the end of the process, when its threads  *)
(* are done or when it is killed.                                          *)
ProcessEnds ==
  /\ phase # "off"
  /\ phase' = "off" /\ app_loop' = None
  /\ client' = FALSE /\ loop' = FALSE /\ thread' = "none"
  /\ tasks' = [e \in Deliveries |-> Dropped(tasks[e], TaskOver)]
  /\ opens' = [r \in Openers |-> Dropped(opens[r], OpeningOver)]
  /\ device_reqs' = [x \in DeviceRequests |-> Dropped(device_reqs[x], DeviceRequestOver)]
  /\ UNCHANGED <<answers, door_logs, devices, arrived, starts>>

Busy(c) == calls[c].pc \notin {"idle", "done"}

Exit ==
  /\ phase = "down" /\ \A c \in Calls : ~Busy(c)
  /\ ProcessEnds
  /\ calls' = [c \in Calls |-> NoCall]
  /\ UNCHANGED <<disabled, stranded, unlocks>>

Killed == ProcessEnds /\ CallsLost

-----------------------------------------------------------------------------
(* What comes from outside *)

Arrives == arrived < MaxRequests /\ arrived' = arrived + 1 /\ UNCHANGED <<phase, starts>>

RequestOpen(r, ip) ==
  /\ Serving /\ Arrives
  /\ BeginOpen(r, ip)
  /\ UNCHANGED <<disabled, stranded, unlocks, answers, door_logs, app_loop, botVars, deviceVars>>

DeliverEvent(e) ==
  /\ Arrives
  /\ Dispatch(e)
  /\ UNCHANGED deviceVars

(* One request is like another: any that has not come will do. *)
RequestDevice(x) ==
  /\ Serving /\ Arrives
  /\ device_reqs[x].pc = "idle" /\ x = CHOOSE w \in DeviceRequests : device_reqs[w].pc = "idle"
  /\ \/ \E ip \in Devices : AskStatus(x, ip)
     \/ \E body \in DeviceBodies : AskDevice(x, "create", None, body)
     \/ \E id \in Ids, body \in DeviceBodies : AskDevice(x, "update", id, body)
     \/ \E id \in Ids : AskDevice(x, "delete", id, None)
  /\ UNCHANGED <<doorVars, app_loop, botVars>>

ReadLog(c, ip) ==
  /\ Serving /\ Arrives
  /\ calls[c].pc = "idle"
  /\ PutCall(c, NewCall("attendance", ip))
  /\ UNCHANGED <<disabled, stranded, unlocks, doorVars, app_loop, botVars, deviceVars>>

-----------------------------------------------------------------------------
(* A handler's steps, while its loop is there *)
Handler(e) ==
  /\ TaskStep(e)
  /\ tasks[e].on = "app" => phase # "down"
  /\ UNCHANGED <<deviceVars, hubVars>>

Opener(r) ==
  /\ OpenStep(r)
  /\ r \in Deliveries /\ tasks[r].on = "app" => phase # "down"
  /\ UNCHANGED <<app_loop, botVars, deviceVars, hubVars>>

Worker(c) == CallStep(c) /\ UNCHANGED <<doorVars, app_loop, botVars, deviceVars, hubVars>>

DeviceRoute(x) == DeviceStep(x) /\ UNCHANGED <<doorVars, app_loop, botVars, hubVars>>

Work ==
  \/ \E c \in Calls : Worker(c)
  \/ \E r \in Openers : Opener(r)
  \/ \E e \in Deliveries : Handler(e)
  \/ \E x \in DeviceRequests : DeviceRoute(x)
  \/ LoopCloses

Next ==
  \/ Work
  \/ StartApp \/ RegisterDevices \/ StartManagers \/ Shutdown \/ Exit \/ Killed
  \/ (RunForever \/ ConnectionFails) /\ UNCHANGED <<deviceVars, hubVars>>
  \/ \E r \in Opens, ip \in Devices : RequestOpen(r, ip)
  \/ \E e \in Deliveries : DeliverEvent(e)
  \/ \E x \in DeviceRequests : RequestDevice(x)
  \/ \E x \in DeviceRequests : DeviceRequestFails(x) /\ UNCHANGED <<doorVars, app_loop, botVars, hubVars>>
  \/ \E c \in LogReads, ip \in Devices : ReadLog(c, ip)

Spec == Init /\ [][Next]_vars

(* Commands to a terminal and statements end, with an answer, an error or  *)
(* a timeout, and the loops go on.                                         *)
FairSpec == Spec /\ WF_vars(Work)

-----------------------------------------------------------------------------
(* Properties *)

(* While requests are served no handler runs on the bot's loop, where the  *)
(* sessions and services of the application must not be used, from the     *)
(* first event on, whenever the thread starts, fails or is stopped         *)
(* (handlers.py:192-202, main.py:48-64).                                   *)
HandledOnAppLoop == \A e \in Deliveries : tasks[e].on = "bot" => ~Serving

(* What becomes of a request, as DoorLedger says it: at most one command   *)
(* to unlock, then at most one row, then at most one answer, each in       *)
(* accordance with what went before - also when the handler is cancelled   *)
(* while its worker thread goes on, the commit fails after it took effect, *)
(* or the process is killed and started again (door.py:17-40,              *)
(* zk_client.py:288-297, handlers.py:89-134).                              *)
Ledger == INSTANCE DoorLedger
            WITH Requests <- Openers, sent <- [r \in Openers |-> unlocks[r]],
                 logged <- door_logs, told <- answers

ImplementsDoorLedger == Ledger!Spec

(* Once deleted, a device comes back only when an update asks for it, or   *)
(* when the application starts with its address in its configuration: a    *)
(* request for its status that has loaded the row before leaves it deleted *)
(* (device.py:27-31, 87-104).                                              *)
DeletedStaysDeleted ==
  [][\A i \in Ids : ComesBack(i) =>
       \/ RegisterDevices /\ \E j \in DOMAIN ConfiguredIps : devices[i].ip = ConfiguredIps[j]
       \/ \E x \in DeviceRequests :
            CommitDevice(x) /\ device_reqs[x].op = "update" /\ device_reqs[x].body.active]_vars

(* Every request to open a door, every delivered event and every call ends *)
(* sooner or later, though terminals fail as often as they like            *)
(* (zk_client.py:288, door.py:16-40, handlers.py:89-134).                  *)
Quiet ==
  /\ \A c \in Calls : ~Busy(c)
  /\ \A r \in Openers : ~Underway(r)
  /\ \A e \in Deliveries : tasks[e].pc \in {"idle", "over"}
  /\ \A x \in DeviceRequests : device_reqs[x].pc \in {"idle", "over"}
RequestsEnd == <>[]Quiet
=============================================================================
