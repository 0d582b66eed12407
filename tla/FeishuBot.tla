----------------------------- MODULE FeishuBot -----------------------------
(***************************************************************************)
(* The Feishu bot: the long connection, a daemon thread with an event loop *)
(* of its own (app/integrations/feishu/longconn.py), and what is done with *)
(* the events that arrive in it (app/integrations/feishu/handlers.py).     *)
(* Handlers run on the loop of the application, which app/core/runtime.py  *)
(* keeps for other threads.  Feishu may deliver an event again: each       *)
(* delivery is an element of Deliveries.                                   *)
(***************************************************************************)
EXTENDS DoorControl

CONSTANTS Deliveries,       \* events of the bot's menu that arrive
          Menu,             \* delivery -> its event_key and operator
          DoorOpenKey,      \* FEISHU_BOT_MENU_DOOR_OPEN_EVENT_KEY
          EventMap,         \* FEISHU_BOT_MENU_DEVICE_EVENT_MAP: event_key -> terminal
          DefaultIp,        \* FEISHU_BOT_MENU_DOOR_OPEN_DEVICE_IP, or None
          ConfiguredIps,    \* ZK_DEVICE_IPS
          Allowed           \* operators on the white list; none: everyone is allowed

ASSUME FeishuBotAssumption ==
  /\ Deliveries \subseteq Openers \ Opens
  /\ \A key \in DOMAIN EventMap : EventMap[key] \in Devices
  /\ DefaultIp \in Devices \cup {None}
  /\ ConfiguredIps \in Seq(Devices)
  /\ None \notin {"app", "bot"}

VARIABLES app_loop,   \* _app_loop
          client,     \* _ws_client is set
          loop,       \* _loop is set
          thread,     \* the thread feishu-longconn
          tasks       \* delivery -> its handler: the await it is at, and its event loop
botVars == <<client, loop, thread, tasks>>

NoTask == [pc |-> "idle", on |-> None, text |-> None]
TaskOver == [NoTask EXCEPT !.pc = "over"]

BotTypeOK ==
  /\ app_loop \in {None, "app"}
  /\ client \in BOOLEAN /\ loop \in BOOLEAN
  /\ thread \in {"none", "created", "running", "ended"}
  /\ tasks \in [Deliveries -> [pc : {"idle", "scheduled", "name", "open", "notify", "over"},
                               on : {None, "app", "bot"}, text : Texts \cup {None}]]

BotInit ==
  /\ app_loop = None /\ client = FALSE /\ loop = FALSE /\ thread = "none"
  /\ tasks = [e \in Deliveries |-> NoTask]

-----------------------------------------------------------------------------
(* The long connection *)

(* start(), when the long connection is enabled and configured. *)
StartBot == client' = TRUE /\ thread' = "created" /\ UNCHANGED <<loop, tasks>>

(* _run_forever makes the event loop and connects. *)
RunForever ==
  /\ thread = "created"
  /\ loop' = TRUE /\ thread' = "running"
  /\ UNCHANGED <<zkVars, doorVars, app_loop, client, tasks>>

(* The event loop is stopped, or the connection breaks for good: its tasks *)
(* are cancelled.  The manager's fields stay as they are.                  *)
Cancelled(on) ==
  /\ tasks' = [e \in Deliveries |-> IF tasks[e].on = on THEN TaskOver ELSE tasks[e]]
  /\ opens' = [r \in Openers |-> IF r \in Deliveries /\ tasks[r].on = on THEN Dropped(opens[r], OpeningOver)
                                  ELSE opens[r]]

LoopEnds == thread' = "ended" /\ Cancelled("bot")

ConnectionFails ==
  /\ thread = "running"
  /\ LoopEnds
  /\ UNCHANGED <<zkVars, answers, door_logs, app_loop, client, loop>>

(* stop(): nothing while the thread has not made its loop; an error, or no *)
(* answer within five seconds, leaves the loop running and forgotten.      *)
StopBot ==
  \/ ~(client /\ loop) /\ UNCHANGED <<client, loop, thread, tasks, opens>>
  \/ client /\ loop /\ client' = FALSE /\ loop' = FALSE
       /\ \/ UNCHANGED <<thread, tasks, opens>>
          \/ thread = "running" /\ LoopEnds

-----------------------------------------------------------------------------
(* The handlers *)

PutTask(e, q) == tasks' = [tasks EXCEPT ![e] = q]

(* on_bot_menu_event and _dispatch: onto the loop of the application if    *)
(* there is one, else onto the loop of this thread.                        *)
Dispatch(e) ==
  /\ thread = "running" /\ tasks[e].pc = "idle"
  /\ PutTask(e, [NoTask EXCEPT !.pc = "scheduled", !.on = IF app_loop = None THEN "bot" ELSE "app"])
  /\ UNCHANGED <<zkVars, doorVars, app_loop, client, loop, thread>>

(* handle_bot_menu_event begins; the operator's name may have to be asked  *)
(* for, in a worker thread, and any error of that is swallowed.            *)
ExtractOperatorIdentity(e) ==
  /\ tasks[e].pc = "scheduled"
  /\ PutTask(e, [tasks[e] EXCEPT !.pc = "name"])
  /\ UNCHANGED <<zkVars, doorVars, app_loop, client, loop, thread>>

IsDoorOpenEvent(key) == key = DoorOpenKey \/ key \in DOMAIN EventMap
IsOperatorAllowed(operator) == Allowed = {} \/ operator \in Allowed

(* None stands for the ValueError that ends the handler. *)
ResolveDoorOpenDeviceIp(key) ==
  IF key \in DOMAIN EventMap THEN EventMap[key]
  ELSE IF DefaultIp # None THEN DefaultIp
  ELSE IF ConfiguredIps # <<>> THEN ConfiguredIps[1] ELSE None

(* handle_bot_menu_event goes on, up to the next await. *)
HandleMenu(e) ==
  LET key == Menu[e].event_key
      allowed == IsOperatorAllowed(Menu[e].operator)
      ip == ResolveDoorOpenDeviceIp(key)
  IN /\ tasks[e].pc = "name"
     /\ CASE IsDoorOpenEvent(key) /\ allowed /\ ip # None ->
               PutTask(e, [tasks[e] EXCEPT !.pc = "open"]) /\ BeginOpen(e, ip)
          [] IsDoorOpenEvent(key) /\ ~allowed ->
               PutTask(e, [tasks[e] EXCEPT !.pc = "notify", !.text = "denied"]) /\ UNCHANGED <<opens, calls>>
          [] OTHER -> PutTask(e, TaskOver) /\ UNCHANGED <<opens, calls>>
     /\ UNCHANGED <<disabled, stranded, unlocks, answers, door_logs, app_loop, client, loop, thread>>

DoorOpened(e) ==
  /\ tasks[e].pc = "open" /\ opens[e].pc \in {"returned", "raised"}
  /\ PutTask(e, [tasks[e] EXCEPT !.pc = "notify",
                                 !.text = IF opens[e].pc = "returned" THEN "opened" ELSE "not opened"])
  /\ PutOpen(e, OpeningOver)
  /\ UNCHANGED <<zkVars, answers, door_logs, app_loop, client, loop, thread>>

(* _notify_operator, unless it is off or the operator has no open_id; an   *)
(* error is swallowed.                                                     *)
NotifyOperator(e) ==
  /\ tasks[e].pc = "notify"
  /\ answers' \in {answers, [answers EXCEPT ![e] = tasks[e].text]}
  /\ PutTask(e, TaskOver)
  /\ UNCHANGED <<zkVars, opens, door_logs, app_loop, client, loop, thread>>

(* Once the application's loop is closed nothing runs on it. *)
TaskStep(e) ==
  ExtractOperatorIdentity(e) \/ HandleMenu(e) \/ DoorOpened(e) \/ NotifyOperator(e)

=============================================================================
