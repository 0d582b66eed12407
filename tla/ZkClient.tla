----------------------------- MODULE ZkClient -----------------------------
(***************************************************************************)
(* Calls to ZKTeco terminals: ZKClient of app/core/zk_client.py.  A call   *)
(* runs in a worker thread of its own and connects for itself, so calls to *)
(* one terminal overlap; each disables the terminal, works, and enables it *)
(* again.  An action is one command to the terminal and its answer; the    *)
(* answer may be lost after the command took effect.                       *)
(***************************************************************************)
EXTENDS ZkCodec

CONSTANTS Devices,     \* terminals, by IP address
          Calls,       \* calls, by the request that makes them
          Logs,        \* what a terminal may answer when its attendance log is read
          Enrolled,    \* [uid, user_id] of those it knows
          UpperBound   \* a year from now

Log == [count : Nat, total : Nat, available : Nat,
        words : [SupportedSizes -> Seq([who : Nat, time : Nat])]]

Exceptions == {"Exception", "ZKConnectionError", "ZKOperationError"}

ASSUME ZkClientAssumption ==
  /\ None \notin Devices \cup Exceptions
  /\ Logs \subseteq Log
  /\ \A log \in Logs, size \in SupportedSizes : Len(log.words[size]) = log.total \div size
  /\ Enrolled \subseteq [uid : Nat, user_id : Nat]
  /\ UpperBound \in DateTime

VARIABLES disabled,   \* terminals that take no notice of people
          stranded,   \* history: ... that the server has failed to enable again
          calls,      \* what a call is about to do, and what it has
          unlocks     \* history: call -> commands to unlock that were sent
zkVars == <<disabled, stranded, calls, unlocks>>

Parsed == [log \in Logs |-> ParseLog(log, Enrolled, UpperBound)]

Call == [pc : {"idle", "connect", "disable", "work", "enable", "done"},
         op : {"unlock", "attendance", "info"}, ip : Devices \cup {None},
         attempt : 1 .. 3,
         raised : Exceptions \cup {None},   \* the exception on its way out
         log : Logs \cup {None},            \* history: what the terminal answered
         serial : Devices \cup {None},       \* serial number that was read
         read : {Parsed[log] : log \in Logs} \cup {None}]            \* entries, and how many records were skipped
NoCall == [pc |-> "idle", op |-> "info", ip |-> None, attempt |-> 1, raised |-> None, log |-> None,
           serial |-> None, read |-> None]

ZkTypeOK ==
  /\ disabled \subseteq Devices /\ stranded \subseteq Devices
  /\ calls \in [Calls -> Call]
  /\ unlocks \in [Calls -> 0 .. 3]

ZkInit ==
  /\ disabled = {} /\ stranded = {}
  /\ calls = [c \in Calls |-> NoCall]
  /\ unlocks = [c \in Calls |-> 0]

PutCall(c, q) == calls' = [calls EXCEPT ![c] = q]
NewCall(op, ip) == [NoCall EXCEPT !.pc = "connect", !.op = op, !.ip = ip]

ConnectRaises_AsIs(exception) == exception   \* mutated form: what the with block raises gets out

(* connect(): whatever is raised in the with block becomes this one.       *)
ConnectRaises(exception) == "ZKConnectionError"

Retries_AnyError(q) == q.op = "unlock" /\ q.raised # None   \* mutated form: no bound, and any exception

(* The decorator of unlock: retry_if_exception_type, stop_after_attempt. *)
Retries(q) == q.op = "unlock" /\ q.raised = "ZKOperationError" /\ q.attempt < 3

Left_NoStop(q) ==   \* mutated form: any error of a terminal is retried, without an end
  IF q.op = "unlock" /\ q.raised # None THEN [q EXCEPT !.pc = "connect", !.raised = None]
  ELSE [q EXCEPT !.pc = "done", !.raised = IF q.op = "info" THEN None ELSE q.raised]

(* The with statement is over: another attempt, or the caller goes on.     *)
(* get_device_info returns "unreachable" for an exception.                 *)
Left(q) ==
  IF Retries(q) THEN [q EXCEPT !.pc = "connect", !.attempt = @ + 1, !.raised = None]
  ELSE [q EXCEPT !.pc = "done", !.raised = IF q.op = "info" THEN None ELSE q.raised]

Raise(q, exception) == [q EXCEPT !.raised = ConnectRaises(exception)]

(* No connection, so nothing to enable. *)
Connect(c) ==
  /\ calls[c].pc = "connect"
  /\ PutCall(c, [calls[c] EXCEPT !.pc = "disable"]) \/ PutCall(c, Left(Raise(calls[c], "Exception")))
  /\ UNCHANGED <<disabled, stranded, unlocks>>

Disable(c) ==
  /\ calls[c].pc = "disable"
  /\ \/ disabled' = disabled \cup {calls[c].ip} /\ PutCall(c, [calls[c] EXCEPT !.pc = "work"])
     \/ /\ disabled' \in {disabled, disabled \cup {calls[c].ip}}
        /\ PutCall(c, [Raise(calls[c], "Exception") EXCEPT !.pc = "enable"])
  /\ UNCHANGED <<stranded, unlocks>>

(* The operation returns. *)
Worked(q) ==
  CASE q.op = "unlock" -> {q}
    [] q.op = "info" -> {[q EXCEPT !.serial = q.ip]}          \* a terminal has a serial number
    [] q.op = "attendance" ->
         {[q EXCEPT !.log = log, !.read = Parsed[log]] : log \in Logs}

Operate_LeavesDisabled(c) ==   \* mutated form: the terminal is enabled only after a success
  /\ calls[c].pc = "work"
  /\ \/ \E r \in Worked(calls[c]) : PutCall(c, [r EXCEPT !.pc = "enable"])
     \/ PutCall(c, Left(Raise(calls[c], IF calls[c].op = "info" THEN "Exception" ELSE "ZKOperationError")))
  /\ UNCHANGED unlocks \/ (calls[c].op = "unlock" /\ unlocks' = [unlocks EXCEPT ![c] = @ + 1])
  /\ UNCHANGED <<disabled, stranded>>

(* unlock, get_attendance_safe, get_device_info inside the with block: the *)
(* first two raise ZKOperationError for any error.                         *)
Operate(c) ==
  LET q == calls[c]
      sent == q.op = "unlock" /\ unlocks' = [unlocks EXCEPT ![c] = @ + 1]
  IN /\ q.pc = "work"
     /\ \/ /\ \E r \in Worked(q) : PutCall(c, [r EXCEPT !.pc = "enable"])
           /\ sent \/ (q.op # "unlock" /\ UNCHANGED unlocks)
        \/ /\ PutCall(c, [Raise(q, IF q.op = "info" THEN "Exception" ELSE "ZKOperationError")
                            EXCEPT !.pc = "enable"])
           /\ sent \/ UNCHANGED unlocks
     /\ UNCHANGED <<disabled, stranded>>

(* The finally clause logs an error of its own and goes on. *)
Enable(c) ==
  LET ip == calls[c].ip IN
  /\ calls[c].pc = "enable"
  /\ \/ disabled' = disabled \ {ip} /\ stranded' = stranded \ {ip}
     \/ stranded' = stranded \cup (disabled \cap {ip}) /\ UNCHANGED disabled
  /\ PutCall(c, Left(calls[c]))
  /\ UNCHANGED unlocks

CallStep(c) == Connect(c) \/ Disable(c) \/ Operate(c) \/ Enable(c)

(* The process is killed in the middle of calls. *)
CallsLost == calls' = [c \in Calls |-> NoCall] /\ stranded' = disabled /\ UNCHANGED <<disabled, unlocks>>

-----------------------------------------------------------------------------
(* Properties *)

(* A terminal that takes no notice of people is in use by a call that will *)
(* enable it, however calls overlap and fail; otherwise a command to       *)
(* enable it has failed or the process was killed (zk_client.py:89-106).   *)
Uses(c, ip) == calls[c].ip = ip /\ calls[c].pc \in {"work", "enable"}
DisabledIsAccounted == \A ip \in disabled : ip \in stranded \/ \E c \in Calls : Uses(c, ip)

(* One request sends one command to unlock at most, whatever the decorator *)
(* says of three attempts and though the answer may be lost after the door *)
(* has opened (zk_client.py:98-100, 288-297).                              *)
UnlockSentOnce == \A c \in Calls : unlocks[c] <= 1

(* A log that is the records it claims, of one size, with less than a      *)
(* record over, and for records of 40 bytes less than nine bytes over for  *)
(* each of them, is read as it was written: every record is an entry with  *)
(* its time or is counted as skipped (zk_client.py:185-251, 258-269).      *)
WrittenIn(log, size) ==
  /\ log.count > 0 /\ log.total <= log.available
  /\ log.total - log.count * size \in 0 .. size - 1
  /\ size = 40 => log.total < log.count * 49
LogsReadWhole ==
  \A c \in Calls, size \in SupportedSizes :
    LET q == calls[c] IN
    q.read # None /\ WrittenIn(q.log, size) =>
      /\ Cardinality(q.read.entries) + q.read.skipped = q.log.count
      /\ \A e \in q.read.entries : e.timestamp = Unpacked(q.log.words[size][e.place].time)
=============================================================================
