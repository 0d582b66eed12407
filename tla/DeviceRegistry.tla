--------------------------- MODULE DeviceRegistry ---------------------------
(***************************************************************************)
(* The registered devices: DeviceService (app/services/device.py) and its  *)
(* routes (app/api/v1/devices.py).  A deleted device keeps its row and is  *)
(* inactive.  SQLAlchemy writes the columns that a request has changed     *)
(* since it loaded the row; rows have a unique IP address.                 *)
(***************************************************************************)
EXTENDS ZkClient

CONSTANTS DeviceRequests,   \* requests to the routes of devices
          DeviceBodies      \* what they send

DeviceRow == [ip : Devices, serial : Devices \cup {None}, active : BOOLEAN]
Ids == 1 .. Cardinality(Devices)

ASSUME DeviceRegistryAssumption ==
  /\ IsFiniteSet(Devices)
  /\ DeviceRequests \subseteq Calls
  /\ DeviceBodies \subseteq DeviceRow /\ None \notin DeviceRow

VARIABLES devices,        \* devices: id -> row, or None
          device_reqs     \* request -> the await it is at, and what it has loaded
deviceVars == <<devices, device_reqs>>

DeviceRequest == [pc : {"idle", "info", "find", "check", "commit", "over"},
                  op : {"status", "create", "update", "delete"},
                  id : Ids \cup {None}, body : DeviceRow \cup {None},
                  loaded : DeviceRow \cup {None}]
NoDeviceRequest == [pc |-> "idle", op |-> "status", id |-> None, body |-> None, loaded |-> None]
DeviceRequestOver == [NoDeviceRequest EXCEPT !.pc = "over"]

DeviceTypeOK ==
  /\ devices \in [Ids -> DeviceRow \cup {None}]
  /\ device_reqs \in [DeviceRequests -> DeviceRequest]

WithIp(ip) == {i \in Ids : devices[i] # None /\ devices[i].ip = ip}
FreeId == CHOOSE i \in Ids : devices[i] = None
NewRow(ip, serial) == [ip |-> ip, serial |-> serial, active |-> TRUE]

DeviceInit ==
  /\ devices = [i \in Ids |-> None]
  /\ device_reqs = [x \in DeviceRequests |-> NoDeviceRequest]

PutDeviceRequest(x, q) == device_reqs' = [device_reqs EXCEPT ![x] = q]

(* ensure_configured_devices, before anything is served: it makes inactive *)
(* devices active and adds those that are missing.                         *)
EnsureConfiguredDevices(ips) ==
  \E rows \in [Ids -> DeviceRow \cup {None}] :
    /\ \A i \in Ids : devices[i] # None =>
         rows[i] = IF devices[i].ip \in ips THEN [devices[i] EXCEPT !.active = TRUE] ELSE devices[i]
    /\ \A i \in Ids : devices[i] = None /\ rows[i] # None => rows[i].ip \in ips /\ rows[i] = NewRow(rows[i].ip, None)
    /\ \A ip \in ips : Cardinality({i \in Ids : rows[i] # None /\ rows[i].ip = ip}) = 1
    /\ devices' = rows

-----------------------------------------------------------------------------
(* Requests *)

(* get_device_status asks the terminal first. *)
AskStatus(x, ip) ==
  /\ device_reqs[x].pc = "idle"
  /\ PutDeviceRequest(x, [NoDeviceRequest EXCEPT !.pc = "info", !.body = NewRow(ip, None)])
  /\ PutCall(x, NewCall("info", ip))
  /\ UNCHANGED <<disabled, stranded, unlocks, devices>>

StatusKnown(x) ==
  /\ device_reqs[x].pc = "info" /\ calls[x].pc = "done"
  /\ PutDeviceRequest(x, [device_reqs[x] EXCEPT !.pc = "find", !.body.serial = calls[x].serial])
  /\ PutCall(x, NoCall)
  /\ UNCHANGED <<disabled, stranded, unlocks, devices>>

AskDevice(x, op, id, body) ==
  /\ device_reqs[x].pc = "idle"
  /\ PutDeviceRequest(x, [NoDeviceRequest EXCEPT !.pc = "find", !.op = op, !.id = id, !.body = body])
  /\ UNCHANGED <<zkVars, devices>>

(* get_by_ip or get_by_id: a row that is in the way, or not there, ends    *)
(* the request.                                                            *)
FindDevice(x) ==
  LET q == device_reqs[x]
      found == IF q.op \in {"status", "create"} THEN WithIp(q.body.ip) ELSE {i \in {q.id} : devices[i] # None}
      with == [q EXCEPT !.id = CHOOSE i \in found : TRUE, !.loaded = devices[CHOOSE i \in found : TRUE]]
  IN /\ q.pc = "find"
     /\ PutDeviceRequest(x,
          CASE q.op = "status" -> [(IF found = {} THEN q ELSE with) EXCEPT !.pc = "commit"]
            [] q.op = "create" -> IF found = {} THEN [q EXCEPT !.pc = "commit"] ELSE DeviceRequestOver
            [] q.op = "update" -> IF found = {} THEN DeviceRequestOver ELSE [with EXCEPT !.pc = "check"]
            [] q.op = "delete" -> IF found = {} THEN DeviceRequestOver ELSE [with EXCEPT !.pc = "commit"])
     /\ UNCHANGED <<zkVars, devices>>

(* update_device looks for another device of the address. *)
CheckIp(x) ==
  LET q == device_reqs[x] IN
  /\ q.pc = "check"
  /\ PutDeviceRequest(x, IF WithIp(q.body.ip) \ {q.id} = {} THEN [q EXCEPT !.pc = "commit"] ELSE DeviceRequestOver)
  /\ UNCHANGED <<zkVars, devices>>

(* What the request leaves on the object it loaded. *)
Edited(q) ==
  CASE q.op = "status" -> [q.loaded EXCEPT !.serial = q.body.serial]
    [] q.op = "update" -> q.body
    [] q.op = "delete" -> [q.loaded EXCEPT !.active = FALSE]

DeviceSaved_WholeRow(q, row) == Edited(q)   \* mutated form: every column is written

(* The columns that differ from what was loaded. *)
DeviceSaved(q, row) ==
  LET new == Edited(q) IN
  [column \in DOMAIN row |-> IF new[column] # q.loaded[column] THEN new[column] ELSE row[column]]

(* INSERT or UPDATE, and COMMIT; the address may have been taken since.    *)
CommitDevice(x) ==
  LET q == device_reqs[x]
      row == IF q.loaded = None THEN q.body ELSE DeviceSaved(q, devices[q.id])
      id == IF q.loaded = None THEN FreeId ELSE q.id
  IN /\ q.pc = "commit"
     /\ IF WithIp(row.ip) \ (IF q.loaded = None THEN {} ELSE {q.id}) = {}
        THEN devices' = [devices EXCEPT ![id] = row] ELSE UNCHANGED devices
     /\ PutDeviceRequest(x, DeviceRequestOver)
     /\ UNCHANGED zkVars

(* A statement fails. *)
DeviceRequestFails(x) ==
  /\ device_reqs[x].pc \in {"find", "check", "commit"}
  /\ PutDeviceRequest(x, DeviceRequestOver)
  /\ UNCHANGED <<zkVars, devices>>

DeviceStep(x) == StatusKnown(x) \/ FindDevice(x) \/ CheckIp(x) \/ CommitDevice(x)

-----------------------------------------------------------------------------
(* Properties *)

(* An inactive device becomes active. *)
ComesBack(i) == devices[i] # None /\ ~devices[i].active /\ devices'[i] # None /\ devices'[i].active
=============================================================================
