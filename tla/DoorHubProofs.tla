--------------------------- MODULE DoorHubProofs ---------------------------
(***************************************************************************)
(* The safety properties of DoorHub, for any terminals, requests, events   *)
(* and bounds.  The inductive invariant has a part for each component;     *)
(* what a step changes outside its component is stated as a frame.         *)
(***************************************************************************)
EXTENDS DoorHub, ZkCodecProofs

-----------------------------------------------------------------------------
(* Calls to terminals *)

(* A call and the number of its commands to unlock. *)
CallOK(q, sent) ==
  /\ q \in Call
  /\ sent \in {0, 1}
  /\ q.raised \in {None, "ZKConnectionError"}
  /\ q.pc \in {"connect", "disable", "work", "enable"} => q.ip \in Devices
  /\ q.pc \in {"connect", "disable", "work"} /\ q.op = "unlock" => sent = 0
  /\ q.pc \in {"enable", "done"} /\ q.op = "unlock" /\ q.raised = None => sent = 1
  /\ q.read # None => q.log \in Logs /\ q.read = Parsed[q.log]

CallsInv ==
  /\ disabled \subseteq Devices /\ stranded \subseteq Devices
  /\ calls \in [Calls -> Call]
  /\ unlocks \in [Calls -> {0, 1}]
  /\ \A c \in Calls : CallOK(calls[c], unlocks[c])
  /\ DisabledIsAccounted

CallPlace == [idle |-> 0, connect |-> 1, disable |-> 2, work |-> 3, enable |-> 4, done |-> 5]

LEMMA CallPlaces ==
  /\ CallPlace["idle"] = 0 /\ CallPlace["connect"] = 1 /\ CallPlace["disable"] = 2
  /\ CallPlace["work"] = 3 /\ CallPlace["enable"] = 4 /\ CallPlace["done"] = 5
  BY DEF CallPlace

(* What a step of a call leaves alone; no step of it goes back. *)
CallFrame(c) ==
  /\ \A d \in Calls \ {c} : calls'[d] = calls[d] /\ unlocks'[d] = unlocks[d]
  /\ calls[c].pc \notin {"idle", "done"} /\ calls'[c].pc # "idle"
  /\ calls'[c].op = calls[c].op
  /\ unlocks[c] = 1 => unlocks'[c] = 1
  /\ CallPlace[calls'[c].pc] > CallPlace[calls[c].pc]

(* No attempt follows another: what is raised is never the exception that  *)
(* the decorator asks for.                                                 *)
LEMMA LeftIsDone ==
  ASSUME NEW q \in Call, q.raised \in {None, "ZKConnectionError"}
  PROVE  Left(q) = [q EXCEPT !.pc = "done", !.raised = IF q.op = "info" THEN None ELSE q.raised]
  BY ZkClientAssumption DEF Left, Retries, Exceptions

LEMMA RaisedIsConnectionError ==
  ASSUME NEW q \in Call, NEW exception \in Exceptions
  PROVE  /\ Raise(q, exception) \in Call
         /\ Raise(q, exception) = [q EXCEPT !.raised = "ZKConnectionError"]
  BY DEF Raise, ConnectRaises, Call, Exceptions

(* What a call is once it is left. *)
LEMMA LeftMoves ==
  ASSUME NEW q \in Call, q.raised \in {None, "ZKConnectionError"}
  PROVE  /\ Left(q) \in Call /\ Left(q).pc = "done"
         /\ Left(q).raised \in {None, "ZKConnectionError"}
         /\ Left(q).raised = None => q.op = "info" \/ q.raised = None
         /\ Left(q).ip = q.ip /\ Left(q).op = q.op /\ Left(q).log = q.log /\ Left(q).read = q.read
<1> DEFINE raised == IF q.op = "info" THEN None ELSE q.raised
           r == [q EXCEPT !.pc = "done", !.raised = raised]
<1>1. raised \in {None, "ZKConnectionError"} /\ (raised = None => q.op = "info" \/ q.raised = None)
  OBVIOUS
<1>2. Left(q) = r
  BY LeftIsDone
<1> HIDE DEF raised
<1>3. r \in Call /\ r.pc = "done" /\ r.raised = raised
      /\ r.ip = q.ip /\ r.op = q.op /\ r.log = q.log /\ r.read = q.read
  BY <1>1 DEF Call, Exceptions
<1> QED
  BY <1>1, <1>2, <1>3

(* A step of one call keeps the invariant when the call itself is in order *)
(* and no terminal it leaves alone was its own to enable.                  *)
LEMMA CallMoved ==
  ASSUME CallsInv, NEW c \in Calls, NEW r, PutCall(c, r), CallOK(r, unlocks'[c]),
         unlocks' \in [Calls -> {0, 1}], \A d \in Calls \ {c} : unlocks'[d] = unlocks[d],
         disabled' \subseteq Devices, stranded' \subseteq Devices,
         \A ip \in disabled' :
           \/ ip \in stranded'
           \/ r.ip = ip /\ r.pc \in {"work", "enable"}
           \/ /\ ip \in disabled /\ ip \notin stranded
              /\ ~(calls[c].ip = ip /\ calls[c].pc \in {"work", "enable"})
  PROVE  CallsInv' /\ calls'[c] = r /\ \A d \in Calls \ {c} : calls'[d] = calls[d]
<1>1. r \in Call
  BY DEF CallOK
<1>2. /\ calls' \in [Calls -> Call] /\ calls'[c] = r
      /\ \A d \in Calls \ {c} : calls'[d] = calls[d]
  BY <1>1 DEF CallsInv, PutCall
<1>3. \A d \in Calls : CallOK(calls'[d], unlocks'[d])
  BY <1>2 DEF CallsInv
<1>4. DisabledIsAccounted'
  <2> SUFFICES ASSUME NEW ip \in disabled', ip \notin stranded'
               PROVE  \E d \in Calls : calls'[d].ip = ip /\ calls'[d].pc \in {"work", "enable"}
    BY DEF DisabledIsAccounted, Uses
  <2>1. CASE r.ip = ip /\ r.pc \in {"work", "enable"}
    BY <1>2, <2>1
  <2>2. CASE ip \in disabled /\ ip \notin stranded /\ ~(calls[c].ip = ip /\ calls[c].pc \in {"work", "enable"})
    <3>1. PICK d \in Calls : Uses(d, ip)
      BY <2>2 DEF CallsInv, DisabledIsAccounted
    <3> QED
      BY <1>2, <2>2, <3>1 DEF Uses
  <2> QED
    BY <2>1, <2>2
<1> QED
  BY <1>2, <1>3, <1>4 DEF CallsInv

LEMMA ConnectKeeps ==
  ASSUME CallsInv, NEW c \in Calls, Connect(c)
  PROVE  CallsInv' /\ CallFrame(c)
<1> DEFINE q == calls[c]
<1>1. q \in Call /\ CallOK(q, unlocks[c]) /\ q.pc = "connect"
  BY DEF CallsInv, Connect
<1>2. PICK r : PutCall(c, r) /\ (r = [q EXCEPT !.pc = "disable"] \/ r = Left(Raise(q, "Exception")))
  BY DEF Connect
<1>3. CallOK(r, unlocks[c]) /\ r.op = q.op /\ r.pc \in {"disable", "done"}
  <2>1. CASE r = [q EXCEPT !.pc = "disable"]
    BY <1>1, <2>1 DEF Call, CallOK
  <2>2. CASE r = Left(Raise(q, "Exception"))
    <3> DEFINE s == Raise(q, "Exception")
    <3>1. s \in Call /\ s.raised = "ZKConnectionError" /\ s.ip = q.ip /\ s.op = q.op /\ s.log = q.log /\ s.read = q.read
      <4>1. s \in Call /\ s = [q EXCEPT !.raised = "ZKConnectionError"]
        BY <1>1, RaisedIsConnectionError DEF Exceptions
      <4> HIDE DEF s
      <4> QED
        BY <1>1, <4>1 DEF Call
    <3> HIDE DEF s
    <3>2. /\ r \in Call /\ r.pc = "done" /\ r.raised \in {None, "ZKConnectionError"}
          /\ r.op = q.op /\ r.log = q.log /\ r.read = q.read
          /\ r.raised = None => q.op = "info"
      BY <2>2, <3>1, LeftMoves, ZkClientAssumption DEF s, Exceptions
    <3> QED
      BY <1>1, <3>2 DEF CallOK
  <2> QED
    BY <1>2, <2>1, <2>2
<1>4. UNCHANGED <<disabled, stranded, unlocks>>
  BY DEF Connect
<1>6. CallsInv' /\ calls'[c] = r /\ \A d \in Calls \ {c} : calls'[d] = calls[d]
  BY <1>1, <1>2, <1>3, <1>4, CallMoved DEF CallsInv
<1> QED
  BY <1>1, <1>3, <1>4, <1>6, CallPlaces DEF CallFrame

LEMMA DisableKeeps ==
  ASSUME CallsInv, NEW c \in Calls, Disable(c)
  PROVE  CallsInv' /\ CallFrame(c)
<1> DEFINE q == calls[c]
<1>1. q \in Call /\ CallOK(q, unlocks[c]) /\ q.pc = "disable" /\ q.ip \in Devices
  BY DEF CallsInv, Disable, CallOK
<1>2. PICK r : PutCall(c, r) /\ (r = [q EXCEPT !.pc = "work"] \/ r = [Raise(q, "Exception") EXCEPT !.pc = "enable"])
  BY DEF Disable
<1>3. CallOK(r, unlocks[c]) /\ r.op = q.op /\ r.ip = q.ip /\ r.pc \in {"work", "enable"}
  <2>1. CASE r = [q EXCEPT !.pc = "work"]
    BY <1>1, <2>1 DEF Call, CallOK
  <2>2. CASE r = [Raise(q, "Exception") EXCEPT !.pc = "enable"]
    <3>1. r = [q EXCEPT !.raised = "ZKConnectionError", !.pc = "enable"]
      BY <1>1, <2>2, RaisedIsConnectionError DEF Exceptions
    <3> QED
      BY <1>1, <3>1, ZkClientAssumption DEF Call, CallOK, Exceptions
  <2> QED
    BY <1>2, <2>1, <2>2
<1>4. UNCHANGED <<stranded, unlocks>> /\ disabled' \in {disabled, disabled \cup {q.ip}}
  BY DEF Disable
<1>6. CallsInv' /\ calls'[c] = r /\ \A d \in Calls \ {c} : calls'[d] = calls[d]
  BY <1>1, <1>2, <1>3, <1>4, CallMoved DEF CallsInv
<1> QED
  BY <1>1, <1>3, <1>4, <1>6, CallPlaces DEF CallFrame

LEMMA OperateKeeps ==
  ASSUME CallsInv, NEW c \in Calls, Operate(c)
  PROVE  CallsInv' /\ CallFrame(c)
<1> DEFINE q == calls[c]
           error == IF q.op = "info" THEN "Exception" ELSE "ZKOperationError"
           sent == q.op = "unlock" /\ unlocks' = [unlocks EXCEPT ![c] = @ + 1]
           unsent == q.op # "unlock" /\ UNCHANGED unlocks
<1>1. q \in Call /\ CallOK(q, unlocks[c]) /\ q.pc = "work" /\ q.ip \in Devices
  BY DEF CallsInv, Operate, CallOK
<1>2. PICK r : /\ PutCall(c, r)
               /\ \/ /\ \E w \in Worked(q) : r = [w EXCEPT !.pc = "enable"]
                     /\ sent \/ unsent
                  \/ /\ r = [Raise(q, error) EXCEPT !.pc = "enable"]
                     /\ sent \/ UNCHANGED unlocks
  <2> HIDE DEF sent, unsent
  <2>1. CASE /\ \E w \in Worked(q) : PutCall(c, [w EXCEPT !.pc = "enable"])
             /\ sent \/ unsent
    BY <2>1
  <2>2. CASE /\ PutCall(c, [Raise(q, error) EXCEPT !.pc = "enable"])
             /\ sent \/ UNCHANGED unlocks
    BY <2>2
  <2> QED
    BY <2>1, <2>2 DEF Operate, sent, unsent
<1>3. sent \/ UNCHANGED unlocks
  BY <1>2
<1>4. /\ unlocks' \in [Calls -> {0, 1}] /\ \A d \in Calls \ {c} : unlocks'[d] = unlocks[d]
      /\ unlocks[c] = 1 => unlocks'[c] = 1
  BY <1>1, <1>3 DEF CallsInv, CallOK
<1>5. CallOK(r, unlocks'[c]) /\ r.op = q.op /\ r.ip = q.ip /\ r.pc = "enable"
  <2>1. ASSUME NEW w \in Worked(q), r = [w EXCEPT !.pc = "enable"],
               sent \/ unsent
        PROVE  CallOK(r, unlocks'[c]) /\ r.op = q.op /\ r.ip = q.ip /\ r.pc = "enable"
    <3>1. CASE q.op = "unlock"
      <4>1. w = q /\ unlocks'[c] = 1
        BY <1>1, <2>1, <3>1 DEF Worked, CallsInv, CallOK
      <4> QED
        BY <1>1, <2>1, <3>1, <4>1 DEF Call, CallOK
    <3>2. CASE q.op = "info"
      <4>1. w = [q EXCEPT !.serial = q.ip]
        BY <1>1, <2>1, <3>2 DEF Worked
      <4> QED
        BY <1>1, <1>4, <2>1, <3>2, <4>1 DEF Call, CallOK
    <3>3. CASE q.op = "attendance"
      <4>1. PICK log \in Logs : w = [q EXCEPT !.log = log, !.read = Parsed[log]]
        BY <1>1, <2>1, <3>3 DEF Worked
      <4>2. r = [q EXCEPT !.log = log, !.read = Parsed[log], !.pc = "enable"]
        BY <2>1, <4>1
      <4> QED
        BY <1>1, <1>4, <3>3, <4>2 DEF Call, CallOK
    <3> QED
      BY <1>1, <3>1, <3>2, <3>3 DEF Call
  <2>2. CASE r = [Raise(q, error) EXCEPT !.pc = "enable"]
    <3>1. r = [q EXCEPT !.raised = "ZKConnectionError", !.pc = "enable"]
      BY <1>1, <2>2, RaisedIsConnectionError DEF Exceptions
    <3> QED
      BY <1>1, <1>4, <3>1, ZkClientAssumption DEF Call, CallOK, Exceptions
  <2> QED
    BY <1>2, <2>1, <2>2
<1>6. UNCHANGED <<disabled, stranded>>
  BY DEF Operate
<1>8. CallsInv' /\ calls'[c] = r /\ \A d \in Calls \ {c} : calls'[d] = calls[d]
  BY <1>1, <1>2, <1>4, <1>5, <1>6, CallMoved DEF CallsInv
<1> QED
  BY <1>1, <1>4, <1>5, <1>8, CallPlaces DEF CallFrame

LEMMA EnableKeeps ==
  ASSUME CallsInv, NEW c \in Calls, Enable(c)
  PROVE  CallsInv' /\ CallFrame(c)
<1> DEFINE q == calls[c]
           r == Left(q)
<1>1. q \in Call /\ CallOK(q, unlocks[c]) /\ q.pc = "enable" /\ q.ip \in Devices
  BY DEF CallsInv, Enable, CallOK
<1>2. /\ r \in Call /\ r.pc = "done" /\ r.raised \in {None, "ZKConnectionError"}
      /\ r.op = q.op /\ r.log = q.log /\ r.read = q.read
      /\ r.raised = None => q.op = "info" \/ q.raised = None
  BY <1>1, LeftMoves DEF CallOK
<1>3. PutCall(c, r) /\ UNCHANGED unlocks
  BY DEF Enable
<1> HIDE DEF r
<1>4. CallOK(r, unlocks[c])
  BY <1>1, <1>2 DEF CallOK
<1>5. /\ disabled' \subseteq disabled /\ stranded' \subseteq stranded \cup disabled
      /\ \A ip \in disabled' : ip = q.ip => ip \in stranded'
      /\ \A ip \in stranded : ip # q.ip => ip \in stranded'
  BY DEF Enable
<1>7. CallsInv' /\ calls'[c] = r /\ \A d \in Calls \ {c} : calls'[d] = calls[d]
  BY <1>3, <1>4, <1>5, CallMoved DEF CallsInv
<1> QED
  BY <1>1, <1>2, <1>3, <1>7, CallPlaces DEF CallFrame

LEMMA CallStepKeeps ==
  ASSUME CallsInv, NEW c \in Calls, CallStep(c)
  PROVE  CallsInv' /\ CallFrame(c)
  BY ConnectKeeps, DisableKeeps, OperateKeeps, EnableKeeps DEF CallStep

(* A call is made, or its end is taken note of. *)
LEMMA CallPlaced ==
  ASSUME CallsInv, NEW c \in Calls, NEW r, PutCall(c, r), CallOK(r, unlocks[c]),
         calls[c].pc \notin {"work", "enable"}, UNCHANGED <<disabled, stranded, unlocks>>
  PROVE  CallsInv' /\ calls'[c] = r /\ \A d \in Calls \ {c} : calls'[d] = calls[d]
  BY CallMoved DEF CallsInv

LEMMA NewCallOK ==
  ASSUME NEW op \in {"unlock", "attendance", "info"}, NEW ip \in Devices, NEW sent \in {0, 1},
         op = "unlock" => sent = 0
  PROVE  CallOK(NewCall(op, ip), sent) /\ NewCall(op, ip).pc = "connect" /\ NewCall(op, ip).op = op
<1> DEFINE q == NewCall(op, ip)
<1>1. NoCall \in Call /\ NoCall.raised = None /\ NoCall.read = None
  BY DEF NoCall, Call
<1>2. q = [NoCall EXCEPT !.pc = "connect", !.op = op, !.ip = ip]
  BY DEF NewCall
<1> HIDE DEF q
<1>3. q \in Call /\ q.pc = "connect" /\ q.op = op /\ q.ip = ip /\ q.raised = None /\ q.read = None
  BY <1>1, <1>2 DEF Call
<1>4. CallOK(q, sent)
  BY <1>3 DEF CallOK
<1> QED
  BY <1>3, <1>4 DEF q

LEMMA NoCallOK ==
  ASSUME NEW sent \in {0, 1}
  PROVE  CallOK(NoCall, sent) /\ NoCall.pc = "idle"
  BY DEF CallOK, NoCall, Call

LEMMA CallsSame ==
  ASSUME CallsInv, UNCHANGED zkVars
  PROVE  CallsInv'
  BY DEF CallsInv, zkVars, DisabledIsAccounted, Uses

LEMMA AllCallsOver ==
  ASSUME CallsInv, calls' = [c \in Calls |-> NoCall], UNCHANGED <<disabled, unlocks>>,
         \/ stranded' = disabled
         \/ UNCHANGED stranded /\ \A c \in Calls : ~Busy(c)
  PROVE  CallsInv'
<1>1. \A c \in Calls : unlocks[c] \in {0, 1}
  BY DEF CallsInv
<1>2. \A c \in Calls : CallOK(calls'[c], unlocks'[c])
  BY <1>1, NoCallOK
<1>3. calls' \in [Calls -> Call] /\ stranded' \subseteq Devices
  BY NoCallOK, <1>2 DEF CallOK, CallsInv
<1>4. DisabledIsAccounted'
  <2> SUFFICES ASSUME NEW ip \in disabled PROVE ip \in stranded'
    BY DEF DisabledIsAccounted
  <2> QED
    BY DEF CallsInv, DisabledIsAccounted, Uses, Busy
<1> QED
  BY <1>2, <1>3, <1>4 DEF CallsInv

-----------------------------------------------------------------------------
(* Opening a door *)

OpeningOK(r, q, call, sent, rows) ==
  /\ q.pc = "idle" => call.pc = "idle" /\ sent = 0
  /\ q.pc = "unlock" => call.op = "unlock" /\ call.pc # "idle"
  /\ q.pc \in {"commit", "refresh", "returned"} /\ q.result = "success" => sent = 1
  /\ q.pc \in {"refresh", "returned"} /\ q.result = "success" => [request |-> r, result |-> "success"] \in rows
  /\ q.pc = "returned" => q.result = "success"

DoorInv ==
  /\ DoorTypeOK
  /\ \A r \in Openers : OpeningOK(r, opens[r], calls[r], unlocks[r], door_logs)
  /\ OpenedIsLogged

(* Other calls, and steps of its own call, leave an opening in order. *)
LEMMA DoorSame ==
  ASSUME DoorInv, UNCHANGED doorVars,
         \A r \in Openers :
           \/ calls'[r] = calls[r] /\ unlocks'[r] = unlocks[r]
           \/ calls[r].pc # "idle" /\ calls'[r].pc # "idle" /\ calls'[r].op = calls[r].op
                /\ (unlocks[r] = 1 => unlocks'[r] = 1)
  PROVE  DoorInv'
<1>1. DoorTypeOK'
  BY DEF DoorInv, DoorTypeOK, doorVars
<1>2. \A r \in Openers : OpeningOK(r, opens'[r], calls'[r], unlocks'[r], door_logs')
  BY DEF DoorInv, OpeningOK, doorVars
<1>3. OpenedIsLogged'
  BY DEF DoorInv, OpenedIsLogged, DoorTypeOK, doorVars
<1> QED
  BY <1>1, <1>2, <1>3 DEF DoorInv

(* An opening moves on while nothing else of the door does. *)
LEMMA DoorMoved ==
  ASSUME DoorInv, NEW r \in Openers, NEW q \in Opening, PutOpen(r, q),
         UNCHANGED <<unlocks, answers, door_logs>>,
         \A s \in Openers \ {r} : calls'[s] = calls[s],
         OpeningOK(r, q, calls'[r], unlocks[r], door_logs)
  PROVE  DoorInv'
<1>1. opens' \in [Openers -> Opening] /\ opens'[r] = q /\ \A s \in Openers \ {r} : opens'[s] = opens[s]
  BY DEF PutOpen, DoorInv, DoorTypeOK
<1>2. DoorTypeOK'
  BY <1>1 DEF DoorInv, DoorTypeOK
<1>3. \A s \in Openers : OpeningOK(s, opens'[s], calls'[s], unlocks'[s], door_logs')
  BY <1>1 DEF DoorInv
<1>4. OpenedIsLogged'
  BY DEF DoorInv, OpenedIsLogged
<1> QED
  BY <1>2, <1>3, <1>4 DEF DoorInv

(* Coroutines end where they are. *)
LEMMA DoorDropped ==
  ASSUME DoorInv, opens' \in [Openers -> Opening],
         \A r \in Openers : opens'[r] = opens[r] \/ opens'[r] = OpeningOver,
         UNCHANGED <<calls, unlocks, answers, door_logs>>
  PROVE  DoorInv'
<1>1. DoorTypeOK' /\ OpenedIsLogged'
  BY DEF DoorInv, DoorTypeOK, OpenedIsLogged
<1>2. \A r \in Openers : OpeningOK(r, opens'[r], calls'[r], unlocks'[r], door_logs')
  BY DEF DoorInv, OpeningOK, OpeningOver, NotOpening
<1> QED
  BY <1>1, <1>2 DEF DoorInv

LEMMA BeginOpenKeeps ==
  ASSUME CallsInv, DoorInv, NEW r \in Openers, NEW ip \in Devices, BeginOpen(r, ip),
         UNCHANGED <<disabled, stranded, unlocks, answers, door_logs>>
  PROVE  /\ CallsInv' /\ DoorInv'
         /\ \A d \in Calls \ {r} : calls'[d] = calls[d]
<1>1. r \in Calls /\ calls[r].pc = "idle" /\ unlocks[r] = 0
  BY DoorControlAssumption DEF BeginOpen, DoorInv, OpeningOK
<1>2. CallOK(NewCall("unlock", ip), unlocks[r])
        /\ NewCall("unlock", ip).pc = "connect" /\ NewCall("unlock", ip).op = "unlock"
  BY <1>1, NewCallOK
<1>3. CallsInv' /\ calls'[r] = NewCall("unlock", ip) /\ \A d \in Calls \ {r} : calls'[d] = calls[d]
  BY <1>1, <1>2, CallPlaced DEF BeginOpen
<1> DEFINE q == [NotOpening EXCEPT !.pc = "unlock"]
<1>4. q \in Opening /\ q.pc = "unlock"
  BY DEF NotOpening, Opening
<1>5. PutOpen(r, q)
  BY DEF BeginOpen
<1> HIDE DEF q
<1>6. OpeningOK(r, q, calls'[r], unlocks[r], door_logs)
  BY <1>2, <1>3, <1>4 DEF OpeningOK
<1>7. \A s \in Openers \ {r} : calls'[s] = calls[s]
  BY <1>3, DoorControlAssumption
<1> QED
  BY <1>3, <1>4, <1>5, <1>6, <1>7, DoorMoved

LEMMA UnlockReturnedKeeps ==
  ASSUME CallsInv, DoorInv, NEW r \in Openers, UnlockReturned(r)
  PROVE  /\ CallsInv' /\ DoorInv' /\ door_logs' = door_logs
         /\ \A d \in Calls \ {r} : calls'[d] = calls[d]
<1> DEFINE error == calls[r].raised
           q == opens[r]
<1>1. r \in Calls /\ q \in Opening /\ q.pc = "unlock" /\ calls[r].pc = "done" /\ calls[r].op = "unlock"
        /\ CallOK(calls[r], unlocks[r])
  BY DoorControlAssumption DEF UnlockReturned, DoorInv, DoorTypeOK, OpeningOK, CallsInv
<1>2. error \in {None, "ZKConnectionError"} /\ (error = None => unlocks[r] = 1) /\ unlocks[r] \in {0, 1}
  BY <1>1 DEF CallOK
<1>3. CallsInv' /\ calls'[r] = NoCall /\ \A d \in Calls \ {r} : calls'[d] = calls[d]
  BY <1>1, <1>2, NoCallOK, CallPlaced DEF UnlockReturned
<1>4. UNCHANGED <<unlocks, answers, door_logs>> /\ \A s \in Openers \ {r} : calls'[s] = calls[s]
  BY <1>3, DoorControlAssumption DEF UnlockReturned
<1>5. CASE error = None
  <2> DEFINE p == [q EXCEPT !.pc = "commit", !.result = "success"]
  <2>1. PutOpen(r, p)
    BY <1>5, ZkClientAssumption DEF UnlockReturned, Exceptions
  <2>2. p \in Opening /\ OpeningOK(r, p, calls'[r], unlocks[r], door_logs)
    BY <1>1, <1>2, <1>5 DEF Opening, OpeningOK
  <2> HIDE DEF p
  <2> QED
    BY <1>3, <1>4, <2>1, <2>2, DoorMoved
<1>6. CASE error # None
  <2> DEFINE p == Raised(q, error)
  <2>1. error = "ZKConnectionError"
    BY <1>2, <1>6
  <2>2. PutOpen(r, p)
    BY <1>6, <2>1 DEF UnlockReturned
  <2>3. p \in Opening /\ OpeningOK(r, p, calls'[r], unlocks[r], door_logs)
    BY <1>1, <2>1 DEF Opening, OpeningOK, Raised, Exceptions
  <2> HIDE DEF p
  <2> QED
    BY <1>3, <1>4, <2>2, <2>3, DoorMoved
<1> QED
  BY <1>5, <1>6

LEMMA CommitLogKeeps ==
  ASSUME CallsInv, DoorInv, NEW r \in Openers, CommitLog(r)
  PROVE  DoorInv' /\ UNCHANGED zkVars /\ door_logs \subseteq door_logs'
<1> DEFINE q == opens[r]
           row == [request |-> r, result |-> q.result]
<1>1. q \in Opening /\ q.pc = "commit" /\ OpeningOK(r, q, calls[r], unlocks[r], door_logs)
        /\ r \in Calls /\ (q.result = "success" => unlocks[r] = 1)
  BY DoorControlAssumption DEF CommitLog, DoorInv, DoorTypeOK, OpeningOK
<1>2. UNCHANGED <<zkVars, answers>>
  BY DEF CommitLog
<1>3. door_logs' \in {door_logs, door_logs \cup {row}}
  BY DEF CommitLog, LogRow
<1>4. PICK p : PutOpen(r, p) /\ \/ p = [q EXCEPT !.pc = "refresh"] /\ row \in door_logs'
                                \/ p = Raised(q, "Exception")
  BY DEF CommitLog, LogRow
<1>5. p \in Opening /\ OpeningOK(r, p, calls'[r], unlocks'[r], door_logs')
  <2>1. CASE p = [q EXCEPT !.pc = "refresh"] /\ row \in door_logs'
    BY <1>1, <1>2, <2>1 DEF Opening, OpeningOK, zkVars
  <2>2. CASE p = Raised(q, "Exception")
    BY <1>1, <1>2, <2>2 DEF Opening, OpeningOK, Raised, Exceptions, zkVars
  <2> QED
    BY <1>4, <2>1, <2>2
<1>6. opens' \in [Openers -> Opening] /\ opens'[r] = p /\ \A s \in Openers \ {r} : opens'[s] = opens[s]
  BY <1>4, <1>5 DEF PutOpen, DoorInv, DoorTypeOK
<1>7. q.result \in {"failed", "success"}
  BY <1>1 DEF Opening
<1>8. DoorTypeOK'
  BY <1>2, <1>3, <1>6, <1>7 DEF DoorInv, DoorTypeOK
<1>9. \A s \in Openers : OpeningOK(s, opens'[s], calls'[s], unlocks'[s], door_logs')
  <2> SUFFICES ASSUME NEW s \in Openers \ {r}
               PROVE  OpeningOK(s, opens'[s], calls'[s], unlocks'[s], door_logs')
    BY <1>5, <1>6
  <2> QED
    BY <1>2, <1>3, <1>6 DEF DoorInv, OpeningOK, zkVars
<1>10. OpenedIsLogged'
  BY <1>1, <1>2, <1>3 DEF DoorInv, OpenedIsLogged, zkVars
<1> QED
  BY <1>2, <1>3, <1>8, <1>9, <1>10 DEF DoorInv

LEMMA RefreshLogKeeps ==
  ASSUME CallsInv, DoorInv, NEW r \in Openers, RefreshLog(r)
  PROVE  DoorInv' /\ UNCHANGED zkVars /\ door_logs' = door_logs
<1> DEFINE q == opens[r]
<1>1. q \in Opening /\ q.pc = "refresh" /\ OpeningOK(r, q, calls[r], unlocks[r], door_logs)
  BY DEF RefreshLog, DoorInv, DoorTypeOK
<1>2. UNCHANGED <<zkVars, answers, door_logs>>
  BY DEF RefreshLog
<1>3. PICK p : PutOpen(r, p) /\ \/ p = Raised(q, "RuntimeError") \/ p = Raised(q, "Exception")
                                \/ q.result # "failed" /\ p = [q EXCEPT !.pc = "returned"]
  BY DEF RefreshLog
<1>4. p \in Opening /\ OpeningOK(r, p, calls[r], unlocks[r], door_logs)
  <2>1. CASE p = Raised(q, "RuntimeError") \/ p = Raised(q, "Exception")
    BY <1>1, <2>1 DEF Opening, OpeningOK, Raised, Exceptions
  <2>2. CASE q.result # "failed" /\ p = [q EXCEPT !.pc = "returned"]
    BY <1>1, <2>2 DEF Opening, OpeningOK
  <2> QED
    BY <1>3, <2>1, <2>2
<1>5. UNCHANGED <<calls, unlocks, answers, door_logs>>
  BY <1>2 DEF zkVars
<1> QED
  BY <1>2, <1>3, <1>4, <1>5, DoorMoved

LEMMA AnswerOpenKeeps ==
  ASSUME CallsInv, DoorInv, NEW r \in Openers, AnswerOpen(r)
  PROVE  DoorInv' /\ UNCHANGED zkVars /\ door_logs' = door_logs
<1> DEFINE text == IF opens[r].pc = "returned" THEN "opened" ELSE "not opened"
<1>1. UNCHANGED <<zkVars, door_logs>> /\ answers' = [answers EXCEPT ![r] = text] /\ PutOpen(r, OpeningOver)
  BY DEF AnswerOpen
<1>2. OpeningOver \in Opening /\ OpeningOver.pc = "over"
  BY DEF OpeningOver, NotOpening, Opening
<1>3. opens' \in [Openers -> Opening] /\ opens'[r] = OpeningOver /\ \A s \in Openers \ {r} : opens'[s] = opens[s]
  BY <1>1, <1>2 DEF PutOpen, DoorInv, DoorTypeOK
<1>4. text \in Texts /\ (text = "opened" => [request |-> r, result |-> "success"] \in door_logs)
  BY DEF Texts, DoorInv, OpeningOK
<1> HIDE DEF text
<1>5. DoorTypeOK'
  BY <1>1, <1>3, <1>4 DEF DoorInv, DoorTypeOK
<1>6. \A s \in Openers : OpeningOK(s, opens'[s], calls'[s], unlocks'[s], door_logs')
  BY <1>1, <1>2, <1>3 DEF DoorInv, OpeningOK, zkVars
<1>7. OpenedIsLogged'
  BY <1>1, <1>4 DEF DoorInv, DoorTypeOK, OpenedIsLogged, zkVars
<1> QED
  BY <1>1, <1>5, <1>6, <1>7 DEF DoorInv

LEMMA OpenStepKeeps ==
  ASSUME CallsInv, DoorInv, NEW r \in Openers, OpenStep(r)
  PROVE  /\ CallsInv' /\ DoorInv' /\ door_logs \subseteq door_logs'
         /\ \A d \in Calls \ {r} : calls'[d] = calls[d]
<1>1. CASE UnlockReturned(r)
  BY <1>1, UnlockReturnedKeeps
<1>2. CASE CommitLog(r)
  BY <1>2, CommitLogKeeps, CallsSame DEF zkVars
<1>3. CASE RefreshLog(r)
  BY <1>3, RefreshLogKeeps, CallsSame DEF zkVars
<1>4. CASE AnswerOpen(r)
  BY <1>4, AnswerOpenKeeps, CallsSame DEF zkVars
<1> QED
  BY <1>1, <1>2, <1>3, <1>4 DEF OpenStep

-----------------------------------------------------------------------------
(* The bot and the lifespan *)

Task == [pc : {"idle", "scheduled", "name", "open", "notify", "over"},
         on : {None, "app", "bot"}, text : Texts \cup {None}]

TaskOK(e, q, rows) ==
  /\ q.text = "opened" => [request |-> e, result |-> "success"] \in rows
  /\ q.pc = "idle" => q.on = None

(* There is an application's loop, or no event is being delivered, or the  *)
(* application is on its way down.                                         *)
BotInv ==
  /\ BotTypeOK
  /\ phase \in {"off", "devices", "managers", "serving", "down"}
  /\ \A e \in Deliveries : TaskOK(e, tasks[e], door_logs)
  /\ phase \in {"devices", "managers", "serving"} => app_loop = "app"
  /\ phase = "off" => thread = "none"
  /\ phase # "down" => \A e \in Deliveries : tasks[e].on # "bot"

LEMMA BotSame ==
  ASSUME BotInv, UNCHANGED <<app_loop, botVars, phase>>, door_logs \subseteq door_logs'
  PROVE  BotInv'
  BY DEF BotInv, BotTypeOK, TaskOK, botVars

LEMMA TaskOverOK ==
  ASSUME NEW e, NEW rows
  PROVE  TaskOver \in Task /\ TaskOver.on = None /\ TaskOK(e, TaskOver, rows)
<1>1. TaskOver = [pc |-> "over", on |-> None, text |-> None]
  BY DEF TaskOver, NoTask
<1> QED
  BY <1>1, DoorControlAssumption DEF Task, TaskOK, Texts

(* A handler moves on, on the loop it has. *)
LEMMA TaskMoved ==
  ASSUME BotInv, NEW e \in Deliveries, NEW q \in Task, PutTask(e, q), TaskOK(e, q, door_logs'),
         phase = "down" \/ q.on \in {None, "app", tasks[e].on},
         UNCHANGED <<app_loop, client, loop, thread, phase>>, door_logs \subseteq door_logs'
  PROVE  BotInv'
<1>1. tasks' \in [Deliveries -> Task] /\ tasks'[e] = q /\ \A f \in Deliveries \ {e} : tasks'[f] = tasks[f]
  BY DEF PutTask, BotInv, BotTypeOK, Task
<1>2. BotTypeOK'
  BY <1>1 DEF BotInv, BotTypeOK, Task
<1>3. \A f \in Deliveries : TaskOK(f, tasks'[f], door_logs')
  BY <1>1 DEF BotInv, TaskOK
<1>4. phase # "down" => \A f \in Deliveries : tasks'[f].on # "bot"
  BY <1>1, FeishuBotAssumption DEF BotInv
<1> QED
  BY <1>2, <1>3, <1>4 DEF BotInv

(* Handlers end where they are. *)
LEMMA TasksDropped ==
  ASSUME BotInv, NEW keep, tasks' = [e \in Deliveries |-> IF e \in keep THEN tasks[e] ELSE TaskOver]
  PROVE  /\ tasks' \in [Deliveries -> Task]
         /\ \A e \in Deliveries : TaskOK(e, tasks'[e], door_logs)
         /\ \A e \in Deliveries : tasks'[e].on \in {None, tasks[e].on}
<1>1. \A e \in Deliveries : tasks'[e] = tasks[e] \/ tasks'[e] = TaskOver
  OBVIOUS
<1>2. \A e \in Deliveries : tasks[e] \in Task /\ TaskOK(e, tasks[e], door_logs)
  BY DEF BotInv, BotTypeOK, Task
<1>3. \A e \in Deliveries : tasks'[e] \in Task
  BY <1>1, <1>2, TaskOverOK
<1> QED
  BY <1>1, <1>2, <1>3, TaskOverOK

LEMMA OpensDropped ==
  ASSUME DoorInv, NEW keep, opens' = [r \in Openers |-> IF r \in keep THEN opens[r] ELSE Dropped(opens[r], OpeningOver)]
  PROVE  /\ opens' \in [Openers -> Opening]
         /\ \A r \in Openers : opens'[r] = opens[r] \/ opens'[r] = OpeningOver
<1>1. OpeningOver \in Opening
  BY DEF OpeningOver, NotOpening, Opening
<1>2. \A r \in Openers : opens'[r] = opens[r] \/ opens'[r] = OpeningOver
  BY DEF Dropped
<1> QED
  BY <1>1, <1>2 DEF DoorInv, DoorTypeOK

(* _run_forever ends, or the application's loop is closed. *)
LEMMA CancelledDrops ==
  ASSUME DoorInv, BotInv, NEW on, Cancelled(on)
  PROVE  /\ tasks' \in [Deliveries -> Task]
         /\ \A e \in Deliveries : TaskOK(e, tasks'[e], door_logs)
         /\ \A e \in Deliveries : tasks'[e].on \in {None, tasks[e].on}
         /\ opens' \in [Openers -> Opening]
         /\ \A r \in Openers : opens'[r] = opens[r] \/ opens'[r] = OpeningOver
<1>1. tasks' = [e \in Deliveries |-> IF e \in {f \in Deliveries : tasks[f].on # on} THEN tasks[e] ELSE TaskOver]
  BY DEF Cancelled
<1>2. opens' = [r \in Openers |-> IF r \in {s \in Openers : ~(s \in Deliveries /\ tasks[s].on = on)} THEN opens[r]
                                  ELSE Dropped(opens[r], OpeningOver)]
  BY DEF Cancelled
<1> QED
  BY <1>1, <1>2, TasksDropped, OpensDropped

LEMMA RunForeverKeeps ==
  ASSUME BotInv, RunForever, UNCHANGED phase
  PROVE  BotInv'
<1>1. thread = "created" /\ thread' = "running" /\ loop' = TRUE /\ UNCHANGED <<door_logs, app_loop, client, tasks>>
  BY DEF RunForever, doorVars
<1>2. phase # "off"
  BY <1>1 DEF BotInv
<1> QED
  BY <1>1, <1>2 DEF BotInv, BotTypeOK

LEMMA ConnectionFailsKeeps ==
  ASSUME DoorInv, BotInv, ConnectionFails, UNCHANGED phase
  PROVE  BotInv' /\ DoorInv'
<1>1. /\ thread = "running" /\ thread' = "ended" /\ Cancelled("bot")
      /\ UNCHANGED <<calls, unlocks, answers, door_logs, app_loop, client, loop>>
  BY DEF ConnectionFails, LoopEnds, zkVars
<1>2. phase # "off"
  BY <1>1 DEF BotInv
<1>3. BotInv'
  BY <1>1, <1>2, CancelledDrops, FeishuBotAssumption DEF BotInv, BotTypeOK, Task
<1>4. DoorInv'
  BY <1>1, CancelledDrops, DoorDropped
<1> QED
  BY <1>3, <1>4

LEMMA DispatchKeeps ==
  ASSUME BotInv, NEW e \in Deliveries, Dispatch(e), UNCHANGED phase
  PROVE  BotInv'
<1> DEFINE q == [NoTask EXCEPT !.pc = "scheduled", !.on = IF app_loop = None THEN "bot" ELSE "app"]
<1>1. /\ thread = "running" /\ PutTask(e, q)
      /\ UNCHANGED <<door_logs, app_loop, client, loop, thread>>
  BY DEF Dispatch, doorVars
<1>2. q \in Task /\ q.pc = "scheduled" /\ q.text = None /\ q.on = IF app_loop = None THEN "bot" ELSE "app"
  BY DEF NoTask, Task
<1>3. phase # "down" => app_loop = "app"
  BY <1>1 DEF BotInv
<1> HIDE DEF q
<1>4. phase = "down" \/ q.on = "app"
  BY <1>2, <1>3, FeishuBotAssumption
<1>5. TaskOK(e, q, door_logs')
  BY <1>2, DoorControlAssumption DEF TaskOK, Texts
<1> QED
  BY <1>1, <1>2, <1>4, <1>5, TaskMoved

LEMMA TaskEdited ==
  ASSUME NEW q \in Task, NEW pc \in {"scheduled", "name", "open", "notify", "over"}, NEW text \in Texts \cup {None}
  PROVE  LET p == [q EXCEPT !.pc = pc, !.text = text] IN
         p \in Task /\ p.pc = pc /\ p.text = text /\ p.on = q.on
  BY DEF Task

LEMMA TaskAdvanced ==
  ASSUME NEW q \in Task, NEW pc \in {"scheduled", "name", "open", "notify", "over"}
  PROVE  LET p == [q EXCEPT !.pc = pc] IN
         p \in Task /\ p.pc = pc /\ p.text = q.text /\ p.on = q.on
  BY DEF Task

LEMMA ExtractKeeps ==
  ASSUME BotInv, NEW e \in Deliveries, ExtractOperatorIdentity(e), UNCHANGED phase
  PROVE  BotInv'
<1> DEFINE p == [tasks[e] EXCEPT !.pc = "name"]
<1>1. PutTask(e, p) /\ UNCHANGED <<door_logs, app_loop, client, loop, thread>>
  BY DEF ExtractOperatorIdentity, doorVars
<1>2. tasks[e] \in Task /\ TaskOK(e, tasks[e], door_logs)
  BY DEF BotInv, BotTypeOK, Task
<1>3. p \in Task /\ p.pc = "name" /\ p.text = tasks[e].text /\ p.on = tasks[e].on
  BY <1>2, TaskAdvanced
<1> HIDE DEF p
<1>4. TaskOK(e, p, door_logs')
  BY <1>1, <1>2, <1>3 DEF TaskOK
<1> QED
  BY <1>1, <1>3, <1>4, TaskMoved

LEMMA IpIsADevice ==
  ASSUME NEW key, ResolveDoorOpenDeviceIp(key) # None
  PROVE  ResolveDoorOpenDeviceIp(key) \in Devices
  BY FeishuBotAssumption DEF ResolveDoorOpenDeviceIp

LEMMA HandleMenuKeeps ==
  ASSUME CallsInv, DoorInv, BotInv, NEW e \in Deliveries, HandleMenu(e), UNCHANGED phase
  PROVE  /\ CallsInv' /\ DoorInv' /\ BotInv'
         /\ \A d \in Calls \ {e} : calls'[d] = calls[d]
<1> DEFINE ip == ResolveDoorOpenDeviceIp(Menu[e].event_key)
<1>1. UNCHANGED <<disabled, stranded, unlocks, answers, door_logs, app_loop, client, loop, thread>>
  BY DEF HandleMenu
<1>2. tasks[e] \in Task /\ TaskOK(e, tasks[e], door_logs) /\ e \in Openers
  BY FeishuBotAssumption DEF BotInv, BotTypeOK, Task
<1>3. \/ ip # None /\ PutTask(e, [tasks[e] EXCEPT !.pc = "open"]) /\ BeginOpen(e, ip)
      \/ PutTask(e, [tasks[e] EXCEPT !.pc = "notify", !.text = "denied"]) /\ UNCHANGED <<opens, calls>>
      \/ PutTask(e, TaskOver) /\ UNCHANGED <<opens, calls>>
  BY Zenon DEF HandleMenu
<1>4. CASE ip # None /\ PutTask(e, [tasks[e] EXCEPT !.pc = "open"]) /\ BeginOpen(e, ip)
  <2> DEFINE p == [tasks[e] EXCEPT !.pc = "open"]
  <2>1. ip \in Devices
    BY <1>4, IpIsADevice
  <2> HIDE DEF ip
  <2>2. CallsInv' /\ DoorInv' /\ \A d \in Calls \ {e} : calls'[d] = calls[d]
    BY <1>1, <1>2, <1>4, <2>1, BeginOpenKeeps
  <2>3. p \in Task /\ p.pc = "open" /\ p.text = tasks[e].text /\ p.on = tasks[e].on /\ PutTask(e, p)
    BY <1>2, <1>4, TaskAdvanced
  <2> HIDE DEF p
  <2>4. TaskOK(e, p, door_logs')
    BY <1>1, <1>2, <2>3 DEF TaskOK
  <2> QED
    BY <1>1, <2>2, <2>3, <2>4, TaskMoved
<1>5. ASSUME NEW q \in Task, PutTask(e, q), TaskOK(e, q, door_logs), q.on \in {None, tasks[e].on},
             UNCHANGED <<opens, calls>>
      PROVE  CallsInv' /\ DoorInv' /\ BotInv' /\ \A d \in Calls \ {e} : calls'[d] = calls[d]
  <2>1. CallsInv'
    BY <1>1, <1>5, CallsSame DEF zkVars
  <2>2. DoorInv'
    BY <1>1, <1>5, DoorSame DEF doorVars
  <2>3. BotInv'
    BY <1>1, <1>5, TaskMoved
  <2> QED
    BY <1>5, <2>1, <2>2, <2>3
<1>6. CASE PutTask(e, [tasks[e] EXCEPT !.pc = "notify", !.text = "denied"]) /\ UNCHANGED <<opens, calls>>
  <2> DEFINE text == "denied"
             p == [tasks[e] EXCEPT !.pc = "notify", !.text = text]
  <2>1. PutTask(e, p) /\ text \in Texts /\ text # "opened"
    BY <1>6 DEF Texts
  <2> HIDE DEF text
  <2>2. p \in Task /\ p.pc = "notify" /\ p.text = text /\ p.on = tasks[e].on
    BY <1>2, <2>1, TaskEdited
  <2> HIDE DEF p
  <2>3. TaskOK(e, p, door_logs)
    BY <2>1, <2>2 DEF TaskOK
  <2> QED
    BY <1>5, <1>6, <2>1, <2>2, <2>3
<1>7. CASE PutTask(e, TaskOver) /\ UNCHANGED <<opens, calls>>
  BY <1>5, <1>7, TaskOverOK
<1> QED
  BY <1>3, <1>4, <1>6, <1>7

LEMMA DoorOpenedKeeps ==
  ASSUME CallsInv, DoorInv, BotInv, NEW e \in Deliveries, DoorOpened(e), UNCHANGED phase
  PROVE  CallsInv' /\ DoorInv' /\ BotInv' /\ UNCHANGED zkVars
<1> DEFINE text == IF opens[e].pc = "returned" THEN "opened" ELSE "not opened"
           p == [tasks[e] EXCEPT !.pc = "notify", !.text = text]
<1>1. /\ UNCHANGED <<zkVars, answers, door_logs, app_loop, client, loop, thread>>
      /\ PutOpen(e, OpeningOver) /\ PutTask(e, p)
  BY DEF DoorOpened
<1>2. tasks[e] \in Task /\ TaskOK(e, tasks[e], door_logs) /\ e \in Openers
  BY FeishuBotAssumption DEF BotInv, BotTypeOK, Task
<1>3. text \in Texts /\ (text = "opened" => [request |-> e, result |-> "success"] \in door_logs)
  BY <1>2 DEF Texts, DoorInv, OpeningOK
<1> HIDE DEF text
<1>4. p \in Task /\ p.pc = "notify" /\ p.text = text /\ p.on = tasks[e].on
  BY <1>2, <1>3, TaskEdited
<1> HIDE DEF p
<1>5. BotInv'
  <2>1. TaskOK(e, p, door_logs')
    BY <1>1, <1>3, <1>4 DEF TaskOK
  <2> QED
    BY <1>1, <1>4, <2>1, TaskMoved
<1>6. DoorInv'
  <2>1. OpeningOver \in Opening /\ OpeningOver.pc = "over"
    BY DEF OpeningOver, NotOpening, Opening
  <2>2. OpeningOK(e, OpeningOver, calls'[e], unlocks[e], door_logs)
    BY <2>1 DEF OpeningOK
  <2>3. UNCHANGED <<calls, unlocks, answers, door_logs>>
    BY <1>1 DEF zkVars
  <2> QED
    BY <1>1, <1>2, <2>1, <2>2, <2>3, DoorMoved
<1> QED
  BY <1>1, <1>5, <1>6, CallsSame

LEMMA NotifyOperatorKeeps ==
  ASSUME CallsInv, DoorInv, BotInv, NEW e \in Deliveries, NotifyOperator(e), UNCHANGED phase
  PROVE  CallsInv' /\ DoorInv' /\ BotInv' /\ UNCHANGED zkVars
<1>1. /\ UNCHANGED <<zkVars, opens, door_logs, app_loop, client, loop, thread>>
      /\ PutTask(e, TaskOver)
      /\ answers' \in {answers, [answers EXCEPT ![e] = tasks[e].text]}
  BY DEF NotifyOperator
<1>2. tasks[e] \in Task /\ TaskOK(e, tasks[e], door_logs) /\ e \in Openers
  BY FeishuBotAssumption DEF BotInv, BotTypeOK, Task
<1>3. BotInv'
  BY <1>1, TaskOverOK, TaskMoved
<1>4. DoorTypeOK' /\ OpenedIsLogged'
  <2>1. tasks[e].text \in Texts \cup {None}
    BY <1>2 DEF Task
  <2>2. DoorTypeOK'
    BY <1>1, <1>2, <2>1 DEF DoorInv, DoorTypeOK
  <2>3. OpenedIsLogged'
    BY <1>1, <1>2 DEF DoorInv, DoorTypeOK, OpenedIsLogged, TaskOK, zkVars
  <2> QED
    BY <2>2, <2>3
<1>5. \A r \in Openers : OpeningOK(r, opens'[r], calls'[r], unlocks'[r], door_logs')
  BY <1>1 DEF DoorInv, zkVars
<1> QED
  BY <1>1, <1>3, <1>4, <1>5, CallsSame DEF DoorInv

LEMMA TaskStepKeeps ==
  ASSUME CallsInv, DoorInv, BotInv, NEW e \in Deliveries, TaskStep(e), UNCHANGED phase
  PROVE  /\ CallsInv' /\ DoorInv' /\ BotInv'
         /\ \A d \in Calls \ {e} : calls'[d] = calls[d]
<1>1. CASE ExtractOperatorIdentity(e)
  <2>1. UNCHANGED <<zkVars, doorVars>>
    BY <1>1 DEF ExtractOperatorIdentity
  <2>2. UNCHANGED <<calls, unlocks>>
    BY <2>1 DEF zkVars
  <2> QED
    BY <1>1, <2>1, <2>2, ExtractKeeps, CallsSame, DoorSame
<1>2. CASE HandleMenu(e)
  BY <1>2, HandleMenuKeeps
<1>3. CASE DoorOpened(e)
  BY <1>3, DoorOpenedKeeps DEF zkVars
<1>4. CASE NotifyOperator(e)
  BY <1>4, NotifyOperatorKeeps DEF zkVars
<1> QED
  BY <1>1, <1>2, <1>3, <1>4 DEF TaskStep

-----------------------------------------------------------------------------
(* Devices *)

(* A request, its call and the rows. *)
DeviceReqOK(q, call, rows) ==
  /\ q.pc = "idle" => call.pc = "idle"
  /\ q.pc = "info" => q.op = "status"
  /\ q.pc \in {"info", "find"} => q.loaded = None
  /\ q.pc \in {"info", "find", "check", "commit"} /\ q.op # "delete" => q.body \in DeviceRow
  /\ q.pc \in {"find", "check", "commit"} /\ q.op \in {"update", "delete"} => q.id \in Ids
  /\ q.pc \in {"check", "commit"} /\ q.op \in {"update", "delete"} => q.loaded # None
  /\ q.op = "create" => q.loaded = None
  /\ q.loaded # None => q.id \in Ids /\ rows[q.id] # None

OneRowPerIp(rows) == \A i, j \in Ids : rows[i] # None /\ rows[j] # None /\ rows[i].ip = rows[j].ip => i = j

DeviceInv ==
  /\ DeviceTypeOK
  /\ \A x \in DeviceRequests : DeviceReqOK(device_reqs[x], calls[x], devices)
  /\ OneRowPerIp(devices)

LEMMA DeviceSame ==
  ASSUME DeviceInv, UNCHANGED deviceVars,
         \A x \in DeviceRequests : calls'[x].pc = calls[x].pc \/ calls[x].pc # "idle" \/ calls'[x].pc = "idle"
  PROVE  DeviceInv'
  BY DEF DeviceInv, DeviceTypeOK, DeviceReqOK, deviceVars

(* A request moves on. *)
LEMMA DeviceRequestMoved ==
  ASSUME DeviceInv, NEW x \in DeviceRequests, NEW q \in DeviceRequest, PutDeviceRequest(x, q),
         DeviceReqOK(q, calls'[x], devices'),
         \A y \in DeviceRequests \ {x} : calls'[y] = calls[y],
         devices' \in [Ids -> DeviceRow \cup {None}], OneRowPerIp(devices'),
         \A i \in Ids : devices[i] # None => devices'[i] # None
  PROVE  DeviceInv'
<1>1. /\ device_reqs' \in [DeviceRequests -> DeviceRequest] /\ device_reqs'[x] = q
      /\ \A y \in DeviceRequests \ {x} : device_reqs'[y] = device_reqs[y]
  BY DEF PutDeviceRequest, DeviceInv, DeviceTypeOK
<1>2. DeviceTypeOK'
  BY <1>1 DEF DeviceTypeOK
<1>3. \A y \in DeviceRequests : DeviceReqOK(device_reqs'[y], calls'[y], devices')
  <2> SUFFICES ASSUME NEW y \in DeviceRequests \ {x}
               PROVE  DeviceReqOK(device_reqs[y], calls[y], devices')
    BY <1>1
  <2>1. DeviceReqOK(device_reqs[y], calls[y], devices)
    BY DEF DeviceInv
  <2> QED
    BY <2>1 DEF DeviceReqOK
<1> QED
  BY <1>2, <1>3 DEF DeviceInv

LEMMA DeviceRequestOverOK ==
  ASSUME NEW call, NEW rows
  PROVE  DeviceRequestOver \in DeviceRequest /\ DeviceReqOK(DeviceRequestOver, call, rows)
         /\ DeviceRequestOver.pc = "over"
<1>1. DeviceRequestOver = [pc |-> "over", op |-> "status", id |-> None, body |-> None, loaded |-> None]
  BY DEF DeviceRequestOver, NoDeviceRequest
<1> QED
  BY <1>1 DEF DeviceRequest, DeviceReqOK

(* A request that ends, whatever it has found. *)
LEMMA DeviceRequestEnds ==
  ASSUME DeviceInv, NEW x \in DeviceRequests, PutDeviceRequest(x, DeviceRequestOver),
         UNCHANGED <<calls, devices>>
  PROVE  DeviceInv'
<1>1. devices' \in [Ids -> DeviceRow \cup {None}] /\ OneRowPerIp(devices')
  BY DEF DeviceInv, DeviceTypeOK
<1> QED
  BY <1>1, DeviceRequestOverOK, DeviceRequestMoved

LEMMA NewRowIsRow ==
  ASSUME NEW ip \in Devices, NEW serial \in Devices \cup {None}
  PROVE  NewRow(ip, serial) \in DeviceRow /\ NewRow(ip, serial) # None
<1>1. NewRow(ip, serial) \in DeviceRow
  BY DEF NewRow, DeviceRow
<1> QED
  BY <1>1, DeviceRegistryAssumption

LEMMA NoDeviceRequestOK ==
  /\ NoDeviceRequest \in DeviceRequest /\ NoDeviceRequest.pc = "idle"
  /\ NoDeviceRequest.op = "status" /\ NoDeviceRequest.loaded = None
  BY DEF NoDeviceRequest, DeviceRequest

LEMMA AskStatusKeeps ==
  ASSUME CallsInv, DeviceInv, NEW x \in DeviceRequests, NEW ip \in Devices, AskStatus(x, ip)
  PROVE  CallsInv' /\ DeviceInv' /\ unlocks' = unlocks /\ \A d \in Calls \ {x} : calls'[d] = calls[d]
<1> DEFINE q == [NoDeviceRequest EXCEPT !.pc = "info", !.body = NewRow(ip, None)]
<1>1. x \in Calls /\ calls[x].pc = "idle" /\ unlocks[x] \in {0, 1}
  BY DeviceRegistryAssumption DEF AskStatus, DeviceInv, DeviceReqOK, CallsInv
<1>2. CallOK(NewCall("info", ip), unlocks[x]) /\ NewCall("info", ip).pc = "connect"
  BY <1>1, NewCallOK
<1>3. CallsInv' /\ calls'[x] = NewCall("info", ip) /\ \A d \in Calls \ {x} : calls'[d] = calls[d]
  BY <1>1, <1>2, CallPlaced DEF AskStatus
<1>4. q \in DeviceRequest /\ q.pc = "info" /\ q.op = "status" /\ q.loaded = None /\ q.body \in DeviceRow
  BY NoDeviceRequestOK, NewRowIsRow DEF DeviceRequest
<1>5. PutDeviceRequest(x, q) /\ UNCHANGED <<unlocks, devices>>
  BY DEF AskStatus
<1> HIDE DEF q
<1>6. DeviceReqOK(q, calls'[x], devices')
  BY <1>4 DEF DeviceReqOK
<1>7. devices' \in [Ids -> DeviceRow \cup {None}] /\ OneRowPerIp(devices')
  BY <1>5 DEF DeviceInv, DeviceTypeOK
<1>8. \A y \in DeviceRequests \ {x} : calls'[y] = calls[y]
  BY <1>3, DeviceRegistryAssumption
<1> QED
  BY <1>3, <1>4, <1>5, <1>6, <1>7, <1>8, DeviceRequestMoved

LEMMA StatusKnownKeeps ==
  ASSUME CallsInv, DeviceInv, NEW x \in DeviceRequests, StatusKnown(x)
  PROVE  CallsInv' /\ DeviceInv' /\ unlocks' = unlocks /\ \A d \in Calls \ {x} : calls'[d] = calls[d]
<1> DEFINE q == device_reqs[x]
           p == [q EXCEPT !.pc = "find", !.body.serial = calls[x].serial]
<1>1. x \in Calls /\ calls[x].pc = "done" /\ unlocks[x] \in {0, 1} /\ calls[x] \in Call
  BY DeviceRegistryAssumption DEF StatusKnown, CallsInv
<1>2. CallsInv' /\ calls'[x] = NoCall /\ \A d \in Calls \ {x} : calls'[d] = calls[d]
  BY <1>1, NoCallOK, CallPlaced DEF StatusKnown
<1>3. q \in DeviceRequest /\ q.op = "status" /\ q.loaded = None /\ q.body \in DeviceRow
  BY DEF StatusKnown, DeviceInv, DeviceTypeOK, DeviceReqOK
<1> DEFINE body == [q.body EXCEPT !.serial = calls[x].serial]
<1>4. body \in DeviceRow
  BY <1>1, <1>3 DEF DeviceRow, Call
<1>5. p = [q EXCEPT !.pc = "find", !.body = body]
  OBVIOUS
<1>6. PutDeviceRequest(x, p) /\ UNCHANGED <<unlocks, devices>>
  BY DEF StatusKnown
<1> HIDE DEF p, body
<1>7. p \in DeviceRequest /\ DeviceReqOK(p, calls'[x], devices')
  BY <1>3, <1>4, <1>5 DEF DeviceRequest, DeviceReqOK
<1>8. devices' \in [Ids -> DeviceRow \cup {None}] /\ OneRowPerIp(devices')
  BY <1>6 DEF DeviceInv, DeviceTypeOK
<1>9. \A y \in DeviceRequests \ {x} : calls'[y] = calls[y]
  BY <1>2, DeviceRegistryAssumption
<1> QED
  BY <1>2, <1>6, <1>7, <1>8, <1>9, DeviceRequestMoved

LEMMA AskDeviceKeeps ==
  ASSUME DeviceInv, NEW x \in DeviceRequests, NEW op \in {"create", "update", "delete"},
         NEW id \in Ids \cup {None}, NEW body \in DeviceRow \cup {None}, AskDevice(x, op, id, body),
         op # "delete" => body \in DeviceRow, op # "create" => id \in Ids
  PROVE  DeviceInv' /\ UNCHANGED zkVars
<1> DEFINE q == [NoDeviceRequest EXCEPT !.pc = "find", !.op = op, !.id = id, !.body = body]
<1>1. PutDeviceRequest(x, q) /\ UNCHANGED <<zkVars, devices>>
  BY DEF AskDevice
<1>2. q \in DeviceRequest /\ q.pc = "find" /\ q.op = op /\ q.id = id /\ q.body = body /\ q.loaded = None
  BY NoDeviceRequestOK DEF DeviceRequest
<1> HIDE DEF q
<1>3. DeviceReqOK(q, calls'[x], devices')
  BY <1>2 DEF DeviceReqOK
<1>4. devices' \in [Ids -> DeviceRow \cup {None}] /\ OneRowPerIp(devices')
  BY <1>1 DEF DeviceInv, DeviceTypeOK
<1>5. \A y \in DeviceRequests \ {x} : calls'[y] = calls[y]
  BY <1>1 DEF zkVars
<1> QED
  BY <1>1, <1>2, <1>3, <1>4, <1>5, DeviceRequestMoved

LEMMA FindDeviceKeeps ==
  ASSUME DeviceInv, NEW x \in DeviceRequests, FindDevice(x)
  PROVE  DeviceInv' /\ UNCHANGED zkVars
<1> DEFINE q == device_reqs[x]
           found == IF q.op \in {"status", "create"} THEN WithIp(q.body.ip) ELSE {i \in {q.id} : devices[i] # None}
           id == CHOOSE i \in found : TRUE
           with == [q EXCEPT !.id = id, !.loaded = devices[id]]
<1>1. q \in DeviceRequest /\ q.pc = "find" /\ DeviceReqOK(q, calls[x], devices) /\ q.loaded = None
  BY DEF FindDevice, DeviceInv, DeviceTypeOK, DeviceReqOK
<1>2. UNCHANGED <<zkVars, devices>>
  BY DEF FindDevice
<1>3. found # {} => id \in Ids /\ devices[id] # None /\ devices[id] \in DeviceRow
  <2>1. \A i \in found : i \in Ids /\ devices[i] # None
    BY <1>1 DEF WithIp, DeviceReqOK, DeviceRequest
  <2> HIDE DEF found
  <2> QED
    BY <2>1 DEF DeviceInv, DeviceTypeOK
<1> HIDE DEF id
<1>4. PICK p : PutDeviceRequest(x, p) /\
        \/ p = [with EXCEPT !.pc = "commit"] /\ q.op \in {"status", "delete"} /\ found # {}
        \/ p = [with EXCEPT !.pc = "check"] /\ q.op = "update" /\ found # {}
        \/ p = [q EXCEPT !.pc = "commit"] /\ q.op \in {"status", "create"}
        \/ p = DeviceRequestOver
  <2> HIDE DEF with, found
  <2>1. q.op \in {"status", "create", "update", "delete"}
    BY <1>1 DEF DeviceRequest
  <2>2. PutDeviceRequest(x,
          CASE q.op = "status" -> [(IF found = {} THEN q ELSE with) EXCEPT !.pc = "commit"]
            [] q.op = "create" -> IF found = {} THEN [q EXCEPT !.pc = "commit"] ELSE DeviceRequestOver
            [] q.op = "update" -> IF found = {} THEN DeviceRequestOver ELSE [with EXCEPT !.pc = "check"]
            [] q.op = "delete" -> IF found = {} THEN DeviceRequestOver ELSE [with EXCEPT !.pc = "commit"])
    BY Zenon DEF FindDevice, with, found, id
  <2> QED
    BY <2>1, <2>2
<1>5. p \in DeviceRequest /\ DeviceReqOK(p, calls'[x], devices')
  <2>1. CASE p = [with EXCEPT !.pc = "commit"] /\ q.op \in {"status", "delete"} /\ found # {}
    BY <1>1, <1>2, <1>3, <2>1 DEF DeviceRequest, DeviceReqOK
  <2>2. CASE p = [with EXCEPT !.pc = "check"] /\ q.op = "update" /\ found # {}
    BY <1>1, <1>2, <1>3, <2>2 DEF DeviceRequest, DeviceReqOK
  <2>3. CASE p = [q EXCEPT !.pc = "commit"] /\ q.op \in {"status", "create"}
    BY <1>1, <1>2, <2>3 DEF DeviceRequest, DeviceReqOK
  <2>4. CASE p = DeviceRequestOver
    BY <2>4, DeviceRequestOverOK
  <2> QED
    BY <1>4, <2>1, <2>2, <2>3, <2>4
<1>6. devices' \in [Ids -> DeviceRow \cup {None}] /\ OneRowPerIp(devices')
  BY <1>2 DEF DeviceInv, DeviceTypeOK
<1>7. \A y \in DeviceRequests \ {x} : calls'[y] = calls[y]
  BY <1>2 DEF zkVars
<1> QED
  BY <1>2, <1>4, <1>5, <1>6, <1>7, DeviceRequestMoved

LEMMA CheckIpKeeps ==
  ASSUME DeviceInv, NEW x \in DeviceRequests, CheckIp(x)
  PROVE  DeviceInv' /\ UNCHANGED zkVars
<1> DEFINE q == device_reqs[x]
<1>1. q \in DeviceRequest /\ q.pc = "check" /\ DeviceReqOK(q, calls[x], devices)
  BY DEF CheckIp, DeviceInv, DeviceTypeOK
<1>2. UNCHANGED <<zkVars, devices>>
  BY DEF CheckIp
<1>3. PICK p : PutDeviceRequest(x, p) /\ p \in {[q EXCEPT !.pc = "commit"], DeviceRequestOver}
  BY DEF CheckIp
<1>4. p \in DeviceRequest /\ DeviceReqOK(p, calls'[x], devices')
  <2>1. CASE p = [q EXCEPT !.pc = "commit"]
    BY <1>1, <1>2, <2>1 DEF DeviceRequest, DeviceReqOK
  <2> QED
    BY <1>3, <2>1, DeviceRequestOverOK
<1>5. devices' \in [Ids -> DeviceRow \cup {None}] /\ OneRowPerIp(devices')
  BY <1>2 DEF DeviceInv, DeviceTypeOK
<1>6. \A y \in DeviceRequests \ {x} : calls'[y] = calls[y]
  BY <1>2 DEF zkVars
<1> QED
  BY <1>2, <1>3, <1>4, <1>5, <1>6, DeviceRequestMoved

(* What a request leaves on its object is a row, and so is what is saved. *)
LEMMA SavedIsRow ==
  ASSUME NEW q \in DeviceRequest, q.loaded \in DeviceRow, NEW row \in DeviceRow,
         q.op \in {"status", "update", "delete"}, q.op # "delete" => q.body \in DeviceRow
  PROVE  Edited(q) \in DeviceRow /\ DeviceSaved(q, row) \in DeviceRow
         /\ DeviceSaved(q, row).active = IF Edited(q).active # q.loaded.active THEN Edited(q).active ELSE row.active
<1>1. Edited(q) \in DeviceRow
  <2>1. CASE q.op = "status"
    BY <2>1 DEF Edited, DeviceRow
  <2>2. CASE q.op = "update"
    BY <2>2 DEF Edited
  <2>3. CASE q.op = "delete"
    BY <2>3 DEF Edited, DeviceRow
  <2> QED
    BY <2>1, <2>2, <2>3
<1> DEFINE new == Edited(q)
           saved == [column \in {"ip", "serial", "active"} |->
                       IF new[column] # q.loaded[column] THEN new[column] ELSE row[column]]
<1>2. DeviceSaved(q, row) = saved
  BY DEF DeviceSaved, DeviceRow
<1> HIDE DEF new
<1>3. saved = [ip |-> saved["ip"], serial |-> saved["serial"], active |-> saved["active"]]
  OBVIOUS
<1>4. saved["ip"] \in Devices /\ saved["serial"] \in Devices \cup {None} /\ saved["active"] \in BOOLEAN
  BY <1>1 DEF DeviceRow, new
<1> QED
  BY <1>1, <1>2, <1>3, <1>4 DEF DeviceRow, new

(* The row that a request commits, and the column that a device comes back *)
(* with.                                                                   *)
LEMMA RowCommitted ==
  ASSUME DeviceInv, NEW x \in DeviceRequests, device_reqs[x].pc = "commit"
  PROVE  LET q == device_reqs[x]
             row == IF q.loaded = None THEN q.body ELSE DeviceSaved(q, devices[q.id])
         IN /\ row \in DeviceRow
            /\ q.loaded # None =>
                 /\ q.id \in Ids /\ devices[q.id] \in DeviceRow
                 /\ row.active = IF Edited(q).active # q.loaded.active THEN Edited(q).active ELSE devices[q.id].active
<1> DEFINE q == device_reqs[x]
<1>1. q \in DeviceRequest /\ DeviceReqOK(q, calls[x], devices) /\ devices \in [Ids -> DeviceRow \cup {None}]
  BY DEF DeviceInv, DeviceTypeOK
<1>2. q.op \in {"status", "create", "update", "delete"}
  BY <1>1 DEF DeviceRequest
<1>3. CASE q.loaded = None
  BY <1>1, <1>2, <1>3 DEF DeviceReqOK
<1>4. CASE q.loaded # None
  <2>1. q.loaded \in DeviceRow /\ q.op \in {"status", "update", "delete"} /\ (q.op # "delete" => q.body \in DeviceRow)
    BY <1>1, <1>2, <1>4 DEF DeviceRequest, DeviceReqOK
  <2>2. q.id \in Ids /\ devices[q.id] \in DeviceRow
    BY <1>1, <1>4 DEF DeviceReqOK
  <2> HIDE DEF q
  <2> QED
    BY <1>4, <2>1, <2>2, <1>1, SavedIsRow DEF q
<1> QED
  BY <1>3, <1>4

LEMMA CommitDeviceKeeps ==
  ASSUME DeviceInv, NEW x \in DeviceRequests, CommitDevice(x)
  PROVE  DeviceInv' /\ UNCHANGED zkVars
<1> DEFINE q == device_reqs[x]
           row == IF q.loaded = None THEN q.body ELSE DeviceSaved(q, devices[q.id])
           id == IF q.loaded = None THEN FreeId ELSE q.id
           own == IF q.loaded = None THEN {} ELSE {q.id}
<1>1. UNCHANGED zkVars /\ PutDeviceRequest(x, DeviceRequestOver)
  BY DEF CommitDevice
<1>2. row \in DeviceRow /\ row # None
  BY RowCommitted, DeviceRegistryAssumption DEF CommitDevice
<1>3. (WithIp(row.ip) \ own = {} /\ devices' = [devices EXCEPT ![id] = row]) \/ UNCHANGED devices
  BY DEF CommitDevice
<1>4. own \subseteq {id}
  OBVIOUS
<1> HIDE DEF row, id, own, q
<1>5. devices' \in [Ids -> DeviceRow \cup {None}] /\ \A i \in Ids : devices[i] # None => devices'[i] # None
  BY <1>2, <1>3 DEF DeviceInv, DeviceTypeOK
<1>6. OneRowPerIp(devices')
  <2>1. CASE WithIp(row.ip) \ own = {} /\ devices' = [devices EXCEPT ![id] = row]
    <3>1. \A i \in Ids : devices'[i] = IF i = id THEN row ELSE devices[i]
      BY <2>1 DEF DeviceInv, DeviceTypeOK
    <3>2. \A i \in Ids : i # id /\ devices[i] # None => devices[i].ip # row.ip
      BY <1>4, <2>1 DEF WithIp
    <3> QED
      BY <3>1, <3>2 DEF OneRowPerIp, DeviceInv
  <2>2. CASE UNCHANGED devices
    BY <2>2 DEF DeviceInv
  <2> QED
    BY <1>3, <2>1, <2>2
<1>7. \A y \in DeviceRequests \ {x} : calls'[y] = calls[y]
  BY <1>1 DEF zkVars
<1> QED
  BY <1>1, <1>5, <1>6, <1>7, DeviceRequestOverOK, DeviceRequestMoved

LEMMA DeviceStepKeeps ==
  ASSUME CallsInv, DeviceInv, NEW x \in DeviceRequests, DeviceStep(x)
  PROVE  CallsInv' /\ DeviceInv' /\ unlocks' = unlocks /\ \A d \in Calls \ {x} : calls'[d] = calls[d]
<1>1. CASE StatusKnown(x)
  BY <1>1, StatusKnownKeeps
<1>2. CASE FindDevice(x)
  BY <1>2, FindDeviceKeeps, CallsSame DEF zkVars
<1>3. CASE CheckIp(x)
  BY <1>3, CheckIpKeeps, CallsSame DEF zkVars
<1>4. CASE CommitDevice(x)
  BY <1>4, CommitDeviceKeeps, CallsSame DEF zkVars
<1> QED
  BY <1>1, <1>2, <1>3, <1>4 DEF DeviceStep

(* What the start does to the rows. *)
LEMMA EnsureKeeps ==
  ASSUME DeviceInv, NEW ips \in SUBSET Devices, EnsureConfiguredDevices(ips), UNCHANGED <<calls, device_reqs>>
  PROVE  DeviceInv' /\ \A i \in Ids : ComesBack(i) => devices[i].ip \in ips
<1>1. PICK rows \in [Ids -> DeviceRow \cup {None}] :
        /\ \A i \in Ids : devices[i] # None =>
             rows[i] = IF devices[i].ip \in ips THEN [devices[i] EXCEPT !.active = TRUE] ELSE devices[i]
        /\ \A i \in Ids : devices[i] = None /\ rows[i] # None => rows[i].ip \in ips /\ rows[i] = NewRow(rows[i].ip, None)
        /\ \A ip \in ips : Cardinality({i \in Ids : rows[i] # None /\ rows[i].ip = ip}) = 1
        /\ devices' = rows
  BY DEF EnsureConfiguredDevices
<1>2. \A i \in Ids : devices[i] # None => devices[i] \in DeviceRow
  BY DEF DeviceInv, DeviceTypeOK
<1>3. \A i \in Ids : devices[i] # None =>
        rows[i] \in DeviceRow /\ rows[i].ip = devices[i].ip /\ (devices[i].ip \notin ips => rows[i] = devices[i])
  BY <1>1, <1>2 DEF DeviceRow
<1>4. \A i \in Ids : devices[i] # None => rows[i] # None
  BY <1>3, DeviceRegistryAssumption
<1>5. OneRowPerIp(rows)
  <2> SUFFICES ASSUME NEW i \in Ids, NEW j \in Ids, rows[i] # None, rows[j] # None, rows[i].ip = rows[j].ip
               PROVE  i = j
    BY DEF OneRowPerIp
  <2>1. CASE rows[i].ip \in ips
    <3> DEFINE there == {k \in Ids : rows[k] # None /\ rows[k].ip = rows[i].ip}
    <3>1. Cardinality(there) = 1 /\ i \in there /\ j \in there
      BY <1>1, <2>1
    <3>2. IsFiniteSet(there)
      <4>1. IsFiniteSet(Ids)
        BY DeviceRegistryAssumption, FS_CardinalityType, FS_Interval DEF Ids
      <4> QED
        BY <4>1, FS_Subset
    <3> HIDE DEF there
    <3>3. \E k : there = {k}
      BY <3>1, <3>2, FS_Singleton
    <3> QED
      BY <3>1, <3>3
  <2>2. CASE rows[i].ip \notin ips
    <3>1. devices[i] # None /\ devices[j] # None
      BY <1>1, <2>2
    <3> QED
      BY <1>3, <3>1 DEF DeviceInv, OneRowPerIp
  <2> QED
    BY <2>1, <2>2
<1>6. \A x \in DeviceRequests : DeviceReqOK(device_reqs[x], calls[x], rows)
  BY <1>4 DEF DeviceInv, DeviceReqOK
<1>7. DeviceInv'
  BY <1>1, <1>5, <1>6 DEF DeviceInv, DeviceTypeOK
<1>8. \A i \in Ids : ComesBack(i) => devices[i].ip \in ips
  BY <1>1, <1>3 DEF ComesBack
<1> QED
  BY <1>7, <1>8

(* There is room for another address as long as one is not taken. *)
LEMMA FreeIdIsFree ==
  ASSUME DeviceInv, NEW ip \in Devices, WithIp(ip) = {}
  PROVE  FreeId \in Ids /\ devices[FreeId] = None
<1> SUFFICES ASSUME \A i \in Ids : devices[i] # None
             PROVE  FALSE
  BY DEF FreeId
<1> DEFINE others == Devices \ {ip}
           f == [i \in Ids |-> devices[i].ip]
<1>1. \A i \in Ids : devices[i] \in DeviceRow /\ devices[i].ip # ip
  BY DEF DeviceInv, DeviceTypeOK, WithIp
<1>2. f \in [Ids -> others]
  BY <1>1 DEF DeviceRow
<1>3. IsFiniteSet(Devices) /\ Cardinality(Devices) \in Nat
  BY DeviceRegistryAssumption, FS_CardinalityType
<1>4. IsFiniteSet(others) /\ Cardinality(others) = Cardinality(Devices) - 1
  BY <1>3, FS_RemoveElement
<1>5. IsFiniteSet(Ids) /\ Cardinality(Ids) = Cardinality(Devices)
  BY <1>3, FS_Interval DEF Ids
<1> HIDE DEF f, others
<1>6. PICK i, j \in Ids : i # j /\ f[i] = f[j]
  BY <1>2, <1>3, <1>4, <1>5, FS_PigeonHole
<1> QED
  BY <1>6 DEF f, DeviceInv, OneRowPerIp

-----------------------------------------------------------------------------
(* The whole *)

Bounds == arrived \in 0 .. MaxRequests /\ starts \in 0 .. MaxStarts

IInv == CallsInv /\ DoorInv /\ BotInv /\ DeviceInv /\ Bounds

(* Every request has one kind. *)
LEMMA Kinds ==
  /\ Openers \subseteq Calls /\ DeviceRequests \subseteq Calls /\ LogReads \subseteq Calls
  /\ Opens \subseteq Openers /\ Deliveries \subseteq Openers
  /\ \A x \in DeviceRequests : x \notin Openers
  /\ \A c \in LogReads : c \notin Openers /\ c \notin DeviceRequests
  BY DoorControlAssumption, FeishuBotAssumption, DeviceRegistryAssumption, DoorHubAssumption

LEMMA InitKeeps ==
  ASSUME Init
  PROVE  IInv
<1>1. CallsInv
  <2>1. \A c \in Calls : CallOK(calls[c], unlocks[c]) /\ calls[c] \in Call
    BY NoCallOK DEF Init, ZkInit, CallOK
  <2> QED
    BY <2>1 DEF Init, ZkInit, CallsInv, DisabledIsAccounted
<1>2. DoorInv
  <2>1. NotOpening \in Opening /\ NotOpening.pc = "idle"
    BY DEF NotOpening, Opening
  <2>2. \A r \in Openers : calls[r].pc = "idle" /\ unlocks[r] = 0
    BY Kinds, NoCallOK DEF Init, ZkInit
  <2>3. DoorTypeOK
    BY <2>1 DEF Init, DoorInit, DoorTypeOK
  <2>4. \A r \in Openers : OpeningOK(r, opens[r], calls[r], unlocks[r], door_logs)
    BY <2>1, <2>2 DEF Init, DoorInit, OpeningOK
  <2>5. OpenedIsLogged
    BY DoorControlAssumption DEF Init, DoorInit, OpenedIsLogged, Texts
  <2> QED
    BY <2>3, <2>4, <2>5 DEF DoorInv
<1>3. BotInv
  <2>1. NoTask = [pc |-> "idle", on |-> None, text |-> None]
    BY DEF NoTask
  <2>2. NoTask \in Task /\ NoTask.on = None /\ \A e : TaskOK(e, NoTask, door_logs)
    BY <2>1, DoorControlAssumption DEF Task, TaskOK, Texts
  <2> QED
    BY <2>2, FeishuBotAssumption DEF Init, BotInit, BotInv, BotTypeOK, Task
<1>4. DeviceInv
  <2>1. \A x \in DeviceRequests : calls[x].pc = "idle"
    BY Kinds, NoCallOK DEF Init, ZkInit
  <2>2. \A x \in DeviceRequests : DeviceReqOK(device_reqs[x], calls[x], devices)
    BY <2>1, NoDeviceRequestOK DEF Init, DeviceInit, DeviceReqOK
  <2> QED
    BY <2>2, NoDeviceRequestOK DEF Init, DeviceInit, DeviceInv, DeviceTypeOK, OneRowPerIp
<1>5. Bounds
  BY DoorHubAssumption DEF Init, Bounds
<1> QED
  BY <1>1, <1>2, <1>3, <1>4, <1>5 DEF IInv

LEMMA WorkerKeeps ==
  ASSUME IInv, NEW c \in Calls, Worker(c)
  PROVE  IInv'
<1>1. CallsInv' /\ CallFrame(c)
  BY CallStepKeeps DEF Worker, IInv
<1>2. UNCHANGED <<doorVars, app_loop, botVars, deviceVars, hubVars>>
  BY DEF Worker
<1>3. DoorInv'
  BY <1>1, <1>2, DoorSame, Kinds DEF IInv, CallFrame
<1>4. BotInv'
  BY <1>2, BotSame DEF IInv, doorVars, hubVars
<1>5. DeviceInv'
  BY <1>1, <1>2, DeviceSame, Kinds DEF IInv, CallFrame
<1> QED
  BY <1>1, <1>2, <1>3, <1>4, <1>5 DEF IInv, Bounds, hubVars

LEMMA OpenerKeeps ==
  ASSUME IInv, NEW r \in Openers, Opener(r)
  PROVE  IInv'
<1>1. CallsInv' /\ DoorInv' /\ door_logs \subseteq door_logs' /\ \A d \in Calls \ {r} : calls'[d] = calls[d]
  BY OpenStepKeeps DEF Opener, IInv
<1>2. UNCHANGED <<app_loop, botVars, deviceVars, hubVars>>
  BY DEF Opener
<1>3. BotInv'
  BY <1>1, <1>2, BotSame DEF IInv, hubVars
<1>4. DeviceInv'
  BY <1>1, <1>2, DeviceSame, Kinds DEF IInv
<1> QED
  BY <1>1, <1>2, <1>3, <1>4 DEF IInv, Bounds, hubVars

LEMMA HandlerKeeps ==
  ASSUME IInv, NEW e \in Deliveries, Handler(e)
  PROVE  IInv'
<1>1. UNCHANGED <<deviceVars, hubVars>>
  BY DEF Handler
<1>2. CallsInv' /\ DoorInv' /\ BotInv' /\ \A d \in Calls \ {e} : calls'[d] = calls[d]
  BY <1>1, TaskStepKeeps DEF Handler, IInv, hubVars
<1>3. DeviceInv'
  BY <1>1, <1>2, DeviceSame, Kinds DEF IInv
<1> QED
  BY <1>1, <1>2, <1>3 DEF IInv, Bounds, hubVars

(* A request about a device leaves the door and the bot alone. *)
LEMMA BesideDevices ==
  ASSUME IInv, NEW x \in DeviceRequests, CallsInv', DeviceInv', unlocks' = unlocks,
         \A d \in Calls \ {x} : calls'[d] = calls[d],
         UNCHANGED <<doorVars, app_loop, botVars, phase>>, Bounds'
  PROVE  IInv'
<1>1. DoorInv'
  BY DoorSame, Kinds DEF IInv
<1>2. BotInv'
  BY BotSame DEF IInv, doorVars
<1> QED
  BY <1>1, <1>2 DEF IInv

LEMMA DeviceRouteKeeps ==
  ASSUME IInv, NEW x \in DeviceRequests,
         DeviceStep(x) \/ DeviceRequestFails(x), UNCHANGED <<doorVars, app_loop, botVars, hubVars>>
  PROVE  IInv'
<1>1. CallsInv' /\ DeviceInv' /\ unlocks' = unlocks /\ \A d \in Calls \ {x} : calls'[d] = calls[d]
  <2>1. CASE DeviceStep(x)
    BY <2>1, DeviceStepKeeps DEF IInv
  <2>2. CASE DeviceRequestFails(x)
    <3>1. UNCHANGED zkVars /\ UNCHANGED devices /\ PutDeviceRequest(x, DeviceRequestOver)
      BY <2>2 DEF DeviceRequestFails
    <3> QED
      BY <3>1, DeviceRequestEnds, CallsSame DEF IInv, zkVars
  <2> QED
    BY <2>1, <2>2
<1> QED
  BY <1>1, BesideDevices DEF IInv, Bounds, hubVars

LEMMA RequestDeviceKeeps ==
  ASSUME IInv, NEW x \in DeviceRequests, RequestDevice(x)
  PROVE  IInv'
<1>1. UNCHANGED <<doorVars, app_loop, botVars, phase>> /\ Bounds'
  BY DoorHubAssumption DEF RequestDevice, Arrives, IInv, Bounds
<1>2. CASE \E ip \in Devices : AskStatus(x, ip)
  BY <1>1, <1>2, AskStatusKeeps, BesideDevices DEF IInv
<1>3. CASE \/ \E body \in DeviceBodies : AskDevice(x, "create", None, body)
           \/ \E id \in Ids, body \in DeviceBodies : AskDevice(x, "update", id, body)
           \/ \E id \in Ids : AskDevice(x, "delete", id, None)
  <2>1. \A body \in DeviceBodies : body \in DeviceRow
    BY DeviceRegistryAssumption
  <2>2. DeviceInv' /\ UNCHANGED zkVars
    <3>1. CASE \E body \in DeviceBodies : AskDevice(x, "create", None, body)
      BY <2>1, <3>1, AskDeviceKeeps DEF IInv
    <3>2. CASE \E id \in Ids, body \in DeviceBodies : AskDevice(x, "update", id, body)
      BY <2>1, <3>2, AskDeviceKeeps DEF IInv
    <3>3. CASE \E id \in Ids : AskDevice(x, "delete", id, None)
      BY <3>3, AskDeviceKeeps DEF IInv
    <3> QED
      BY <1>3, <3>1, <3>2, <3>3
  <2>3. CallsInv' /\ unlocks' = unlocks /\ \A d \in Calls \ {x} : calls'[d] = calls[d]
    BY <2>2, CallsSame DEF IInv, zkVars
  <2> QED
    BY <1>1, <2>2, <2>3, BesideDevices
<1> QED
  BY <1>2, <1>3 DEF RequestDevice

LEMMA RequestOpenKeeps ==
  ASSUME IInv, NEW r \in Opens, NEW ip \in Devices, RequestOpen(r, ip)
  PROVE  IInv'
<1>1. /\ UNCHANGED <<disabled, stranded, unlocks, answers, door_logs, app_loop, botVars, deviceVars, phase>>
      /\ Bounds' /\ r \in Openers
  BY DoorHubAssumption, Kinds DEF RequestOpen, Arrives, IInv, Bounds
<1>2. CallsInv' /\ DoorInv' /\ \A d \in Calls \ {r} : calls'[d] = calls[d]
  BY <1>1, BeginOpenKeeps DEF RequestOpen, IInv
<1>3. BotInv'
  BY <1>1, BotSame DEF IInv
<1>4. DeviceInv'
  BY <1>1, <1>2, DeviceSame, Kinds DEF IInv
<1> QED
  BY <1>1, <1>2, <1>3, <1>4 DEF IInv

LEMMA DeliverEventKeeps ==
  ASSUME IInv, NEW e \in Deliveries, DeliverEvent(e)
  PROVE  IInv'
<1>1. UNCHANGED <<zkVars, doorVars, deviceVars, phase>> /\ Bounds'
  BY DoorHubAssumption DEF DeliverEvent, Dispatch, Arrives, IInv, Bounds
<1>2. UNCHANGED <<calls, unlocks>>
  BY <1>1 DEF zkVars
<1>3. BotInv'
  BY <1>1, DispatchKeeps DEF DeliverEvent, IInv
<1>4. CallsInv' /\ DoorInv' /\ DeviceInv'
  BY <1>1, <1>2, CallsSame, DoorSame, DeviceSame DEF IInv
<1> QED
  BY <1>1, <1>3, <1>4 DEF IInv

LEMMA ReadLogKeeps ==
  ASSUME IInv, NEW c \in LogReads, NEW ip \in Devices, ReadLog(c, ip)
  PROVE  IInv'
<1>1. UNCHANGED <<disabled, stranded, unlocks, doorVars, app_loop, botVars, deviceVars, phase>> /\ Bounds'
  BY DoorHubAssumption DEF ReadLog, Arrives, IInv, Bounds
<1>2. c \in Calls /\ unlocks[c] \in {0, 1} /\ calls[c].pc = "idle" /\ PutCall(c, NewCall("attendance", ip))
  BY Kinds DEF ReadLog, IInv, CallsInv
<1>3. CallOK(NewCall("attendance", ip), unlocks[c])
  BY <1>2, NewCallOK
<1>4. CallsInv' /\ \A d \in Calls \ {c} : calls'[d] = calls[d]
  BY <1>1, <1>2, <1>3, CallPlaced DEF IInv
<1>5. DoorInv' /\ DeviceInv'
  BY <1>1, <1>4, DoorSame, DeviceSame, Kinds DEF IInv
<1>6. BotInv'
  BY <1>1, BotSame DEF IInv, doorVars
<1> QED
  BY <1>1, <1>4, <1>5, <1>6 DEF IInv

-----------------------------------------------------------------------------
(* The lifespan *)

LEMMA StartAppKeeps ==
  ASSUME IInv, StartApp
  PROVE  IInv'
<1>1. /\ phase = "off" /\ phase' = "devices" /\ app_loop' = "app"
      /\ UNCHANGED <<zkVars, doorVars, botVars, deviceVars>> /\ Bounds'
  BY DoorHubAssumption DEF StartApp, IInv, Bounds
<1>2. UNCHANGED <<calls, unlocks>>
  BY <1>1 DEF zkVars
<1>3. CallsInv' /\ DoorInv' /\ DeviceInv'
  BY <1>1, <1>2, CallsSame, DoorSame, DeviceSame DEF IInv
<1>4. BotInv'
  BY <1>1 DEF IInv, BotInv, BotTypeOK, TaskOK, botVars, doorVars
<1> QED
  BY <1>1, <1>3, <1>4 DEF IInv

LEMMA RegisterDevicesKeeps ==
  ASSUME IInv, RegisterDevices
  PROVE  IInv' /\ \A i \in Ids : ComesBack(i) => \E j \in DOMAIN ConfiguredIps : devices[i].ip = ConfiguredIps[j]
<1> DEFINE ips == {ConfiguredIps[i] : i \in DOMAIN ConfiguredIps}
<1>1. /\ phase = "devices" /\ phase' = "managers"
      /\ UNCHANGED <<zkVars, doorVars, app_loop, botVars, device_reqs>> /\ Bounds'
  BY DEF RegisterDevices, IInv, Bounds
<1>2. UNCHANGED <<calls, unlocks>>
  BY <1>1 DEF zkVars
<1>3. ips \in SUBSET Devices /\ EnsureConfiguredDevices(ips)
  BY FeishuBotAssumption DEF RegisterDevices
<1>4. DeviceInv' /\ \A i \in Ids : ComesBack(i) => devices[i].ip \in ips
  <2> HIDE DEF ips
  <2> QED
    BY <1>1, <1>2, <1>3, EnsureKeeps DEF IInv
<1>5. CallsInv' /\ DoorInv'
  BY <1>1, <1>2, CallsSame, DoorSame DEF IInv
<1>6. BotInv'
  BY <1>1 DEF IInv, BotInv, BotTypeOK, TaskOK, botVars, doorVars
<1> QED
  BY <1>1, <1>4, <1>5, <1>6 DEF IInv

LEMMA StartManagersKeeps ==
  ASSUME IInv, StartManagers
  PROVE  IInv'
<1>1. /\ phase = "managers" /\ phase' = "serving" /\ client' = TRUE /\ thread' = "created"
      /\ UNCHANGED <<zkVars, doorVars, app_loop, loop, tasks, deviceVars>> /\ Bounds'
  BY DEF StartManagers, StartBot, IInv, Bounds
<1>2. UNCHANGED <<calls, unlocks>>
  BY <1>1 DEF zkVars
<1>3. CallsInv' /\ DoorInv' /\ DeviceInv'
  BY <1>1, <1>2, CallsSame, DoorSame, DeviceSame DEF IInv
<1>4. BotInv'
  BY <1>1 DEF IInv, BotInv, BotTypeOK, TaskOK, doorVars
<1> QED
  BY <1>1, <1>3, <1>4 DEF IInv

LEMMA ShutdownKeeps ==
  ASSUME IInv, Shutdown
  PROVE  IInv'
<1>1. /\ phase' = "down" /\ app_loop' = None /\ StopBot
      /\ UNCHANGED <<zkVars, answers, door_logs, deviceVars>> /\ Bounds'
  BY DEF Shutdown, IInv, Bounds
<1>2. UNCHANGED <<calls, unlocks>>
  BY <1>1 DEF zkVars
<1>3. CallsInv' /\ DeviceInv'
  BY <1>1, <1>2, CallsSame, DeviceSame DEF IInv
<1>4. /\ client' \in BOOLEAN /\ loop' \in BOOLEAN
      /\ \/ UNCHANGED <<thread, tasks, opens>>
         \/ thread' = "ended" /\ Cancelled("bot")
  BY <1>1 DEF StopBot, LoopEnds, IInv, BotInv, BotTypeOK
<1>5. CASE UNCHANGED <<thread, tasks, opens>>
  <2>1. DoorInv'
    BY <1>1, <1>2, <1>5, DoorSame DEF IInv, doorVars
  <2>2. BotInv'
    BY <1>1, <1>4, <1>5 DEF IInv, BotInv, BotTypeOK, TaskOK
  <2> QED
    BY <1>1, <1>3, <2>1, <2>2 DEF IInv
<1>6. CASE thread' = "ended" /\ Cancelled("bot")
  <2>1. DoorInv'
    BY <1>1, <1>2, <1>6, CancelledDrops, DoorDropped DEF IInv
  <2>2. BotInv'
    BY <1>1, <1>4, <1>6, CancelledDrops DEF IInv, BotInv, BotTypeOK, Task
  <2> QED
    BY <1>1, <1>3, <2>1, <2>2 DEF IInv
<1> QED
  BY <1>4, <1>5, <1>6

LEMMA LoopClosesKeeps ==
  ASSUME IInv, LoopCloses
  PROVE  IInv'
<1>1. /\ phase = "down" /\ Cancelled("app")
      /\ UNCHANGED <<zkVars, answers, door_logs, app_loop, client, loop, thread, deviceVars, hubVars>>
  BY DEF LoopCloses
<1>2. UNCHANGED <<calls, unlocks>>
  BY <1>1 DEF zkVars
<1>3. CallsInv' /\ DeviceInv'
  BY <1>1, <1>2, CallsSame, DeviceSame DEF IInv
<1>4. DoorInv'
  BY <1>1, <1>2, CancelledDrops, DoorDropped DEF IInv
<1>5. BotInv'
  BY <1>1, CancelledDrops DEF IInv, BotInv, BotTypeOK, Task, hubVars
<1> QED
  BY <1>1, <1>3, <1>4, <1>5 DEF IInv, Bounds, hubVars

(* The process ends, with the calls that are lost or have ended before.    *)
LEMMA ProcessEndsKeeps ==
  ASSUME IInv, ProcessEnds, calls' = [c \in Calls |-> NoCall], UNCHANGED <<disabled, unlocks>>,
         \/ stranded' = disabled
         \/ UNCHANGED stranded /\ \A c \in Calls : ~Busy(c)
  PROVE  IInv'
<1>1. UNCHANGED <<answers, door_logs, devices, arrived, starts>>
  BY DEF ProcessEnds
<1>2. CallsInv'
  BY AllCallsOver DEF IInv
<1>3. DoorInv'
  <2>1. opens' = [r \in Openers |-> Dropped(opens[r], OpeningOver)]
    BY DEF ProcessEnds
  <2> DEFINE keep == {}
  <2>2. opens' = [r \in Openers |-> IF r \in keep THEN opens[r] ELSE Dropped(opens[r], OpeningOver)]
    BY <2>1
  <2> HIDE DEF keep
  <2>3. opens' \in [Openers -> Opening]
    BY <2>2, OpensDropped DEF IInv
  <2>4. \A r \in Openers : opens'[r].pc \in {"idle", "over"} /\ (opens'[r].pc = "idle" => opens[r].pc = "idle")
    BY <2>1 DEF Dropped, OpeningOver, NotOpening
  <2>5. \A r \in Openers : calls'[r].pc = "idle"
    BY Kinds, NoCallOK
  <2>6. \A r \in Openers : OpeningOK(r, opens'[r], calls'[r], unlocks'[r], door_logs')
    BY <2>4, <2>5 DEF IInv, DoorInv, OpeningOK
  <2>7. DoorTypeOK' /\ OpenedIsLogged'
    BY <1>1, <2>3 DEF IInv, DoorInv, DoorTypeOK, OpenedIsLogged
  <2> QED
    BY <2>6, <2>7 DEF DoorInv
<1>4. BotInv'
  <2>1. tasks' = [e \in Deliveries |-> IF e \in {f \in Deliveries : tasks[f].pc = "idle"} THEN tasks[e] ELSE TaskOver]
    BY DEF ProcessEnds, Dropped
  <2>2. tasks' \in [Deliveries -> Task] /\ \A e \in Deliveries : TaskOK(e, tasks'[e], door_logs)
    BY <2>1, TasksDropped DEF IInv
  <2>3. \A e \in Deliveries : tasks'[e].on = None
    BY <2>1, TaskOverOK DEF IInv, BotInv, TaskOK
  <2>4. phase' = "off" /\ app_loop' = None /\ client' = FALSE /\ loop' = FALSE /\ thread' = "none"
    BY DEF ProcessEnds
  <2> QED
    BY <1>1, <2>2, <2>3, <2>4, FeishuBotAssumption DEF BotInv, BotTypeOK, Task
<1>5. DeviceInv'
  <2>1. \A x \in DeviceRequests :
          \/ device_reqs[x].pc = "idle" /\ device_reqs'[x] = device_reqs[x]
          \/ device_reqs'[x] = DeviceRequestOver
    BY DEF ProcessEnds, Dropped
  <2>2. \A x \in DeviceRequests : calls'[x].pc = "idle"
    BY Kinds, NoCallOK
  <2>3. \A x \in DeviceRequests : DeviceReqOK(device_reqs'[x], calls'[x], devices') /\ device_reqs'[x] \in DeviceRequest
    BY <1>1, <2>1, <2>2, DeviceRequestOverOK DEF IInv, DeviceInv, DeviceTypeOK, DeviceReqOK
  <2>4. device_reqs' \in [DeviceRequests -> DeviceRequest]
    BY <2>3 DEF ProcessEnds
  <2> QED
    BY <1>1, <2>3, <2>4 DEF IInv, DeviceInv, DeviceTypeOK
<1> QED
  BY <1>1, <1>2, <1>3, <1>4, <1>5 DEF IInv, Bounds

LEMMA NextKeeps ==
  ASSUME IInv, [Next]_vars
  PROVE  IInv'
<1>1. CASE Work
  <2>1. ASSUME NEW x \in DeviceRequests, DeviceRoute(x) PROVE IInv'
    BY <2>1, DeviceRouteKeeps DEF DeviceRoute
  <2> QED
    BY <1>1, <2>1, WorkerKeeps, OpenerKeeps, HandlerKeeps, LoopClosesKeeps DEF Work
<1>2. CASE Exit
  BY <1>2, ProcessEndsKeeps DEF Exit
<1>3. CASE Killed
  BY <1>3, ProcessEndsKeeps DEF Killed, CallsLost
<1>4. CASE RunForever /\ UNCHANGED <<deviceVars, hubVars>>
  <2>1. UNCHANGED <<zkVars, doorVars, deviceVars, hubVars>>
    BY <1>4 DEF RunForever
  <2>2. UNCHANGED <<calls, unlocks, phase, arrived, starts>>
    BY <2>1 DEF zkVars, hubVars
  <2> QED
    BY <1>4, <2>1, <2>2, RunForeverKeeps, CallsSame, DoorSame, DeviceSame DEF IInv, Bounds
<1>5. CASE ConnectionFails /\ UNCHANGED <<deviceVars, hubVars>>
  <2>1. UNCHANGED <<zkVars, deviceVars, hubVars>>
    BY <1>5 DEF ConnectionFails
  <2>2. UNCHANGED <<calls, unlocks, phase, arrived, starts>>
    BY <2>1 DEF zkVars, hubVars
  <2> QED
    BY <1>5, <2>1, <2>2, ConnectionFailsKeeps, CallsSame, DeviceSame DEF IInv, Bounds
<1>6. ASSUME NEW x \in DeviceRequests, DeviceRequestFails(x), UNCHANGED <<doorVars, app_loop, botVars, hubVars>>
      PROVE  IInv'
  BY <1>6, DeviceRouteKeeps
<1>7. CASE UNCHANGED vars
  <2>1. UNCHANGED <<zkVars, doorVars, app_loop, botVars, deviceVars, hubVars>>
    BY <1>7 DEF vars
  <2>2. UNCHANGED <<calls, unlocks, door_logs, phase, arrived, starts>>
    BY <2>1 DEF zkVars, doorVars, hubVars
  <2> QED
    BY <2>1, <2>2, CallsSame, DoorSame, BotSame, DeviceSame DEF IInv, Bounds
<1> QED
  BY <1>1, <1>2, <1>3, <1>4, <1>5, <1>6, <1>7, StartAppKeeps, RegisterDevicesKeeps, StartManagersKeeps, ShutdownKeeps,
     RequestOpenKeeps, DeliverEventKeeps, RequestDeviceKeeps, ReadLogKeeps DEF Next

-----------------------------------------------------------------------------
(* The ledger of the door *)

(* No row and no answer yet. *)
Silent(r) == answers[r] = None /\ \A row \in door_logs : row.request # r

(* How far an opening, its handler and its call are tells what has been    *)
(* sent, logged and told: a call that may still unlock belongs to an       *)
(* opening that waits for it or was cancelled, and the handler with it.    *)
LedgerOK(r) ==
  LET at == opens[r].pc IN
  /\ calls[r].op = "unlock" => Silent(r) /\ at \in {"unlock", "over"}
  /\ at \in {"unlock", "commit"} => Silent(r)
  /\ at \in {"refresh", "returned", "raised"} => answers[r] = None
  /\ at = "idle" => \A row \in door_logs : row.request # r
  /\ r \in Opens /\ at = "idle" => answers[r] = None
  /\ r \in Deliveries =>
       LET task == tasks[r] IN
       /\ calls[r].op = "unlock" => task.pc \in {"open", "over"}
       /\ at \in {"unlock", "commit", "refresh", "returned", "raised"} => task.pc = "open"
       /\ task.pc # "over" => answers[r] = None
       /\ task.pc \in {"idle", "scheduled", "name"} => at = "idle"
       /\ task.pc = "notify" => task.text \in Texts /\ (task.text = "denied" => at = "idle")

LedgerInv == \A r \in Openers : LedgerOK(r)

LedgerKept == LedgerInv' /\ (Ledger!Next \/ UNCHANGED Ledger!vars)

(* A step that leaves a request and its row alone. *)
LEMMA LedgerSame ==
  ASSUME NEW s \in Openers, LedgerOK(s), calls'[s].op = calls[s].op,
         opens'[s] = opens[s], answers'[s] = answers[s], s \in Deliveries => tasks'[s] = tasks[s],
         \A row \in door_logs' : row.request = s => row \in door_logs
  PROVE  LedgerOK(s)'
  BY DEF LedgerOK, Silent

LEMMA LedgerMoved ==
  ASSUME LedgerInv, NEW r \in Openers, LedgerOK(r)',
         \A s \in Openers \ {r} : /\ calls'[s].op = calls[s].op /\ opens'[s] = opens[s]
                                  /\ answers'[s] = answers[s]
                                  /\ s \in Deliveries => tasks'[s] = tasks[s],
         \A row \in door_logs' : row \in door_logs \/ row.request = r
  PROVE  LedgerInv'
  BY LedgerSame DEF LedgerInv

(* What is not about doors. *)
LEMMA LedgerOutside ==
  ASSUME LedgerInv, \A s \in Openers : calls'[s].op = calls[s].op,
         UNCHANGED <<opens, answers, door_logs, unlocks, tasks>>
  PROVE  LedgerKept
<1>1. LedgerInv'
  BY LedgerSame DEF LedgerInv
<1>2. UNCHANGED Ledger!vars
  BY DEF Ledger!vars
<1> QED
  BY <1>1, <1>2 DEF LedgerKept

(* Handlers and openings end where they are: nothing is told of them.      *)
LEMMA LedgerDropped ==
  ASSUME LedgerInv, UNCHANGED <<answers, door_logs, unlocks>>,
         \A r \in Openers : calls'[r].op \in {calls[r].op, NoCall.op},
         \A r \in Openers : opens'[r] \in {opens[r], Dropped(opens[r], OpeningOver)},
         \A e \in Deliveries : \/ tasks'[e] = tasks[e] /\ opens'[e] = opens[e]
                               \/ tasks'[e].pc = "over" /\ opens'[e] = Dropped(opens[e], OpeningOver)
                               \/ tasks'[e] = tasks[e] /\ tasks[e].pc = "idle"
                                    /\ opens'[e] = Dropped(opens[e], OpeningOver)
  PROVE  LedgerKept
<1>1. OpeningOver.pc = "over" /\ NoCall.op = "info"
  BY DEF OpeningOver, NotOpening, NoCall
<1>2. ASSUME NEW r \in Openers PROVE LedgerOK(r)'
  <2>1. opens'[r].pc = opens[r].pc \/ (opens[r].pc # "idle" /\ opens'[r].pc = "over")
    BY <1>1 DEF Dropped
  <2>2. calls'[r].op = "unlock" => calls[r].op = "unlock"
    BY <1>1
  <2>3. LedgerOK(r)
    BY DEF LedgerInv
  <2>4. CASE r \notin Deliveries
    BY <2>1, <2>2, <2>3, <2>4 DEF LedgerOK, Silent
  <2>5. CASE r \in Deliveries
    <3>1. \/ tasks'[r] = tasks[r] /\ opens'[r].pc = opens[r].pc
          \/ tasks'[r].pc = "over" /\ opens'[r].pc \in {"idle", "over"}
          \/ tasks'[r] = tasks[r] /\ tasks[r].pc = "idle" /\ opens[r].pc = "idle"
      BY <1>1, <2>3, <2>5 DEF Dropped, LedgerOK
    <3> QED
      BY <2>1, <2>2, <2>3, <2>5, <3>1 DEF LedgerOK, Silent
  <2> QED
    BY <2>4, <2>5
<1>3. UNCHANGED Ledger!vars
  BY DEF Ledger!vars
<1> QED
  BY <1>2, <1>3 DEF LedgerInv, LedgerKept

(* A thread sends the command while its request is silent. *)
LEMMA WorkerLedger ==
  ASSUME IInv, LedgerInv, NEW c \in Calls, Worker(c)
  PROVE  LedgerKept
<1>1. CallFrame(c) /\ CallsInv
  BY CallStepKeeps DEF Worker, IInv
<1>2. UNCHANGED <<opens, answers, door_logs, tasks>>
  BY DEF Worker, doorVars, botVars
<1>3. \A s \in Openers : calls'[s].op = calls[s].op
  BY <1>1, Kinds DEF CallFrame
<1>4. CASE UNCHANGED unlocks
  BY <1>2, <1>3, <1>4, LedgerOutside
<1>5. CASE c \in Openers /\ calls[c].op = "unlock" /\ calls[c].pc = "work" /\ unlocks' = [unlocks EXCEPT ![c] = @ + 1]
  <2>1. LedgerInv'
    BY <1>2, <1>3, LedgerSame DEF LedgerInv
  <2>2. unlocks[c] = 0 /\ unlocks \in [Calls -> {0, 1}]
    BY <1>1, <1>5 DEF CallsInv, CallOK
  <2>3. Silent(c)
    BY <1>5 DEF LedgerInv, LedgerOK
  <2> DEFINE sent == [r \in Openers |-> unlocks[r]]
  <2>4. sent[c] = 0 /\ [r \in Openers |-> unlocks'[r]] = [sent EXCEPT ![c] = 1]
    <3>1. unlocks'[c] = 1 /\ \A s \in Openers \ {c} : unlocks'[s] = unlocks[s]
      BY <1>5, <2>2, Kinds
    <3> QED
      BY <1>5, <2>2, <3>1
  <2>5. Ledger!Send(c)
    BY <1>2, <2>3, <2>4 DEF Ledger!Send, Ledger!Unlogged, Silent
  <2> QED
    BY <1>5, <2>1, <2>5 DEF LedgerKept, Ledger!Next
<1>6. CASE c \notin Openers /\ \A s \in Openers : unlocks'[s] = unlocks[s]
  <2>1. LedgerInv'
    BY <1>2, <1>3, LedgerSame DEF LedgerInv
  <2>2. [r \in Openers |-> unlocks'[r]] = [r \in Openers |-> unlocks[r]]
    BY <1>6
  <2> QED
    BY <1>2, <2>1, <2>2 DEF LedgerKept, Ledger!vars
<1>7. c \notin Openers => \A s \in Openers : unlocks'[s] = unlocks[s]
  BY <1>1, Kinds DEF CallFrame
<1>8. \/ UNCHANGED unlocks
      \/ calls[c].op = "unlock" /\ calls[c].pc = "work" /\ unlocks' = [unlocks EXCEPT ![c] = @ + 1]
  BY DEF Worker, CallStep, Connect, Disable, Operate, Enable
<1> QED
  BY <1>4, <1>5, <1>6, <1>7, <1>8

LEMMA OpenerLedger ==
  ASSUME IInv, LedgerInv, NEW r \in Openers, Opener(r)
  PROVE  LedgerKept
<1>0. /\ opens[r] \in Opening /\ opens \in [Openers -> Opening] /\ answers[r] \in Texts \cup {None}
      /\ answers \in [Openers -> Texts \cup {None}] /\ calls \in [Calls -> Call] /\ r \in Calls
      /\ unlocks \in [Calls -> {0, 1}] /\ OpeningOK(r, opens[r], calls[r], unlocks[r], door_logs)
  BY Kinds DEF IInv, DoorInv, DoorTypeOK, CallsInv
<1>1. UNCHANGED tasks /\ LedgerOK(r)
  BY DEF Opener, botVars, LedgerInv
<1>2. ASSUME NEW q, PutOpen(r, q) PROVE opens'[r] = q /\ \A s \in Openers \ {r} : opens'[s] = opens[s]
  BY <1>0, <1>2 DEF PutOpen
<1>3. CASE UnlockReturned(r)
  <2>1. /\ opens[r].pc = "unlock" /\ UNCHANGED <<unlocks, answers, door_logs>>
        /\ calls' = [calls EXCEPT ![r] = NoCall] /\ NoCall.op = "info"
    BY <1>3 DEF UnlockReturned, PutCall, NoCall
  <2>2. PICK q : PutOpen(r, q) /\ q.pc \in {"commit", "raised"}
    <3>1. calls[r].raised \in Exceptions \cup {None}
      BY <1>0 DEF Call
    <3>2. \/ PutOpen(r, [opens[r] EXCEPT !.pc = "commit", !.result = "success"])
          \/ PutOpen(r, [opens[r] EXCEPT !.pc = "commit"])
          \/ PutOpen(r, Raised(opens[r], calls[r].raised))
      BY <1>3, Zenon DEF UnlockReturned
    <3>3. /\ [opens[r] EXCEPT !.pc = "commit", !.result = "success"].pc = "commit"
          /\ [opens[r] EXCEPT !.pc = "commit"].pc = "commit"
          /\ Raised(opens[r], calls[r].raised).pc = "raised"
      BY <1>0 DEF Opening, Raised
    <3> QED
      BY <3>2, <3>3
  <2>3. LedgerOK(r)'
    BY <1>0, <1>1, <1>2, <2>1, <2>2 DEF LedgerOK, Silent
  <2>4. \A s \in Openers \ {r} : calls'[s].op = calls[s].op
    BY <1>0, <2>1, Kinds
  <2>5. LedgerInv'
    BY <1>1, <1>2, <2>1, <2>2, <2>3, <2>4, LedgerMoved
  <2> QED
    BY <2>1, <2>5 DEF LedgerKept, Ledger!vars
<1>4. ASSUME NEW q, PutOpen(r, q), UNCHANGED <<calls, unlocks>>, LedgerOK(r)',
             \A s \in Openers \ {r} : answers'[s] = answers[s],
             \A row \in door_logs' : row \in door_logs \/ row.request = r
      PROVE  LedgerInv'
  BY <1>1, <1>2, <1>4, LedgerMoved
<1>5. CASE CommitLog(r)
  <2>1. /\ opens[r].pc = "commit" /\ UNCHANGED <<calls, unlocks, answers>> /\ Silent(r)
    BY <1>1, <1>5 DEF CommitLog, zkVars, LedgerOK
  <2>2. PICK q : PutOpen(r, q) /\ q.pc \in {"refresh", "raised"}
    <3>1. /\ [opens[r] EXCEPT !.pc = "refresh"].pc = "refresh"
          /\ Raised(opens[r], "Exception").pc = "raised"
      BY <1>0 DEF Opening, Raised
    <3> QED
      BY <1>5, <3>1 DEF CommitLog
  <2> DEFINE row == [request |-> r, result |-> opens[r].result]
  <2>3. door_logs' = door_logs \/ door_logs' = door_logs \cup {row}
    BY <1>5 DEF CommitLog, LogRow
  <2>4. LedgerOK(r)'
    BY <1>1, <1>2, <2>1, <2>2 DEF LedgerOK, Silent
  <2>5. LedgerInv'
    BY <1>4, <2>1, <2>2, <2>3, <2>4
  <2>6. CASE door_logs' = door_logs
    BY <2>1, <2>5, <2>6 DEF LedgerKept, Ledger!vars
  <2>7. CASE door_logs' = door_logs \cup {row}
    <3>1. opens[r].result \in {"failed", "success"} /\ (opens[r].result = "success" => unlocks[r] = 1)
      BY <1>0, <2>1 DEF Opening, OpeningOK
    <3>2. Ledger!Log(r, opens[r].result)
      BY <2>1, <2>7, <3>1 DEF Ledger!Log, Ledger!Unlogged, Silent
    <3> QED
      BY <2>5, <3>1, <3>2 DEF LedgerKept, Ledger!Next, Ledger!Results
  <2> QED
    BY <2>3, <2>6, <2>7
<1>6. CASE RefreshLog(r)
  <2>1. opens[r].pc = "refresh" /\ UNCHANGED <<calls, unlocks, answers, door_logs>>
    BY <1>6 DEF RefreshLog, zkVars
  <2>2. PICK q : PutOpen(r, q) /\ q.pc \in {"returned", "raised"}
    <3>1. /\ [opens[r] EXCEPT !.pc = "returned"].pc = "returned"
          /\ Raised(opens[r], "Exception").pc = "raised" /\ Raised(opens[r], "RuntimeError").pc = "raised"
      BY <1>0 DEF Opening, Raised
    <3>2. \/ PutOpen(r, [opens[r] EXCEPT !.pc = "returned"])
          \/ PutOpen(r, Raised(opens[r], "Exception"))
          \/ PutOpen(r, Raised(opens[r], "RuntimeError"))
      BY <1>6, Zenon DEF RefreshLog
    <3> QED
      BY <3>1, <3>2
  <2>3. LedgerOK(r)'
    BY <1>1, <1>2, <2>1, <2>2 DEF LedgerOK, Silent
  <2>4. LedgerInv'
    BY <1>4, <2>1, <2>2, <2>3
  <2> QED
    BY <2>1, <2>4 DEF LedgerKept, Ledger!vars
<1>7. CASE r \in Opens /\ AnswerOpen(r)
  <2> DEFINE text == IF opens[r].pc = "returned" THEN "opened" ELSE "not opened"
  <2>1. /\ opens[r].pc \in {"returned", "raised"} /\ UNCHANGED <<calls, unlocks, door_logs>>
        /\ answers' = [answers EXCEPT ![r] = text] /\ PutOpen(r, OpeningOver)
    BY <1>7 DEF AnswerOpen, zkVars
  <2>2. OpeningOver.pc = "over" /\ r \notin Deliveries
    BY <1>7, FeishuBotAssumption DEF OpeningOver, NotOpening
  <2>3. answers[r] = None /\ calls[r].op # "unlock"
    BY <1>1, <2>1 DEF LedgerOK
  <2>4. /\ text \in {"opened", "not opened"}
        /\ text = "opened" => [request |-> r, result |-> "success"] \in door_logs
    BY <1>0, <2>1 DEF OpeningOK
  <2> HIDE DEF text
  <2>5. LedgerOK(r)'
    BY <1>2, <2>1, <2>2, <2>3 DEF LedgerOK
  <2>6. LedgerInv'
    BY <1>0, <1>4, <2>1, <2>5
  <2>7. Ledger!Tell(r, text)
    BY <2>1, <2>3, <2>4 DEF Ledger!Tell
  <2> QED
    BY <2>4, <2>6, <2>7 DEF LedgerKept, Ledger!Next
<1> QED
  BY <1>3, <1>5, <1>6, <1>7 DEF Opener, OpenStep

LEMMA HandlerLedger ==
  ASSUME IInv, LedgerInv, NEW e \in Deliveries, Handler(e)
  PROVE  LedgerKept
<1>0. /\ e \in Openers /\ e \in Calls /\ e \notin Opens
      /\ opens \in [Openers -> Opening] /\ answers \in [Openers -> Texts \cup {None}]
      /\ calls \in [Calls -> Call] /\ tasks \in [Deliveries -> Task] /\ tasks[e] \in Task
      /\ OpeningOK(e, opens[e], calls[e], unlocks[e], door_logs) /\ TaskOK(e, tasks[e], door_logs)
      /\ LedgerOK(e)
  BY Kinds, FeishuBotAssumption DEF IInv, DoorInv, DoorTypeOK, CallsInv, BotInv, BotTypeOK, Task, LedgerInv
<1>1. ASSUME NEW q, PutTask(e, q)
      PROVE  tasks'[e] = q /\ \A s \in Deliveries \ {e} : tasks'[s] = tasks[s]
  BY <1>0, <1>1 DEF PutTask
<1>2. ASSUME NEW q, PutOpen(e, q) PROVE opens'[e] = q /\ \A s \in Openers \ {e} : opens'[s] = opens[s]
  BY <1>0, <1>2 DEF PutOpen
<1>3. ASSUME NEW q, PutTask(e, q), LedgerOK(e)', UNCHANGED door_logs,
             \A s \in Openers \ {e} : /\ calls'[s].op = calls[s].op /\ opens'[s] = opens[s]
                                      /\ answers'[s] = answers[s]
      PROVE  LedgerInv'
  BY <1>0, <1>1, <1>3, LedgerMoved
<1>4. CASE ExtractOperatorIdentity(e)
  <2> DEFINE q == [tasks[e] EXCEPT !.pc = "name"]
  <2>1. /\ tasks[e].pc = "scheduled" /\ PutTask(e, q)
        /\ UNCHANGED <<calls, unlocks, opens, answers, door_logs>>
    BY <1>4 DEF ExtractOperatorIdentity, zkVars, doorVars
  <2>2. q.pc = "name"
    BY <1>0 DEF Task
  <2> HIDE DEF q
  <2>3. LedgerOK(e)'
    BY <1>0, <1>1, <2>1, <2>2 DEF LedgerOK, Silent
  <2>4. LedgerInv'
    BY <1>3, <2>1, <2>3
  <2> QED
    BY <2>1, <2>4 DEF LedgerKept, Ledger!vars
<1>5. CASE HandleMenu(e)
  <2> DEFINE ip == ResolveDoorOpenDeviceIp(Menu[e].event_key)
  <2>1. /\ tasks[e].pc = "name" /\ UNCHANGED <<unlocks, answers, door_logs>>
        /\ opens[e].pc = "idle" /\ Silent(e) /\ calls[e].op # "unlock"
    BY <1>0, <1>5 DEF HandleMenu, LedgerOK, Silent
  <2>2. \/ PutTask(e, [tasks[e] EXCEPT !.pc = "open"]) /\ BeginOpen(e, ip)
        \/ PutTask(e, [tasks[e] EXCEPT !.pc = "notify", !.text = "denied"]) /\ UNCHANGED <<opens, calls>>
        \/ PutTask(e, TaskOver) /\ UNCHANGED <<opens, calls>>
    BY <1>5, Zenon DEF HandleMenu
  <2> HIDE DEF ip
  <2>3. CASE PutTask(e, [tasks[e] EXCEPT !.pc = "open"]) /\ BeginOpen(e, ip)
    <3> DEFINE q == [tasks[e] EXCEPT !.pc = "open"]
               p == [NotOpening EXCEPT !.pc = "unlock"]
    <3>1. q.pc = "open" /\ p.pc = "unlock" /\ PutTask(e, q) /\ PutOpen(e, p)
      BY <1>0, <2>3 DEF Task, NotOpening, BeginOpen
    <3>2. \A s \in Openers \ {e} : calls'[s] = calls[s]
      BY <1>0, <2>3, Kinds DEF BeginOpen, PutCall
    <3> HIDE DEF q, p
    <3>3. LedgerOK(e)'
      BY <1>0, <1>1, <1>2, <2>1, <3>1 DEF LedgerOK, Silent
    <3>4. LedgerInv'
      BY <1>2, <1>3, <2>1, <3>1, <3>2, <3>3
    <3> QED
      BY <2>1, <3>4 DEF LedgerKept, Ledger!vars
  <2>4. CASE /\ PutTask(e, [tasks[e] EXCEPT !.pc = "notify", !.text = "denied"])
             /\ UNCHANGED <<opens, calls>>
    <3> DEFINE q == [tasks[e] EXCEPT !.pc = "notify", !.text = "denied"]
    <3>1. q.pc = "notify" /\ q.text = "denied" /\ PutTask(e, q)
      BY <1>0, <2>4 DEF Task
    <3> HIDE DEF q
    <3>2. LedgerOK(e)'
      BY <1>0, <1>1, <2>1, <2>4, <3>1 DEF LedgerOK, Silent, Texts
    <3>3. LedgerInv'
      BY <1>3, <2>1, <2>4, <3>1, <3>2
    <3> QED
      BY <2>1, <3>3 DEF LedgerKept, Ledger!vars
  <2>5. CASE PutTask(e, TaskOver) /\ UNCHANGED <<opens, calls>>
    <3>1. TaskOver.pc = "over"
      BY DEF TaskOver, NoTask
    <3>2. LedgerOK(e)'
      BY <1>0, <1>1, <2>1, <2>5, <3>1 DEF LedgerOK, Silent
    <3>3. LedgerInv'
      BY <1>3, <2>1, <2>5, <3>2
    <3> QED
      BY <2>1, <3>3 DEF LedgerKept, Ledger!vars
  <2> QED
    BY <2>2, <2>3, <2>4, <2>5
<1>6. CASE DoorOpened(e)
  <2> DEFINE text == IF opens[e].pc = "returned" THEN "opened" ELSE "not opened"
             q == [tasks[e] EXCEPT !.pc = "notify", !.text = text]
  <2>1. /\ tasks[e].pc = "open" /\ opens[e].pc \in {"returned", "raised"}
        /\ UNCHANGED <<calls, unlocks, answers, door_logs>>
        /\ PutOpen(e, OpeningOver) /\ PutTask(e, q)
    BY <1>6 DEF DoorOpened, zkVars
  <2>2. OpeningOver.pc = "over" /\ q.pc = "notify" /\ q.text = text
    BY <1>0 DEF OpeningOver, NotOpening, Task
  <2>3. text \in Texts /\ text # "denied"
    BY DEF Texts
  <2>4. answers[e] = None /\ calls[e].op # "unlock"
    BY <1>0, <2>1 DEF LedgerOK
  <2> HIDE DEF q, text
  <2>5. LedgerOK(e)'
    BY <1>0, <1>1, <1>2, <2>1, <2>2, <2>3, <2>4 DEF LedgerOK
  <2>6. LedgerInv'
    BY <1>2, <1>3, <2>1, <2>5
  <2> QED
    BY <2>1, <2>6 DEF LedgerKept, Ledger!vars
<1>7. CASE NotifyOperator(e)
  <2> DEFINE text == tasks[e].text
  <2>1. /\ tasks[e].pc = "notify" /\ UNCHANGED <<calls, unlocks, opens, door_logs>>
        /\ PutTask(e, TaskOver)
        /\ answers' \in {answers, [answers EXCEPT ![e] = text]}
    BY <1>7 DEF NotifyOperator, zkVars
  <2>2. TaskOver.pc = "over"
    BY DEF TaskOver, NoTask
  <2>3. answers[e] = None /\ calls[e].op # "unlock" /\ opens[e].pc \in {"idle", "over"}
    BY <1>0, <2>1 DEF LedgerOK, IInv, DoorInv, DoorTypeOK, Opening
  <2>4. LedgerOK(e)'
    BY <1>0, <1>1, <2>1, <2>2, <2>3 DEF LedgerOK
  <2>5. LedgerInv'
    BY <1>0, <1>3, <2>1, <2>4
  <2>6. CASE answers' = answers
    BY <2>1, <2>5, <2>6 DEF LedgerKept, Ledger!vars
  <2>7. CASE answers' = [answers EXCEPT ![e] = text]
    <3>1. /\ text \in Texts
          /\ text = "opened" => [request |-> e, result |-> "success"] \in door_logs
          /\ text = "denied" => unlocks[e] = 0 /\ \A row \in door_logs : row.request # e
      BY <1>0, <2>1 DEF LedgerOK, TaskOK, OpeningOK
    <3> HIDE DEF text
    <3>2. Ledger!Tell(e, text)
      BY <1>0, <2>1, <2>3, <2>7, <3>1 DEF Ledger!Tell, Ledger!Unlogged
    <3> QED
      BY <1>0, <2>5, <3>1, <3>2 DEF LedgerKept, Ledger!Next, Texts
  <2> QED
    BY <2>1, <2>6, <2>7
<1> QED
  BY <1>4, <1>5, <1>6, <1>7 DEF Handler, TaskStep

LEMMA ArrivalLedger ==
  ASSUME IInv, LedgerInv,
         \/ \E r \in Opens, ip \in Devices : RequestOpen(r, ip)
         \/ \E e \in Deliveries : DeliverEvent(e)
  PROVE  LedgerKept
<1>1. ASSUME NEW r \in Opens, NEW ip \in Devices, RequestOpen(r, ip) PROVE LedgerKept
  <2> DEFINE p == [NotOpening EXCEPT !.pc = "unlock"]
  <2>0. /\ r \in Openers /\ r \in Calls /\ r \notin Deliveries /\ calls \in [Calls -> Call]
        /\ opens \in [Openers -> Opening] /\ LedgerOK(r)
    BY Kinds, FeishuBotAssumption DEF IInv, DoorInv, DoorTypeOK, CallsInv, LedgerInv
  <2>1. /\ opens[r].pc = "idle" /\ PutOpen(r, p) /\ p.pc = "unlock"
        /\ UNCHANGED <<unlocks, answers, door_logs, tasks>>
    BY <1>1 DEF RequestOpen, BeginOpen, NotOpening, botVars
  <2>2. \A s \in Openers \ {r} : calls'[s] = calls[s]
    BY <1>1, <2>0, Kinds DEF RequestOpen, BeginOpen, PutCall
  <2> HIDE DEF p
  <2>3. opens'[r] = p /\ \A s \in Openers \ {r} : opens'[s] = opens[s]
    BY <2>0, <2>1 DEF PutOpen
  <2>4. LedgerOK(r)'
    BY <1>1, <2>0, <2>1, <2>3 DEF LedgerOK, Silent
  <2>5. LedgerInv'
    BY <2>0, <2>1, <2>2, <2>3, <2>4, LedgerMoved
  <2> QED
    BY <2>1, <2>5 DEF LedgerKept, Ledger!vars
<1>2. ASSUME NEW e \in Deliveries, DeliverEvent(e) PROVE LedgerKept
  <2> DEFINE q == [NoTask EXCEPT !.pc = "scheduled", !.on = IF app_loop = None THEN "bot" ELSE "app"]
  <2>0. e \in Openers /\ e \notin Opens /\ LedgerOK(e) /\ tasks \in [Deliveries -> Task]
    BY Kinds, FeishuBotAssumption DEF LedgerInv, IInv, BotInv, BotTypeOK, Task
  <2>1. /\ tasks[e].pc = "idle" /\ PutTask(e, q) /\ q.pc = "scheduled"
        /\ UNCHANGED <<calls, unlocks, opens, answers, door_logs>>
    BY <1>2 DEF DeliverEvent, Dispatch, NoTask, zkVars, doorVars
  <2> HIDE DEF q
  <2>2. tasks'[e] = q /\ \A s \in Deliveries \ {e} : tasks'[s] = tasks[s]
    BY <2>0, <2>1 DEF PutTask
  <2>3. LedgerOK(e)'
    BY <2>0, <2>1, <2>2 DEF LedgerOK, Silent
  <2>4. LedgerInv'
    BY <2>0, <2>1, <2>2, <2>3, LedgerMoved
  <2> QED
    BY <2>1, <2>4 DEF LedgerKept, Ledger!vars
<1> QED
  BY <1>1, <1>2

(* Devices and logs are read beside the door. *)
LEMMA BesideLedger ==
  ASSUME IInv, LedgerInv,
         \/ \E x \in DeviceRequests : \/ DeviceRoute(x) \/ RequestDevice(x)
                                      \/ DeviceRequestFails(x) /\ UNCHANGED <<doorVars, app_loop, botVars, hubVars>>
         \/ \E c \in LogReads, ip \in Devices : ReadLog(c, ip)
         \/ StartApp \/ RegisterDevices \/ StartManagers
         \/ RunForever /\ UNCHANGED <<deviceVars, hubVars>>
         \/ UNCHANGED vars
  PROVE  LedgerKept
<1>1. UNCHANGED <<opens, answers, door_logs, unlocks, tasks>>
  BY DEF DeviceRoute, DeviceStep, StatusKnown, FindDevice, CheckIp, CommitDevice, RequestDevice, AskStatus,
         AskDevice, DeviceRequestFails, ReadLog, StartApp, RegisterDevices, StartManagers, StartBot,
         RunForever, vars, zkVars, doorVars, botVars
<1>2. \/ calls' = calls
      \/ \E x \in Calls \ Openers : \E q : PutCall(x, q)
  BY Kinds DEF DeviceRoute, DeviceStep, StatusKnown, FindDevice, CheckIp, CommitDevice, RequestDevice, AskStatus,
         AskDevice, DeviceRequestFails, ReadLog, StartApp, RegisterDevices, StartManagers, StartBot,
         RunForever, vars, zkVars
<1>3. \A s \in Openers : calls'[s].op = calls[s].op
  BY <1>2, Kinds DEF PutCall, IInv, CallsInv
<1> QED
  BY <1>1, <1>3, LedgerOutside

(* Loops end, and the process. *)
LEMMA EndsLedger ==
  ASSUME IInv, LedgerInv,
         \/ Shutdown \/ LoopCloses \/ Exit \/ Killed
         \/ ConnectionFails /\ UNCHANGED <<deviceVars, hubVars>>
  PROVE  LedgerKept
<1>0. TaskOver.pc = "over" /\ \A e \in Deliveries : e \in Openers
  BY Kinds DEF TaskOver, NoTask
<1>1. ASSUME NEW on, Cancelled(on), UNCHANGED <<calls, unlocks, answers, door_logs>>
      PROVE  LedgerKept
  <2>1. \A r \in Openers : opens'[r] \in {opens[r], Dropped(opens[r], OpeningOver)}
    BY <1>1 DEF Cancelled
  <2>2. \A e \in Deliveries : \/ tasks'[e] = tasks[e] /\ opens'[e] = opens[e]
                              \/ tasks'[e].pc = "over" /\ opens'[e] = Dropped(opens[e], OpeningOver)
    BY <1>0, <1>1 DEF Cancelled
  <2> QED
    BY <1>1, <2>1, <2>2, LedgerDropped
<1>2. CASE UNCHANGED <<calls, unlocks, answers, door_logs, opens, tasks>>
  BY <1>2, LedgerOutside
<1>3. CASE Shutdown
  <2>1. StopBot /\ UNCHANGED <<calls, unlocks, answers, door_logs>>
    BY <1>3 DEF Shutdown, zkVars
  <2>2. UNCHANGED <<opens, tasks>> \/ Cancelled("bot")
    BY <2>1 DEF StopBot, LoopEnds
  <2> QED
    BY <1>1, <1>2, <2>1, <2>2
<1>4. CASE LoopCloses \/ ConnectionFails
  BY <1>1, <1>4 DEF LoopCloses, ConnectionFails, LoopEnds, zkVars
<1>5. CASE Exit \/ Killed
  <2>1. /\ calls' = [c \in Calls |-> NoCall] /\ UNCHANGED <<unlocks, answers, door_logs>>
        /\ tasks' = [e \in Deliveries |-> Dropped(tasks[e], TaskOver)]
        /\ opens' = [r \in Openers |-> Dropped(opens[r], OpeningOver)]
    BY <1>5 DEF Exit, Killed, CallsLost, ProcessEnds
  <2>2. \A r \in Openers : calls'[r].op = NoCall.op
    BY <2>1, Kinds
  <2>3. \A e \in Deliveries : \/ tasks'[e].pc = "over" /\ opens'[e] = Dropped(opens[e], OpeningOver)
                              \/ /\ tasks'[e] = tasks[e] /\ tasks[e].pc = "idle"
                                 /\ opens'[e] = Dropped(opens[e], OpeningOver)
    BY <1>0, <2>1 DEF Dropped
  <2>4. \A r \in Openers : opens'[r] = Dropped(opens[r], OpeningOver)
    BY <2>1
  <2> HIDE DEF Dropped
  <2> QED
    BY <2>1, <2>2, <2>3, <2>4, LedgerDropped
<1> QED
  BY <1>3, <1>4, <1>5

LEMMA InitLedger ==
  ASSUME Init
  PROVE  LedgerInv /\ Ledger!Init
<1>1. /\ \A r \in Openers : /\ calls[r].op = "info" /\ answers[r] = None
                            /\ opens[r].pc = "idle" /\ unlocks[r] = 0
      /\ \A e \in Deliveries : tasks[e].pc = "idle"
      /\ door_logs = {} /\ answers = [r \in Openers |-> None]
  BY Kinds DEF Init, ZkInit, DoorInit, BotInit, NoCall, NotOpening, NoTask
<1> QED
  BY <1>1 DEF LedgerInv, LedgerOK, Ledger!Init

LEMMA NextLedger ==
  ASSUME IInv, LedgerInv, [Next]_vars
  PROVE  LedgerKept
<1>1. CASE Work
  BY <1>1, WorkerLedger, OpenerLedger, HandlerLedger, BesideLedger, EndsLedger DEF Work
<1> QED
  BY <1>1, ArrivalLedger, BesideLedger, EndsLedger DEF Next

-----------------------------------------------------------------------------
(* Nothing of the hub waits in vain or starts over.  That each request     *)
(* ends is a matter of fairness; that each of its steps brings it nearer   *)
(* to its end, and that what it awaits is underway, is not.                *)

OpenPlace == [idle |-> 0, unlock |-> 1, commit |-> 2, refresh |-> 3, returned |-> 4, raised |-> 4, over |-> 5]
TaskPlace == [idle |-> 0, scheduled |-> 1, name |-> 2, open |-> 3, notify |-> 4, over |-> 5]
DevicePlace == [idle |-> 0, info |-> 1, find |-> 2, check |-> 3, commit |-> 4, over |-> 5]

Forward(place, q, r) == r = q \/ place[r.pc] > place[q.pc]

CallGoes(c) ==
  \/ Forward(CallPlace, calls[c], calls'[c])
  \/ calls'[c] = NoCall /\ (calls[c].pc = "done" \/ phase' = "off")
OpenGoes(r) == Forward(OpenPlace, opens[r], opens'[r])
TaskGoes(e) == Forward(TaskPlace, tasks[e], tasks'[e])
DeviceGoes(x) == Forward(DevicePlace, device_reqs[x], device_reqs'[x])

(* A step takes every request, event and call it touches towards its end,  *)
(* and forgets a call only when it is done or the process is gone.         *)
HubGoesForward ==
  [][/\ \A c \in Calls : CallGoes(c)
     /\ \A r \in Openers : OpenGoes(r)
     /\ \A e \in Deliveries : TaskGoes(e)
     /\ \A x \in DeviceRequests : DeviceGoes(x)]_vars

(* Whoever awaits a worker thread has a call of its kind there, and of an  *)
(* event's handler and the opening it awaits both are there or neither.    *)
AwaitedIsUnderway ==
  /\ \A r \in Openers : opens[r].pc = "unlock" => calls[r].pc # "idle" /\ calls[r].op = "unlock"
  /\ \A e \in Deliveries : tasks[e].pc = "open" <=> Underway(e)
  /\ \A x \in DeviceRequests : device_reqs[x].pc = "info" => calls[x].pc # "idle" /\ calls[x].op = "info"

(* ... and what is over stays what it is. *)
HandlerOK(e) ==
  /\ tasks[e].pc = "over" => tasks[e] = TaskOver
  /\ tasks[e].pc = "open" <=> Underway(e)
RequestOK(x) ==
  /\ device_reqs[x].pc = "over" => device_reqs[x] = DeviceRequestOver
  /\ device_reqs[x].pc = "info" => calls[x].pc # "idle" /\ calls[x].op = "info"
OverOK(r) == opens[r].pc = "over" => opens[r] = OpeningOver

OpensInv == \A r \in Openers : OverOK(r)
HandlersInv == \A e \in Deliveries : HandlerOK(e)
RequestsInv == \A x \in DeviceRequests : RequestOK(x)
ForwardInv == OpensInv /\ HandlersInv /\ RequestsInv

OpensOn == OpensInv' /\ \A r \in Openers : OpenGoes(r)
HandlersOn == HandlersInv' /\ \A e \in Deliveries : TaskGoes(e)
RequestsOn == RequestsInv' /\ \A x \in DeviceRequests : DeviceGoes(x)
CallsOn == \A c \in Calls : CallGoes(c)
GoesOn == CallsOn /\ OpensOn /\ HandlersOn /\ RequestsOn

LEMMA CallsStay ==
  ASSUME UNCHANGED calls
  PROVE  CallsOn
  BY DEF CallsOn, CallGoes, Forward

LEMMA OpensStay ==
  ASSUME ForwardInv, UNCHANGED opens
  PROVE  OpensOn
  BY DEF ForwardInv, OpensInv, OpensOn, OverOK, OpenGoes, Forward

LEMMA HandlersStay ==
  ASSUME ForwardInv, UNCHANGED tasks, \A e \in Deliveries : Underway(e)' <=> Underway(e)
  PROVE  HandlersOn
  BY DEF ForwardInv, HandlersInv, HandlersOn, HandlerOK, TaskGoes, Forward

LEMMA RequestsStay ==
  ASSUME ForwardInv, UNCHANGED device_reqs,
         \A x \in DeviceRequests : calls'[x] = calls[x] \/ (calls'[x].pc # "idle" /\ calls'[x].op = calls[x].op)
  PROVE  RequestsOn
  BY DEF ForwardInv, RequestsInv, RequestsOn, RequestOK, DeviceGoes, Forward

LEMMA OpenMoves ==
  ASSUME ForwardInv, DoorInv, NEW r \in Openers, NEW q, PutOpen(r, q),
         Forward(OpenPlace, opens[r], q), q.pc = "over" => q = OpeningOver
  PROVE  OpensOn /\ opens'[r] = q /\ \A s \in Openers \ {r} : opens'[s] = opens[s]
<1>1. opens'[r] = q /\ \A s \in Openers \ {r} : opens'[s] = opens[s]
  BY DEF PutOpen, DoorInv, DoorTypeOK
<1> QED
  BY <1>1 DEF ForwardInv, OpensInv, OpensOn, OverOK, OpenGoes, Forward

LEMMA TaskMoves ==
  ASSUME ForwardInv, BotInv, NEW e \in Deliveries, NEW q, PutTask(e, q),
         Forward(TaskPlace, tasks[e], q), q.pc = "over" => q = TaskOver,
         q.pc = "open" <=> Underway(e)',
         \A f \in Deliveries \ {e} : opens'[f] = opens[f]
  PROVE  HandlersOn
<1>1. tasks'[e] = q /\ \A f \in Deliveries \ {e} : tasks'[f] = tasks[f]
  BY DEF PutTask, BotInv, BotTypeOK
<1> QED
  BY <1>1 DEF ForwardInv, HandlersInv, HandlersOn, HandlerOK, TaskGoes, Forward, Underway

LEMMA RequestMoves ==
  ASSUME ForwardInv, DeviceInv, NEW x \in DeviceRequests, NEW q, PutDeviceRequest(x, q),
         Forward(DevicePlace, device_reqs[x], q), q.pc = "over" => q = DeviceRequestOver,
         q.pc = "info" => calls'[x].pc # "idle" /\ calls'[x].op = "info",
         \A y \in DeviceRequests \ {x} : calls'[y] = calls[y]
  PROVE  RequestsOn
<1>1. device_reqs'[x] = q /\ \A y \in DeviceRequests \ {x} : device_reqs'[y] = device_reqs[y]
  BY DEF PutDeviceRequest, DeviceInv, DeviceTypeOK
<1> QED
  BY <1>1 DEF ForwardInv, RequestsInv, RequestsOn, RequestOK, DeviceGoes, Forward

(* A new call begins, or one that is done is forgotten. *)
LEMMA CallMoves ==
  ASSUME CallsInv, NEW c \in Calls, NEW q, PutCall(c, q),
         \/ CallPlace[q.pc] > CallPlace[calls[c].pc]
         \/ q = NoCall /\ calls[c].pc = "done"
  PROVE  CallsOn /\ calls'[c] = q /\ \A d \in Calls \ {c} : calls'[d] = calls[d]
<1>1. calls'[c] = q /\ \A d \in Calls \ {c} : calls'[d] = calls[d]
  BY DEF PutCall, CallsInv
<1> QED
  BY <1>1 DEF CallsOn, CallGoes, Forward

LEMMA NewCallMoves ==
  ASSUME CallsInv, NEW c \in Calls, NEW op, NEW ip, calls[c].pc = "idle", PutCall(c, NewCall(op, ip))
  PROVE  /\ CallsOn /\ calls'[c] = NewCall(op, ip) /\ \A d \in Calls \ {c} : calls'[d] = calls[d]
         /\ calls'[c].pc # "idle" /\ calls'[c].op = op
<1>1. NewCall(op, ip).pc = "connect" /\ NewCall(op, ip).op = op
  BY DEF NewCall, NoCall
<1>2. CallPlace["connect"] > CallPlace["idle"]
  BY DEF CallPlace
<1> QED
  BY <1>1, <1>2, CallMoves

LEMMA WorkerForward ==
  ASSUME IInv, ForwardInv, NEW c \in Calls, Worker(c)
  PROVE  GoesOn
<1>1. CallFrame(c)
  BY CallStepKeeps DEF Worker, IInv
<1>2. CallsOn
  BY <1>1 DEF CallFrame, CallsOn, CallGoes, Forward
<1>3. UNCHANGED <<opens, tasks, device_reqs>>
  BY DEF Worker, doorVars, botVars, deviceVars
<1>4. \A x \in DeviceRequests : calls'[x] = calls[x] \/ (calls'[x].pc # "idle" /\ calls'[x].op = calls[x].op)
  BY <1>1, Kinds DEF CallFrame
<1> QED
  BY <1>2, <1>3, <1>4, OpensStay, HandlersStay, RequestsStay DEF GoesOn, Underway

LEMMA Places ==
  /\ OpenPlace["idle"] = 0 /\ OpenPlace["unlock"] = 1 /\ OpenPlace["commit"] = 2 /\ OpenPlace["refresh"] = 3
  /\ OpenPlace["returned"] = 4 /\ OpenPlace["raised"] = 4 /\ OpenPlace["over"] = 5
  /\ TaskPlace["idle"] = 0 /\ TaskPlace["scheduled"] = 1 /\ TaskPlace["name"] = 2 /\ TaskPlace["open"] = 3
  /\ TaskPlace["notify"] = 4 /\ TaskPlace["over"] = 5
  /\ DevicePlace["idle"] = 0 /\ DevicePlace["info"] = 1 /\ DevicePlace["find"] = 2 /\ DevicePlace["check"] = 3
  /\ DevicePlace["commit"] = 4 /\ DevicePlace["over"] = 5
  BY DEF OpenPlace, TaskPlace, DevicePlace

LEMMA OpenerForward ==
  ASSUME IInv, ForwardInv, NEW r \in Openers, Opener(r)
  PROVE  GoesOn
<1>0. opens[r] \in Opening /\ calls \in [Calls -> Call] /\ r \in Calls /\ DoorInv /\ CallsInv
  BY Kinds DEF IInv, DoorInv, DoorTypeOK, CallsInv
<1>1. UNCHANGED <<tasks, device_reqs>> /\ OpenStep(r)
  BY DEF Opener, botVars, deviceVars
<1>2. /\ CallsOn /\ \A d \in Calls \ {r} : calls'[d] = calls[d]
  <2>1. CASE UnlockReturned(r)
    <3>1. PutCall(r, NoCall) /\ calls[r].pc = "done"
      BY <2>1 DEF UnlockReturned
    <3> QED
      BY <1>0, <3>1, CallMoves
  <2>2. CASE UNCHANGED calls
    BY <2>2, CallsStay
  <2> QED
    BY <1>1, <2>1, <2>2 DEF OpenStep, CommitLog, RefreshLog, AnswerOpen, zkVars
<1>3. PICK q : /\ PutOpen(r, q) /\ OpenPlace[q.pc] > OpenPlace[opens[r].pc]
               /\ \/ Underway(r) /\ q.pc \in {"commit", "refresh", "returned", "raised"}
                  \/ r \in Opens /\ q = OpeningOver
  <2>1. CASE UnlockReturned(r)
    <3>1. opens[r].pc = "unlock" /\ calls[r].raised \in Exceptions \cup {None}
      BY <1>0, <2>1 DEF UnlockReturned, Call
    <3>2. \/ PutOpen(r, [opens[r] EXCEPT !.pc = "commit", !.result = "success"])
          \/ PutOpen(r, [opens[r] EXCEPT !.pc = "commit"])
          \/ PutOpen(r, Raised(opens[r], calls[r].raised))
      BY <2>1, Zenon DEF UnlockReturned
    <3>3. /\ [opens[r] EXCEPT !.pc = "commit", !.result = "success"].pc = "commit"
          /\ [opens[r] EXCEPT !.pc = "commit"].pc = "commit"
          /\ Raised(opens[r], calls[r].raised).pc = "raised"
      BY <1>0 DEF Opening, Raised
    <3>4. PICK q : PutOpen(r, q) /\ q.pc \in {"commit", "raised"}
      BY <3>2, <3>3
    <3> QED
      BY <3>1, <3>4, Places DEF Underway
  <2>2. CASE CommitLog(r)
    <3>1. /\ [opens[r] EXCEPT !.pc = "refresh"].pc = "refresh"
          /\ Raised(opens[r], "Exception").pc = "raised"
      BY <1>0 DEF Opening, Raised
    <3>2. opens[r].pc = "commit" /\ \E q : PutOpen(r, q) /\ q.pc \in {"refresh", "raised"}
      BY <2>2, <3>1 DEF CommitLog
    <3> QED
      BY <3>2, Places DEF Underway
  <2>3. CASE RefreshLog(r)
    <3>1. /\ [opens[r] EXCEPT !.pc = "returned"].pc = "returned"
          /\ Raised(opens[r], "Exception").pc = "raised" /\ Raised(opens[r], "RuntimeError").pc = "raised"
      BY <1>0 DEF Opening, Raised
    <3>2. \/ PutOpen(r, [opens[r] EXCEPT !.pc = "returned"])
          \/ PutOpen(r, Raised(opens[r], "Exception"))
          \/ PutOpen(r, Raised(opens[r], "RuntimeError"))
      BY <2>3, Zenon DEF RefreshLog
    <3>3. opens[r].pc = "refresh" /\ \E q : PutOpen(r, q) /\ q.pc \in {"returned", "raised"}
      BY <2>3, <3>1, <3>2 DEF RefreshLog
    <3> QED
      BY <3>3, Places DEF Underway
  <2>4. CASE r \in Opens /\ AnswerOpen(r)
    <3>1. OpeningOver.pc = "over"
      BY DEF OpeningOver, NotOpening
    <3>2. PutOpen(r, OpeningOver) /\ opens[r].pc \in {"returned", "raised"}
      BY <2>4 DEF AnswerOpen
    <3>3. OpenPlace[OpeningOver.pc] > OpenPlace[opens[r].pc]
      BY <3>1, <3>2, Places
    <3> QED
      BY <2>4, <3>2, <3>3
  <2> QED
    BY <1>1, <2>1, <2>2, <2>3, <2>4 DEF OpenStep
<1>4. q.pc = "over" => q = OpeningOver
  BY <1>3
<1>5. OpensOn /\ opens'[r] = q /\ \A s \in Openers \ {r} : opens'[s] = opens[s]
  BY <1>0, <1>3, <1>4, OpenMoves DEF Forward
<1>6. \A e \in Deliveries : Underway(e)' <=> Underway(e)
  <2> SUFFICES ASSUME NEW e \in Deliveries PROVE Underway(e)' <=> Underway(e)
    OBVIOUS
  <2>1. e \in Openers /\ e \notin Opens
    BY Kinds, FeishuBotAssumption
  <2> QED
    BY <1>3, <1>5, <2>1 DEF Underway
<1>7. \A x \in DeviceRequests : calls'[x] = calls[x]
  BY <1>2, Kinds
<1> QED
  BY <1>1, <1>2, <1>5, <1>6, <1>7, HandlersStay, RequestsStay DEF GoesOn

(* An opening begins. *)
LEMMA BeginOpenForward ==
  ASSUME IInv, ForwardInv, NEW r \in Openers, NEW ip, BeginOpen(r, ip)
  PROVE  /\ CallsOn /\ OpensOn /\ opens'[r].pc = "unlock" /\ opens[r].pc = "idle"
         /\ \A s \in Openers \ {r} : opens'[s] = opens[s]
         /\ \A x \in DeviceRequests : calls'[x] = calls[x]
<1> DEFINE q == [NotOpening EXCEPT !.pc = "unlock"]
<1>1. opens[r].pc = "idle" /\ PutOpen(r, q) /\ PutCall(r, NewCall("unlock", ip)) /\ q.pc = "unlock"
  BY DEF BeginOpen, NotOpening
<1> HIDE DEF q
<1>2. r \in Calls /\ calls[r].pc = "idle" /\ CallsInv /\ DoorInv
  BY <1>1, Kinds DEF IInv, DoorInv, OpeningOK
<1>3. CallsOn /\ \A d \in Calls \ {r} : calls'[d] = calls[d]
  BY <1>1, <1>2, NewCallMoves
<1>4. OpensOn /\ opens'[r] = q /\ \A s \in Openers \ {r} : opens'[s] = opens[s]
  BY <1>1, <1>2, Places, OpenMoves DEF Forward
<1> QED
  BY <1>1, <1>3, <1>4, Kinds

LEMMA HandlerForward ==
  ASSUME IInv, ForwardInv, NEW e \in Deliveries, Handler(e)
  PROVE  GoesOn
<1>0. /\ e \in Openers /\ e \in Calls /\ tasks[e] \in Task /\ HandlerOK(e) /\ CallsInv /\ DoorInv /\ BotInv
      /\ Deliveries \subseteq Openers
  BY Kinds DEF IInv, BotInv, BotTypeOK, Task, ForwardInv, HandlersInv
<1>1. UNCHANGED device_reqs /\ TaskStep(e)
  BY DEF Handler, deviceVars
<1>2. TaskOver.pc = "over"
  BY DEF TaskOver, NoTask
<1>3. ASSUME NEW q, PutTask(e, q), UNCHANGED <<calls, opens>>, q.pc # "open", q.pc = "over" => q = TaskOver,
             TaskPlace[q.pc] > TaskPlace[tasks[e].pc], ~Underway(e)
      PROVE  GoesOn
  <2>1. HandlersOn
    BY <1>0, <1>3, TaskMoves DEF Forward, Underway
  <2> QED
    BY <1>1, <1>3, <2>1, CallsStay, OpensStay, RequestsStay DEF GoesOn
<1>4. CASE ExtractOperatorIdentity(e)
  <2> DEFINE q == [tasks[e] EXCEPT !.pc = "name"]
  <2>1. tasks[e].pc = "scheduled" /\ PutTask(e, q) /\ UNCHANGED <<calls, opens>> /\ q.pc = "name"
    BY <1>0, <1>4 DEF ExtractOperatorIdentity, zkVars, doorVars, Task
  <2> HIDE DEF q
  <2> QED
    BY <1>0, <1>3, <2>1, Places DEF HandlerOK
<1>5. CASE HandleMenu(e)
  <2> DEFINE ip == ResolveDoorOpenDeviceIp(Menu[e].event_key)
  <2>1. tasks[e].pc = "name" /\ ~Underway(e)
    BY <1>0, <1>5 DEF HandleMenu, HandlerOK
  <2>2. \/ PutTask(e, [tasks[e] EXCEPT !.pc = "open"]) /\ BeginOpen(e, ip)
        \/ PutTask(e, [tasks[e] EXCEPT !.pc = "notify", !.text = "denied"]) /\ UNCHANGED <<opens, calls>>
        \/ PutTask(e, TaskOver) /\ UNCHANGED <<opens, calls>>
    BY <1>5, Zenon DEF HandleMenu
  <2> HIDE DEF ip
  <2>3. CASE PutTask(e, [tasks[e] EXCEPT !.pc = "open"]) /\ BeginOpen(e, ip)
    <3> DEFINE q == [tasks[e] EXCEPT !.pc = "open"]
    <3>1. PutTask(e, q) /\ q.pc = "open"
      BY <1>0, <2>3 DEF Task
    <3> HIDE DEF q
    <3>2. /\ CallsOn /\ OpensOn /\ opens'[e].pc = "unlock"
          /\ \A s \in Openers \ {e} : opens'[s] = opens[s]
          /\ \A x \in DeviceRequests : calls'[x] = calls[x]
      BY <1>0, <2>3, BeginOpenForward
    <3>3. HandlersOn
      BY <1>0, <2>1, <3>1, <3>2, Places, TaskMoves DEF Forward, Underway
    <3> QED
      BY <1>1, <3>2, <3>3, RequestsStay DEF GoesOn
  <2>4. CASE PutTask(e, [tasks[e] EXCEPT !.pc = "notify", !.text = "denied"]) /\ UNCHANGED <<opens, calls>>
    <3> DEFINE q == [tasks[e] EXCEPT !.pc = "notify", !.text = "denied"]
    <3>1. PutTask(e, q) /\ q.pc = "notify"
      BY <1>0, <2>4 DEF Task
    <3> HIDE DEF q
    <3> QED
      BY <1>3, <2>1, <2>4, <3>1, Places
  <2>5. CASE PutTask(e, TaskOver) /\ UNCHANGED <<opens, calls>>
    BY <1>2, <1>3, <2>1, <2>5, Places
  <2> QED
    BY <2>2, <2>3, <2>4, <2>5
<1>6. CASE DoorOpened(e)
  <2> DEFINE q == [tasks[e] EXCEPT !.pc = "notify",
                                   !.text = IF opens[e].pc = "returned" THEN "opened" ELSE "not opened"]
  <2>1. /\ tasks[e].pc = "open" /\ opens[e].pc \in {"returned", "raised"} /\ UNCHANGED calls
        /\ PutOpen(e, OpeningOver) /\ PutTask(e, q) /\ q.pc = "notify" /\ OpeningOver.pc = "over"
    BY <1>0, <1>6 DEF DoorOpened, zkVars, OpeningOver, NotOpening, Task
  <2> HIDE DEF q
  <2>2. OpensOn /\ opens'[e] = OpeningOver /\ \A s \in Openers \ {e} : opens'[s] = opens[s]
    BY <1>0, <2>1, Places, OpenMoves DEF Forward
  <2>3. HandlersOn
    BY <1>0, <2>1, <2>2, Places, TaskMoves DEF Forward, Underway
  <2> QED
    BY <1>1, <2>1, <2>2, <2>3, CallsStay, RequestsStay DEF GoesOn
<1>7. CASE NotifyOperator(e)
  <2>1. tasks[e].pc = "notify" /\ UNCHANGED <<calls, opens>> /\ PutTask(e, TaskOver)
    BY <1>7 DEF NotifyOperator, zkVars
  <2> QED
    BY <1>0, <1>2, <1>3, <2>1, Places DEF HandlerOK
<1> QED
  BY <1>1, <1>4, <1>5, <1>6, <1>7 DEF TaskStep

LEMMA DeviceRouteForward ==
  ASSUME IInv, ForwardInv, NEW x \in DeviceRequests, DeviceRoute(x)
  PROVE  GoesOn
<1> DEFINE q == device_reqs[x]
<1>0. q \in DeviceRequest /\ x \in Calls /\ CallsInv /\ DeviceInv /\ RequestOK(x)
  BY Kinds DEF IInv, DeviceInv, DeviceTypeOK, ForwardInv, RequestsInv
<1>1. UNCHANGED <<opens, tasks>> /\ DeviceStep(x)
  BY DEF DeviceRoute, doorVars, botVars
<1>2. DeviceRequestOver.pc = "over"
  BY DEF DeviceRequestOver, NoDeviceRequest
<1>3. ASSUME NEW p, PutDeviceRequest(x, p), DevicePlace[p.pc] > DevicePlace[q.pc],
             p.pc = "over" => p = DeviceRequestOver, p.pc # "info", CallsOn,
             \A y \in DeviceRequests \ {x} : calls'[y] = calls[y]
      PROVE  GoesOn
  <2>1. RequestsOn
    BY <1>0, <1>3, RequestMoves DEF Forward
  <2> QED
    BY <1>1, <1>3, <2>1, OpensStay, HandlersStay DEF GoesOn, Underway
<1>4. CASE StatusKnown(x)
  <2> DEFINE p == [q EXCEPT !.pc = "find", !.body.serial = calls[x].serial]
  <2>1. q.pc = "info" /\ PutDeviceRequest(x, p) /\ p.pc = "find" /\ PutCall(x, NoCall) /\ calls[x].pc = "done"
    BY <1>0, <1>4 DEF StatusKnown, DeviceRequest
  <2> HIDE DEF p
  <2>2. CallsOn /\ \A d \in Calls \ {x} : calls'[d] = calls[d]
    BY <1>0, <2>1, CallMoves
  <2> QED
    BY <1>3, <2>1, <2>2, Places, Kinds
<1>5. CASE FindDevice(x)
  <2> DEFINE found == IF q.op \in {"status", "create"} THEN WithIp(q.body.ip)
                      ELSE {i \in {q.id} : devices[i] # None}
             with == [q EXCEPT !.id = CHOOSE i \in found : TRUE, !.loaded = devices[CHOOSE i \in found : TRUE]]
  <2>1. q.pc = "find" /\ UNCHANGED calls
    BY <1>5 DEF FindDevice, zkVars
  <2>2. \/ PutDeviceRequest(x, [q EXCEPT !.pc = "commit"])
        \/ PutDeviceRequest(x, [with EXCEPT !.pc = "commit"])
        \/ PutDeviceRequest(x, [with EXCEPT !.pc = "check"])
        \/ PutDeviceRequest(x, DeviceRequestOver)
    <3> HIDE DEF with, found
    <3>1. q.op \in {"status", "create", "update", "delete"}
      BY <1>0 DEF DeviceRequest
    <3> QED
      BY <1>5, <3>1 DEF FindDevice, found, with
  <2>3. /\ [q EXCEPT !.pc = "commit"].pc = "commit"
        /\ [with EXCEPT !.pc = "commit"].pc = "commit" /\ [with EXCEPT !.pc = "check"].pc = "check"
    <3> HIDE DEF found
    <3> QED
      BY <1>0 DEF DeviceRequest
  <2> HIDE DEF with, found
  <2>4. PICK p : PutDeviceRequest(x, p) /\ (p.pc \in {"commit", "check"} \/ p = DeviceRequestOver)
    BY <2>2, <2>3
  <2>5. p.pc \in {"commit", "check", "over"} /\ (p.pc = "over" => p = DeviceRequestOver)
    BY <1>2, <2>4
  <2> QED
    BY <1>3, <2>1, <2>4, <2>5, Places, CallsStay
<1>6. CASE CheckIp(x)
  <2>1. [q EXCEPT !.pc = "commit"].pc = "commit"
    BY <1>0 DEF DeviceRequest
  <2>2. \/ PutDeviceRequest(x, [q EXCEPT !.pc = "commit"])
        \/ PutDeviceRequest(x, DeviceRequestOver)
    BY <1>6 DEF CheckIp
  <2>3. q.pc = "check" /\ UNCHANGED calls
    BY <1>6 DEF CheckIp, zkVars
  <2>4. PICK p : PutDeviceRequest(x, p) /\ (p.pc = "commit" \/ p = DeviceRequestOver)
    BY <2>1, <2>2
  <2>5. p.pc \in {"commit", "over"} /\ (p.pc = "over" => p = DeviceRequestOver)
    BY <1>2, <2>4
  <2> QED
    BY <1>3, <2>3, <2>4, <2>5, Places, CallsStay
<1>7. CASE CommitDevice(x)
  <2>1. q.pc = "commit" /\ UNCHANGED calls /\ PutDeviceRequest(x, DeviceRequestOver)
    BY <1>7 DEF CommitDevice, zkVars
  <2> QED
    BY <1>2, <1>3, <2>1, Places, CallsStay
<1> QED
  BY <1>1, <1>4, <1>5, <1>6, <1>7 DEF DeviceStep

LEMMA DeviceFailsForward ==
  ASSUME IInv, ForwardInv, NEW x \in DeviceRequests, DeviceRequestFails(x), UNCHANGED <<doorVars, botVars>>
  PROVE  GoesOn
<1>1. /\ device_reqs[x].pc \in {"find", "check", "commit"} /\ PutDeviceRequest(x, DeviceRequestOver)
      /\ UNCHANGED <<calls, opens, tasks>>
  BY DEF DeviceRequestFails, zkVars, doorVars, botVars
<1>2. DeviceRequestOver.pc = "over"
  BY DEF DeviceRequestOver, NoDeviceRequest
<1>3. DevicePlace[DeviceRequestOver.pc] > DevicePlace[device_reqs[x].pc]
  BY <1>1, <1>2, Places
<1>4. RequestsOn
  BY <1>1, <1>2, <1>3, RequestMoves DEF Forward, IInv
<1> QED
  BY <1>1, <1>4, CallsStay, OpensStay, HandlersStay DEF GoesOn, Underway

LEMMA RequestDeviceForward ==
  ASSUME IInv, ForwardInv, NEW x \in DeviceRequests, RequestDevice(x)
  PROVE  GoesOn
<1>1. UNCHANGED <<opens, tasks>> /\ device_reqs[x].pc = "idle"
  BY DEF RequestDevice, doorVars, botVars
<1>2. x \in Calls /\ CallsInv /\ DeviceInv /\ DeviceReqOK(device_reqs[x], calls[x], devices)
  BY Kinds DEF IInv, DeviceInv
<1>3. ASSUME NEW ip \in Devices, AskStatus(x, ip) PROVE GoesOn
  <2> DEFINE p == [NoDeviceRequest EXCEPT !.pc = "info", !.body = NewRow(ip, None)]
  <2>1. PutDeviceRequest(x, p) /\ p.pc = "info" /\ PutCall(x, NewCall("info", ip))
    BY <1>3 DEF AskStatus, NoDeviceRequest
  <2> HIDE DEF p
  <2>2. calls[x].pc = "idle"
    BY <1>1, <1>2 DEF DeviceReqOK
  <2>3. /\ CallsOn /\ calls'[x].pc # "idle" /\ calls'[x].op = "info"
        /\ \A d \in Calls \ {x} : calls'[d] = calls[d]
    BY <1>2, <2>1, <2>2, NewCallMoves
  <2>4. RequestsOn
    BY <1>1, <1>2, <2>1, <2>3, Places, Kinds, RequestMoves DEF Forward
  <2> QED
    BY <1>1, <2>3, <2>4, OpensStay, HandlersStay DEF GoesOn, Underway
<1>4. ASSUME NEW op, NEW id, NEW body, AskDevice(x, op, id, body) PROVE GoesOn
  <2> DEFINE p == [NoDeviceRequest EXCEPT !.pc = "find", !.op = op, !.id = id, !.body = body]
  <2>1. PutDeviceRequest(x, p) /\ p.pc = "find" /\ UNCHANGED calls
    BY <1>4 DEF AskDevice, NoDeviceRequest, zkVars
  <2> HIDE DEF p
  <2>2. RequestsOn
    BY <1>1, <1>2, <2>1, Places, RequestMoves DEF Forward
  <2> QED
    BY <1>1, <2>1, <2>2, CallsStay, OpensStay, HandlersStay DEF GoesOn, Underway
<1> QED
  BY <1>3, <1>4, Zenon DEF RequestDevice

LEMMA ArrivalForward ==
  ASSUME IInv, ForwardInv,
         \/ \E r \in Opens, ip \in Devices : RequestOpen(r, ip)
         \/ \E e \in Deliveries : DeliverEvent(e)
         \/ \E c \in LogReads, ip \in Devices : ReadLog(c, ip)
  PROVE  GoesOn
<1>1. ASSUME NEW r \in Opens, NEW ip \in Devices, RequestOpen(r, ip) PROVE GoesOn
  <2>1. BeginOpen(r, ip) /\ UNCHANGED <<tasks, device_reqs>> /\ r \in Openers
    BY <1>1, Kinds DEF RequestOpen, botVars, deviceVars
  <2>2. /\ CallsOn /\ OpensOn /\ \A s \in Openers \ {r} : opens'[s] = opens[s]
        /\ \A x \in DeviceRequests : calls'[x] = calls[x]
    BY <2>1, BeginOpenForward
  <2>3. \A e \in Deliveries : opens'[e] = opens[e]
    BY <2>2, Kinds, FeishuBotAssumption
  <2> QED
    BY <2>1, <2>2, <2>3, HandlersStay, RequestsStay DEF GoesOn, Underway
<1>2. ASSUME NEW e \in Deliveries, DeliverEvent(e) PROVE GoesOn
  <2> DEFINE q == [NoTask EXCEPT !.pc = "scheduled", !.on = IF app_loop = None THEN "bot" ELSE "app"]
  <2>1. /\ tasks[e].pc = "idle" /\ PutTask(e, q) /\ q.pc = "scheduled"
        /\ UNCHANGED <<calls, opens, device_reqs>>
    BY <1>2 DEF DeliverEvent, Dispatch, NoTask, zkVars, doorVars, deviceVars
  <2> HIDE DEF q
  <2>2. ~Underway(e) /\ BotInv
    BY <2>1 DEF ForwardInv, HandlersInv, HandlerOK, IInv
  <2>3. HandlersOn
    BY <2>1, <2>2, Places, TaskMoves DEF Forward, Underway
  <2> QED
    BY <2>1, <2>3, CallsStay, OpensStay, RequestsStay DEF GoesOn
<1>3. ASSUME NEW c \in LogReads, NEW ip \in Devices, ReadLog(c, ip) PROVE GoesOn
  <2>1. /\ calls[c].pc = "idle" /\ PutCall(c, NewCall("attendance", ip))
        /\ UNCHANGED <<opens, tasks, device_reqs>> /\ CallsInv /\ c \in Calls
    BY <1>3, Kinds DEF ReadLog, doorVars, botVars, deviceVars, IInv
  <2>2. CallsOn /\ \A d \in Calls \ {c} : calls'[d] = calls[d]
    BY <2>1, NewCallMoves
  <2>3. \A x \in DeviceRequests : calls'[x] = calls[x]
    BY <2>2, Kinds
  <2> QED
    BY <2>1, <2>2, <2>3, OpensStay, HandlersStay, RequestsStay DEF GoesOn, Underway
<1> QED
  BY <1>1, <1>2, <1>3

(* Coroutines end where they are. *)
LEMMA OpenDropped ==
  ASSUME IInv, ForwardInv, NEW r \in Openers, opens'[r] = Dropped(opens[r], OpeningOver)
  PROVE  OpenGoes(r) /\ OverOK(r)' /\ ~Underway(r)'
<1>1. OpeningOver.pc = "over" /\ opens[r] \in Opening /\ OverOK(r)
  BY DEF OpeningOver, NotOpening, IInv, DoorInv, DoorTypeOK, ForwardInv, OpensInv
<1>2. CASE opens[r].pc \in {"idle", "over"}
  BY <1>1, <1>2 DEF Dropped, OpenGoes, Forward, OverOK, Underway
<1>3. CASE opens[r].pc \in {"unlock", "commit", "refresh", "returned", "raised"}
  BY <1>1, <1>3, Places DEF Dropped, OpenGoes, Forward, OverOK, Underway
<1> QED
  BY <1>1, <1>2, <1>3 DEF Opening

LEMMA TaskEnds ==
  ASSUME IInv, ForwardInv, NEW e \in Deliveries, tasks'[e] = TaskOver, ~Underway(e)'
  PROVE  TaskGoes(e) /\ HandlerOK(e)'
<1>1. TaskOver.pc = "over" /\ tasks[e] \in Task /\ HandlerOK(e)
  BY DEF TaskOver, NoTask, IInv, BotInv, BotTypeOK, Task, ForwardInv, HandlersInv
<1>2. CASE tasks[e].pc = "over"
  BY <1>1, <1>2 DEF TaskGoes, Forward, HandlerOK
<1>3. CASE tasks[e].pc \in {"idle", "scheduled", "name", "open", "notify"}
  BY <1>1, <1>3, Places DEF TaskGoes, Forward, HandlerOK
<1> QED
  BY <1>1, <1>2, <1>3 DEF Task

LEMMA CancelledForward ==
  ASSUME IInv, ForwardInv, NEW on, Cancelled(on), UNCHANGED <<calls, device_reqs>>
  PROVE  GoesOn
<1>1. ASSUME NEW r \in Openers PROVE OpenGoes(r) /\ OverOK(r)' /\ (Underway(r)' => Underway(r))
  <2>1. CASE opens'[r] = opens[r]
    BY <2>1 DEF OpenGoes, Forward, OverOK, Underway, ForwardInv, OpensInv
  <2>2. CASE opens'[r] = Dropped(opens[r], OpeningOver)
    BY <2>2, OpenDropped
  <2> QED
    BY <2>1, <2>2 DEF Cancelled
<1>2. ASSUME NEW e \in Deliveries PROVE TaskGoes(e) /\ HandlerOK(e)'
  <2>1. CASE tasks[e].on = on
    <3>1. tasks'[e] = TaskOver /\ e \in Openers /\ opens'[e] = Dropped(opens[e], OpeningOver)
      BY <2>1, Kinds DEF Cancelled
    <3> QED
      BY <3>1, OpenDropped, TaskEnds
  <2>2. CASE tasks[e].on # on
    <3>1. tasks'[e] = tasks[e] /\ opens'[e] = opens[e]
      BY <2>2, Kinds DEF Cancelled
    <3> QED
      BY <3>1 DEF TaskGoes, Forward, HandlerOK, Underway, ForwardInv, HandlersInv
  <2> QED
    BY <2>1, <2>2
<1> QED
  BY <1>1, <1>2, CallsStay, RequestsStay DEF GoesOn, OpensOn, OpensInv, HandlersOn, HandlersInv

LEMMA ProcessEndsForward ==
  ASSUME IInv, ForwardInv, ProcessEnds, calls' = [c \in Calls |-> NoCall]
  PROVE  GoesOn
<1>1. CallsOn
  BY DEF CallsOn, CallGoes, ProcessEnds
<1>2. ASSUME NEW r \in Openers PROVE OpenGoes(r) /\ OverOK(r)' /\ ~Underway(r)'
  BY OpenDropped DEF ProcessEnds
<1>3. ASSUME NEW e \in Deliveries PROVE TaskGoes(e) /\ HandlerOK(e)'
  <2>0. e \in Openers
    BY Kinds
  <2>1. CASE tasks[e].pc = "idle"
    <3>1. tasks'[e] = tasks[e]
      BY <2>1 DEF ProcessEnds, Dropped
    <3> QED
      BY <1>2, <2>0, <2>1, <3>1 DEF TaskGoes, Forward, HandlerOK
  <2>2. CASE tasks[e].pc # "idle"
    <3>1. tasks'[e] = TaskOver
      BY <2>2 DEF ProcessEnds, Dropped
    <3> QED
      BY <1>2, <2>0, <3>1, TaskEnds
  <2> QED
    BY <2>1, <2>2
<1>4. ASSUME NEW x \in DeviceRequests PROVE DeviceGoes(x) /\ RequestOK(x)'
  <2>0. /\ device_reqs[x] \in DeviceRequest /\ DeviceRequestOver.pc = "over" /\ RequestOK(x)
        /\ device_reqs'[x] = Dropped(device_reqs[x], DeviceRequestOver)
    BY DEF IInv, DeviceInv, DeviceTypeOK, DeviceRequestOver, NoDeviceRequest, ForwardInv, RequestsInv, ProcessEnds
  <2>1. CASE device_reqs[x].pc \in {"idle", "over"}
    BY <2>0, <2>1 DEF Dropped, DeviceGoes, Forward, RequestOK
  <2>2. CASE device_reqs[x].pc \in {"info", "find", "check", "commit"}
    BY <2>0, <2>2, Places DEF Dropped, DeviceGoes, Forward, RequestOK
  <2> QED
    BY <2>0, <2>1, <2>2 DEF DeviceRequest
<1> QED
  BY <1>1, <1>2, <1>3, <1>4 DEF GoesOn, OpensOn, OpensInv, HandlersOn, HandlersInv, RequestsOn, RequestsInv

LEMMA EndsForward ==
  ASSUME IInv, ForwardInv,
         \/ Shutdown \/ LoopCloses \/ Exit \/ Killed
         \/ ConnectionFails /\ UNCHANGED <<deviceVars, hubVars>>
  PROVE  GoesOn
<1>1. CASE Shutdown
  <2>1. StopBot /\ UNCHANGED <<calls, device_reqs>>
    BY <1>1 DEF Shutdown, zkVars, deviceVars
  <2>2. UNCHANGED <<opens, tasks>> \/ Cancelled("bot")
    BY <2>1 DEF StopBot, LoopEnds
  <2> QED
    BY <2>1, <2>2, CancelledForward, CallsStay, OpensStay, HandlersStay, RequestsStay DEF GoesOn, Underway
<1>2. CASE LoopCloses \/ (ConnectionFails /\ UNCHANGED <<deviceVars, hubVars>>)
  BY <1>2, CancelledForward DEF LoopCloses, ConnectionFails, LoopEnds, zkVars, deviceVars
<1>3. CASE Exit \/ Killed
  BY <1>3, ProcessEndsForward DEF Exit, Killed, CallsLost
<1> QED
  BY <1>1, <1>2, <1>3

LEMMA InitForward ==
  ASSUME Init
  PROVE  ForwardInv
<1>1. /\ \A r \in Openers : opens[r].pc = "idle"
      /\ \A e \in Deliveries : tasks[e].pc = "idle"
      /\ \A x \in DeviceRequests : device_reqs[x].pc = "idle"
  BY DEF Init, DoorInit, BotInit, DeviceInit, NotOpening, NoTask, NoDeviceRequest
<1> QED
  BY <1>1, Kinds DEF ForwardInv, OpensInv, OverOK, HandlersInv, HandlerOK, RequestsInv, RequestOK, Underway

LEMMA NextForward ==
  ASSUME IInv, ForwardInv, [Next]_vars
  PROVE  GoesOn
<1>1. CASE Work
  BY <1>1, WorkerForward, OpenerForward, HandlerForward, DeviceRouteForward, EndsForward DEF Work
<1>2. ASSUME NEW x \in DeviceRequests, DeviceRequestFails(x), UNCHANGED <<doorVars, app_loop, botVars, hubVars>>
      PROVE  GoesOn
  BY <1>2, DeviceFailsForward
<1>3. CASE \/ StartApp \/ RegisterDevices \/ StartManagers \/ UNCHANGED vars
           \/ RunForever /\ UNCHANGED <<deviceVars, hubVars>>
  <2>1. UNCHANGED <<calls, opens, tasks, device_reqs>>
    BY <1>3 DEF StartApp, RegisterDevices, StartManagers, StartBot, RunForever, vars, zkVars, doorVars, botVars,
       deviceVars
  <2> QED
    BY <2>1, CallsStay, OpensStay, HandlersStay, RequestsStay DEF GoesOn, Underway
<1> QED
  BY <1>1, <1>2, <1>3, RequestDeviceForward, ArrivalForward, EndsForward DEF Next

-----------------------------------------------------------------------------
(* The theorems *)

LEMMA Invariance == Spec => []IInv
<1>1. Init => IInv
  BY InitKeeps
<1>2. IInv /\ [Next]_vars => IInv'
  BY NextKeeps
<1> QED
  BY <1>1, <1>2, PTL DEF Spec

(* Every variable has its type: the columns of devices and door_logs, the  *)
(* requests, the calls and their connections (zk_client.py, door.py,       *)
(* device.py, longconn.py).                                                *)
THEOREM TypesKept == Spec => []TypeOK
<1>1. IInv => TypeOK
  <2>1. CallsInv => ZkTypeOK
    BY DEF CallsInv, ZkTypeOK
  <2> QED
    BY <2>1 DEF IInv, TypeOK, DoorInv, BotInv, DeviceInv, Bounds
<1> QED
  BY <1>1, Invariance, PTL

(* zk_client.py:89-106: however many calls work on a terminal at once, one *)
(* that takes no notice of people is in use, or a command to enable it has *)
(* failed or was never sent because the process was killed.                *)
THEOREM DisabledAccounted == Spec => []DisabledIsAccounted
<1>1. IInv => DisabledIsAccounted
  BY DEF IInv, CallsInv
<1> QED
  BY <1>1, Invariance, PTL

(* zk_client.py:98-100, 288-297: one request unlocks once at most; what    *)
(* connect() raises is not what the decorator retries.                     *)
THEOREM SentOnce == Spec => []UnlockSentOnce
<1>1. IInv => UnlockSentOnce
  <2> SUFFICES ASSUME IInv, NEW c \in Calls PROVE unlocks[c] <= 1
    BY DEF UnlockSentOnce
  <2>1. unlocks[c] \in {0, 1}
    BY DEF IInv, CallsInv
  <2> QED
    BY <2>1
<1> QED
  BY <1>1, Invariance, PTL

LEMMA ParsedWhole ==
  ASSUME NEW log \in Logs, NEW size \in SupportedSizes, WrittenIn(log, size)
  PROVE  ReadAsSent(Parsed[log], log, size)
<1>1. log.count \in Nat /\ log.total \in Nat /\ log.available \in Nat
  BY ZkClientAssumption DEF Log
<1>2. log.total <= log.available /\ Holds(log.count, log.total, size)
  BY DEF WrittenIn, Holds
<1>3. Parsed[log] = ParseLog(log, Enrolled, UpperBound)
  BY DEF Parsed
<1> QED
  BY <1>1, <1>2, <1>3, ReadWhole

(* zk_client.py:185-269: whatever logs terminals answer, one that is the   *)
(* records it claims is read whole and as it was written.                  *)
THEOREM LogsRead == Spec => []LogsReadWhole
<1>1. IInv => LogsReadWhole
  <2> SUFFICES ASSUME IInv, NEW c \in Calls, NEW size \in SupportedSizes,
                      calls[c].read # None, WrittenIn(calls[c].log, size)
               PROVE  /\ Cardinality(calls[c].read.entries) + calls[c].read.skipped = calls[c].log.count
                      /\ \A e \in calls[c].read.entries : e.timestamp = Unpacked(calls[c].log.words[size][e.place].time)
    BY DEF LogsReadWhole
  <2>1. calls[c].log \in Logs /\ calls[c].read = Parsed[calls[c].log]
    BY DEF IInv, CallsInv, CallOK
  <2> QED
    BY <2>1, ParsedWhole DEF ReadAsSent
<1> QED
  BY <1>1, Invariance, PTL

(* door.py:17-40, handlers.py:105-123: who was told so opened the door and *)
(* is in the log with that, and the log says so of nobody else.            *)
THEOREM OpenedLogged == Spec => []OpenedIsLogged
<1>1. IInv => OpenedIsLogged
  BY DEF IInv, DoorInv
<1> QED
  BY <1>1, Invariance, PTL

(* handlers.py:192-202, main.py:48-64: while requests are served, no event *)
(* is handled on the loop of the bot.                                      *)
THEOREM HandledOnApp == Spec => []HandledOnAppLoop
<1>1. IInv => HandledOnAppLoop
  BY DEF IInv, BotInv, HandledOnAppLoop, Serving
<1> QED
  BY <1>1, Invariance, PTL

(* Only a commit changes rows, and it writes the columns that differ.      *)
LEMMA CommitBringsBack ==
  ASSUME IInv, NEW x \in DeviceRequests, CommitDevice(x), NEW i \in Ids, ComesBack(i)
  PROVE  device_reqs[x].op = "update" /\ device_reqs[x].body.active
<1> DEFINE q == device_reqs[x]
           row == IF q.loaded = None THEN q.body ELSE DeviceSaved(q, devices[q.id])
           id == IF q.loaded = None THEN FreeId ELSE q.id
<1>1. q.pc = "commit" /\ devices' = [devices EXCEPT ![id] = row] /\ i = id
  BY DEF CommitDevice, ComesBack, IInv, DeviceInv, DeviceTypeOK
<1>2. row \in DeviceRow
  BY <1>1, RowCommitted DEF IInv
<1>3. q.loaded # None
  <2> SUFFICES ASSUME q.loaded = None PROVE FALSE
    OBVIOUS
  <2>1. WithIp(row.ip) = {}
    BY DEF CommitDevice, ComesBack
  <2>2. devices[FreeId] = None
    <3> HIDE DEF row, q
    <3> QED
      BY <1>2, <2>1, FreeIdIsFree DEF IInv, DeviceRow
  <2> QED
    BY <1>1, <2>2 DEF ComesBack
<1>4. /\ q.id = i /\ row.active /\ ~devices[i].active
      /\ row.active = IF Edited(q).active # q.loaded.active THEN Edited(q).active ELSE devices[i].active
  BY <1>1, <1>3, RowCommitted DEF IInv, ComesBack, DeviceInv, DeviceTypeOK
<1>5. Edited(q).active /\ Edited(q).active # q.loaded.active
  BY <1>4
<1>6. q \in DeviceRequest /\ q.loaded \in DeviceRow /\ q.op \in {"status", "update", "delete"}
  BY <1>1, <1>3 DEF IInv, DeviceInv, DeviceTypeOK, DeviceReqOK, DeviceRequest
<1>7. CASE q.op = "status"
  BY <1>5, <1>6, <1>7 DEF Edited, DeviceRow
<1>8. CASE q.op = "delete"
  BY <1>5, <1>6, <1>8 DEF Edited, DeviceRow
<1>9. CASE q.op = "update"
  BY <1>5, <1>9 DEF Edited
<1> QED
  BY <1>6, <1>7, <1>8, <1>9

LEMMA DevicesUntouched ==
  ASSUME IInv, [Next]_vars, ~RegisterDevices, \A x \in DeviceRequests : ~CommitDevice(x)
  PROVE  devices' = devices
<1>1. CASE Work
  <2>1. ASSUME NEW x \in DeviceRequests, DeviceRoute(x) PROVE devices' = devices
    BY <2>1 DEF DeviceRoute, DeviceStep, StatusKnown, FindDevice, CheckIp
  <2> QED
    BY <1>1, <2>1 DEF Work, Worker, Opener, Handler, LoopCloses, deviceVars
<1>2. ASSUME NEW x \in DeviceRequests, RequestDevice(x) PROVE devices' = devices
  BY <1>2 DEF RequestDevice, AskStatus, AskDevice
<1>3. CASE ~Work /\ \A x \in DeviceRequests : ~RequestDevice(x)
  BY <1>3 DEF Next, StartApp, StartManagers, Shutdown, Exit, Killed, ProcessEnds, RequestOpen, DeliverEvent,
     DeviceRequestFails, ReadLog, deviceVars, vars
<1> QED
  BY <1>1, <1>2, <1>3

(* device.py:27-31, 87-104: a deleted device comes back only by an update  *)
(* that asks for it or by a start with its address in the configuration.   *)
THEOREM DeletedStays == Spec => DeletedStaysDeleted
<1> DEFINE A == \A i \in Ids : ComesBack(i) =>
                  \/ RegisterDevices /\ \E j \in DOMAIN ConfiguredIps : devices[i].ip = ConfiguredIps[j]
                  \/ \E x \in DeviceRequests :
                       CommitDevice(x) /\ device_reqs[x].op = "update" /\ device_reqs[x].body.active
<1>1. ASSUME IInv, [Next]_vars PROVE A
  <2>1. CASE RegisterDevices
    BY <1>1, <2>1, RegisterDevicesKeeps
  <2>2. ASSUME NEW x \in DeviceRequests, CommitDevice(x) PROVE A
    BY <1>1, <2>2, CommitBringsBack
  <2>3. CASE devices' = devices
    BY <2>3 DEF ComesBack
  <2> QED
    BY <1>1, <2>1, <2>2, <2>3, DevicesUntouched
<1>2. IInv /\ [Next]_vars => [A]_vars
  BY <1>1
<1> HIDE DEF A
<1>3. Spec => [][A]_vars
  BY <1>2, Invariance, PTL DEF Spec
<1> QED
  BY <1>3 DEF DeletedStaysDeleted, A

(* zk_client.py:288-297, door.py:17-40, handlers.py:89-134: of every       *)
(* request, unlocked at most once, then logged at most once, then answered *)
(* at most once, for any terminals, requests, events and restarts.         *)
THEOREM LedgerImplemented == Spec => ImplementsDoorLedger
<1>1. Init => LedgerInv /\ Ledger!Init
  BY InitLedger
<1>2. IInv /\ LedgerInv /\ [Next]_vars => LedgerInv' /\ [Ledger!Next]_(Ledger!vars)
  BY NextLedger DEF LedgerKept
<1> QED
  BY <1>1, <1>2, Invariance, PTL DEF Spec, ImplementsDoorLedger, Ledger!Spec

(* What DoorLedger promises, in the words of the server: no two rows of a  *)
(* request, nobody refused for whom the door was unlocked, nobody told of  *)
(* a success that is not in the log.                                       *)
THEOREM LedgerAgrees == Spec => []Ledger!Agrees
<1> DEFINE sent == [r \in Openers |-> unlocks[r]]
<1>1. Ledger!Init => Ledger!Agrees
  BY DoorControlAssumption DEF Ledger!Init, Ledger!Agrees, Texts
<1>2. ASSUME DoorTypeOK, DoorTypeOK', Ledger!Agrees, [Ledger!Next]_(Ledger!vars) PROVE Ledger!Agrees'
  <2>0. answers \in [Openers -> Texts \cup {None}] /\ None \notin Texts
    BY <1>2, DoorControlAssumption DEF DoorTypeOK
  <2>1. ASSUME NEW r \in Openers, Ledger!Send(r) PROVE Ledger!Agrees'
    <3>1. \A s \in Openers : sent'[s] = IF s = r THEN 1 ELSE sent[s]
      BY <2>1 DEF Ledger!Send
    <3>2. answers[r] = None /\ UNCHANGED <<door_logs, answers>>
      BY <2>1 DEF Ledger!Send
    <3> QED
      BY <1>2, <2>0, <3>1, <3>2 DEF Ledger!Agrees, Ledger!Unlogged, Texts
  <2>2. ASSUME NEW r \in Openers, NEW result \in Ledger!Results, Ledger!Log(r, result) PROVE Ledger!Agrees'
    <3>1. /\ door_logs' = door_logs \cup {[request |-> r, result |-> result]} /\ answers[r] = None
          /\ UNCHANGED <<answers, sent>> /\ (result = "success" => sent[r] = 1)
          /\ \A row \in door_logs : row.request # r
      BY <2>2 DEF Ledger!Log, Ledger!Unlogged
    <3> DEFINE new == [request |-> r, result |-> result]
    <3>2. new.request = r /\ new.result = result
      OBVIOUS
    <3> HIDE DEF sent, new
    <3>3. door_logs' = door_logs \cup {new} /\ UNCHANGED <<answers, sent>>
      BY <3>1 DEF new
    <3>4. \A s \in Openers : /\ answers[s] = "opened" => [request |-> s, result |-> "success"] \in door_logs'
                             /\ answers[s] = "denied" => sent[s] = 0 /\ \A row \in door_logs' : row.request # s
      BY <1>2, <2>0, <3>1, <3>2, <3>3 DEF Ledger!Agrees, Ledger!Unlogged, Texts, sent
    <3>5. \A row \in door_logs' : row.request \in Openers /\ (row.result = "success" => sent[row.request] = 1)
      BY <1>2, <3>1, <3>2, <3>3 DEF Ledger!Agrees, sent
    <3>6. \A row, other \in door_logs' : row.request = other.request => row = other
      BY <1>2, <3>1, <3>2, <3>3 DEF Ledger!Agrees
    <3> QED
      BY <3>3, <3>4, <3>5, <3>6 DEF Ledger!Agrees, Ledger!Unlogged, sent
  <2>3. ASSUME NEW r \in Openers, NEW text, Ledger!Tell(r, text) PROVE Ledger!Agrees'
    <3>1. \A s \in Openers : answers'[s] = IF s = r THEN text ELSE answers[s]
      BY <2>0, <2>3 DEF Ledger!Tell
    <3>2. /\ UNCHANGED <<door_logs, sent>>
          /\ text = "opened" => [request |-> r, result |-> "success"] \in door_logs
          /\ text = "denied" => sent[r] = 0 /\ Ledger!Unlogged(r)
      BY <2>3 DEF Ledger!Tell
    <3> HIDE DEF sent
    <3> QED
      BY <1>2, <3>1, <3>2 DEF Ledger!Agrees, Ledger!Unlogged, sent
  <2>4. CASE UNCHANGED Ledger!vars
    BY <1>2, <2>4 DEF Ledger!vars, Ledger!Agrees, Ledger!Unlogged
  <2> QED
    BY <1>2, <2>1, <2>2, <2>3, <2>4 DEF Ledger!Next
<1>3. IInv => DoorTypeOK
  BY DEF IInv, DoorInv
<1> QED
  BY <1>1, <1>2, <1>3, Invariance, LedgerImplemented, PTL DEF ImplementsDoorLedger, Ledger!Spec

LEMMA ForwardInvariance == Spec => [](ForwardInv /\ IInv)
<1>1. Init => ForwardInv
  BY InitForward
<1>2. IInv /\ ForwardInv /\ [Next]_vars => ForwardInv'
  BY NextForward DEF GoesOn, OpensOn, HandlersOn, RequestsOn, ForwardInv
<1> QED
  BY <1>1, <1>2, Invariance, PTL DEF Spec

(* handlers.py:89-134, door.py:17-20, device.py:87-104: nobody waits for   *)
(* what is not underway, however calls fail, loops end and the process is  *)
(* restarted; with NothingStartsOver what RequestsEnd owes to fairness is  *)
(* only that steps are taken.                                              *)
THEOREM NoneAwaitsInVain == Spec => []AwaitedIsUnderway
<1>1. IInv /\ ForwardInv => AwaitedIsUnderway
  BY DEF IInv, DoorInv, OpeningOK, ForwardInv, HandlersInv, HandlerOK, RequestsInv, RequestOK, AwaitedIsUnderway
<1> QED
  BY <1>1, ForwardInvariance, PTL

(* zk_client.py:288-297, door.py:16-40, handlers.py:89-134: no request,    *)
(* event or call ever goes back to an earlier await or is done again.      *)
THEOREM NothingStartsOver == Spec => HubGoesForward
<1> DEFINE A == /\ \A c \in Calls : CallGoes(c)
                /\ \A r \in Openers : OpenGoes(r)
                /\ \A e \in Deliveries : TaskGoes(e)
                /\ \A x \in DeviceRequests : DeviceGoes(x)
<1>1. IInv /\ ForwardInv /\ [Next]_vars => [A]_vars
  BY NextForward DEF GoesOn, CallsOn, OpensOn, HandlersOn, RequestsOn
<1> HIDE DEF A
<1>2. Spec => [][A]_vars
  BY <1>1, ForwardInvariance, PTL DEF Spec
<1> QED
  BY <1>2 DEF HubGoesForward, A
=============================================================================
