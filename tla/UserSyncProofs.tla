--------------------------- MODULE UserSyncProofs ---------------------------
(***************************************************************************)
(* Theorems about UserSync for every set of users, devices, sessions and   *)
(* bodies, and for every number of requests.                               *)
(***************************************************************************)
EXTENDS UserSync, TLAPS

-----------------------------------------------------------------------------
(* What the operations on rows return. *)

LEMMA NewRowType ==
  ASSUME NEW i \in Uids, NEW form \in Form
  PROVE  NewRow(i, form) \in Row
BY DEF NewRow, Row, Form, SyncStatuses

LEMMA UpdatedRowType ==
  ASSUME NEW r \in Row, NEW form \in Form
  PROVE  UpdatedRow(r, form) \in Row
BY DEF UpdatedRow, Row, Form, SyncStatuses

LEMMA DismissedRowType ==
  ASSUME NEW r \in Row
  PROVE  DismissedRow(r) \in Row
BY DEF DismissedRow, Row, SyncStatuses

LEMMA ApplyType ==
  ASSUME NEW r \in Row, NEW mark \in BOOLEAN
  PROVE  ApplySyncedCardState(r, mark) \in Row
BY DEF ApplySyncedCardState, Row, SyncStatuses

LEMMA ImportedRowType ==
  ASSUME NEW i \in Uids, NEW e \in Entry
  PROVE  ImportedRow(i, e) \in Row
<1> DEFINE r == [uid |-> i, name |-> e.name, password |-> e.password, card |-> e.card,
                 status |-> "active", sync_status |-> "synced"]
<1>1. r \in Row
  BY DEF Row, Entry, SyncStatuses
<1> QED
  BY <1>1, ApplyType DEF ImportedRow

LEMMA OverwrittenRowType ==
  ASSUME NEW r \in Row, NEW i \in Uids, NEW e \in Entry
  PROVE  OverwrittenRow(r, i, e) \in Row
<1> DEFINE o == [r EXCEPT !.uid = i, !.name = e.name, !.password = e.password, !.card = e.card]
<1>1. o \in Row
  BY DEF Row, Entry
<1> QED
  BY <1>1, ApplyType DEF OverwrittenRow

LEMMA SyncedRowType ==
  ASSUME NEW r \in Row
  PROVE  SyncedRow(r) \in Row
BY DEF SyncedRow, Row, SyncStatuses

LEMMA FailedRowType ==
  ASSUME NEW r \in Row
  PROVE  [r EXCEPT !.sync_status = "failed"] \in Row
BY DEF Row, SyncStatuses

LEMMA EntryTypes ==
  ASSUME NEW u \in UserIds, NEW r \in Row
  PROVE  FullEntry(u, r) \in Entry /\ BlankEntry(u, r) \in Entry
BY DEF FullEntry, BlankEntry, Entry, Row

LEMMA FlushedType ==
  ASSUME NEW current \in Row \cup {None}, NEW loaded \in Row \cup {None},
         NEW mem \in Row \cup {None},
         loaded # None => mem # None,
         loaded # None => current # None
  PROVE  Flushed(current, loaded, mem) \in Row \cup {None}
<1>1. CASE mem = None \/ loaded = None
  BY <1>1 DEF Flushed
<1>2. CASE mem # None /\ loaded # None
  BY <1>2 DEF Flushed, Column, Row
<1> QED
  BY <1>1, <1>2

-----------------------------------------------------------------------------
(* Type correctness, with what a request has at hand at each point. *)

TRInv == TypeOK /\ RequestsOK

LEMMA IdleRequest ==
  /\ Idle \in Request
  /\ \A table : RequestOK(Idle, table)
BY UserRowsAssumption, UserSyncAssumption
DEF Idle, Request, RequestOK, NoRows, PCs, AllOps, ImportModes

(* A step that keeps rows in the table and leaves one session with a sound *)
(* request keeps all requests sound.                                       *)
LEMMA MoveKeeps ==
  ASSUME TRInv,
         NEW s \in Sessions, NEW r \in Request, NEW written \in SUBSET UserIds,
         Move(s, r, written),
         \A u \in UserIds : db[u] # None => db'[u] # None,
         RequestOK(r, db')
  PROVE  /\ req' \in [Sessions -> Request]
         /\ behind' \in [Sessions -> SUBSET UserIds]
         /\ RequestsOK'
<1>1. req' \in [Sessions -> Request] /\ behind' \in [Sessions -> SUBSET UserIds]
  BY DEF TRInv, TypeOK, Move
<1>2. ASSUME NEW t \in Sessions PROVE RequestOK(req'[t], db')
  <2>1. CASE t = s
    BY <2>1 DEF TRInv, TypeOK, Move
  <2>2. CASE t # s
    <3>1. req'[t] = req[t] /\ RequestOK(req[t], db)
      BY <2>2 DEF TRInv, TypeOK, Move, RequestsOK
    <3>2. RequestOK(req[t], db')
      BY <3>1 DEF RequestOK
    <3> QED
      BY <3>1, <3>2
  <2> QED
    BY <2>1, <2>2
<1> QED
  BY <1>1, <1>2 DEF RequestsOK

LEMMA InitTR == Init => TRInv
<1> SUFFICES ASSUME Init PROVE TRInv
  OBVIOUS
<1>1. db \in [UserIds -> Row \cup {None}]
  <2>1. PICK uid \in [Registered -> Uids], form \in [Registered -> Forms] :
          db = [u \in UserIds |->
                 IF u \in Registered THEN NewRow(uid[u], form[u]) ELSE None]
    BY DEF Init
  <2>2. \A u \in Registered : NewRow(uid[u], form[u]) \in Row
    BY NewRowType, UserSyncAssumption
  <2> QED
    BY <2>1, <2>2
<1>2. dev \in [Devices -> [Uids -> Entry \cup {None}]]
  BY UserSyncAssumption DEF Init
<1>3. req \in [Sessions -> Request] /\ RequestsOK
  BY IdleRequest DEF Init, RequestsOK
<1> QED
  BY <1>1, <1>2, <1>3, UserSyncAssumption DEF Init, TRInv, TypeOK

(* From here on, one lemma per group of actions. *)
LEMMA BeginFormTR ==
  ASSUME TRInv, NEW s \in Sessions, NEW u \in UserIds, NEW form \in Forms,
         BeginCreate(s, u, form) \/ BeginUpdate(s, u, form)
  PROVE  TRInv'
<1> USE UserRowsAssumption, UserSyncAssumption
<1>0. form \in Form /\ Idle \in Request
  BY IdleRequest
<1>1. CASE BeginCreate(s, u, form)
  <2> DEFINE r == [Idle EXCEPT !.pc = "check_name", !.op = "create", !.user = u, !.form = form]
  <2>1. r \in Request
    BY <1>0 DEF Request, PCs, AllOps, Idle
  <2>2. RequestOK(r, db')
    BY <1>0 DEF RequestOK, Idle, NoRows, ImportModes
  <2>3. Move(s, r, {}) /\ UNCHANGED <<db, dev, outdated>> /\ started' \in 0 .. MaxRequests
    BY <1>1 DEF BeginCreate, Begin, Goto, TRInv, TypeOK
  <2> QED
    BY <2>1, <2>2, <2>3, MoveKeeps DEF TRInv, TypeOK
<1>2. CASE BeginUpdate(s, u, form)
  <2> DEFINE r == [Idle EXCEPT !.pc = "check_name", !.op = "update", !.user = u, !.form = form,
                               !.loaded[u] = db[u], !.mem[u] = db[u]]
  <2>1. r \in Request
    BY <1>0 DEF Request, PCs, AllOps, Idle, TRInv, TypeOK, NoRows
  <2>3. Move(s, r, {}) /\ UNCHANGED <<db, dev, outdated>> /\ started' \in 0 .. MaxRequests
    BY <1>2 DEF BeginUpdate, Begin, Goto, TRInv, TypeOK
  <2>2. RequestOK(r, db')
    BY <1>0, <1>2, <2>3 DEF BeginUpdate, RequestOK, Idle, NoRows, ImportModes, TRInv, TypeOK
  <2> QED
    BY <2>1, <2>2, <2>3, MoveKeeps DEF TRInv, TypeOK
<1> QED
  BY <1>1, <1>2

LEMMA BeginDeleteTR ==
  ASSUME TRInv, NEW s \in Sessions, NEW u \in UserIds, BeginDelete(s, u)
  PROVE  TRInv'
<1> USE UserRowsAssumption, UserSyncAssumption
<1>0. Idle \in Request /\ db \in [UserIds -> Row \cup {None}]
  BY IdleRequest DEF TRInv, TypeOK
<1> DEFINE r == [Idle EXCEPT !.pc = "commit", !.op = "delete", !.user = u,
                             !.loaded[u] = db[u], !.mem[u] = DismissedRow(db[u])]
<1>1. DismissedRow(db[u]) \in Row /\ db[u] # None
  BY <1>0, DismissedRowType DEF BeginDelete
<1>2. r \in Request
  BY <1>0, <1>1 DEF Request, PCs, AllOps, Idle, NoRows
<1>3. Move(s, r, {}) /\ UNCHANGED <<db, dev, outdated>> /\ started' \in 0 .. MaxRequests
  BY DEF BeginDelete, Begin, Goto, TRInv, TypeOK
<1>4. RequestOK(r, db')
  BY <1>0, <1>1, <1>3 DEF RequestOK, Idle, NoRows, ImportModes
<1> QED
  BY <1>2, <1>3, <1>4, MoveKeeps DEF TRInv, TypeOK

LEMMA BeginListTR ==
  ASSUME TRInv, NEW s \in Sessions, NEW page \in SUBSET UserIds, BeginList(s, page)
  PROVE  TRInv'
<1> USE UserRowsAssumption, UserSyncAssumption
<1>0. Idle \in Request /\ db \in [UserIds -> Row \cup {None}]
  BY IdleRequest DEF TRInv, TypeOK
<1> DEFINE shown == [w \in UserIds |->
                       IF db[w] = None THEN None ELSE ApplySyncedCardState(db[w], FALSE)]
           r == [Idle EXCEPT !.pc = "commit", !.op = "list",
                             !.loaded = Page(db, page), !.mem = Page(shown, page)]
<1>1. shown \in [UserIds -> Row \cup {None}]
      /\ \A w \in UserIds : db[w] # None => shown[w] # None
  BY <1>0, ApplyType
<1> HIDE DEF shown
<1>2. r \in Request
  BY <1>0, <1>1 DEF Request, PCs, AllOps, Idle, Page
<1>3. Move(s, r, {}) /\ UNCHANGED <<db, dev, outdated>> /\ started' \in 0 .. MaxRequests
  BY DEF BeginList, Begin, Goto, TRInv, TypeOK, shown
<1>4. RequestOK(r, db')
  BY <1>0, <1>1, <1>3 DEF RequestOK, Idle, NoRows, ImportModes, Page
<1> QED
  BY <1>2, <1>3, <1>4, MoveKeeps DEF TRInv, TypeOK

LEMMA BeginSyncTR ==
  ASSUME TRInv, NEW s \in Sessions, NEW u \in UserIds, NEW d \in Devices, BeginSync(s, u, d)
  PROVE  TRInv'
<1> USE UserRowsAssumption, UserSyncAssumption
<1>0. Idle \in Request /\ db \in [UserIds -> Row \cup {None}]
  BY IdleRequest DEF TRInv, TypeOK
<1> DEFINE r == [Idle EXCEPT !.pc = "sync_next", !.op = "sync", !.device = d,
                             !.queue = {u}, !.loaded[u] = db[u], !.mem[u] = db[u]]
<1>2. r \in Request
  BY <1>0 DEF Request, PCs, AllOps, Idle, NoRows
<1>3. Move(s, r, {}) /\ UNCHANGED <<db, dev, outdated>> /\ started' \in 0 .. MaxRequests
  BY DEF BeginSync, Begin, Goto, TRInv, TypeOK
<1>4. RequestOK(r, db')
  BY <1>0, <1>3 DEF BeginSync, RequestOK, Idle, NoRows, ImportModes
<1> QED
  BY <1>2, <1>3, <1>4, MoveKeeps DEF TRInv, TypeOK

LEMMA BeginBatchTR ==
  ASSUME TRInv, NEW s \in Sessions, NEW d \in Devices, BeginBatch(s, d)
  PROVE  TRInv'
<1> USE UserRowsAssumption, UserSyncAssumption
<1>0. Idle \in Request /\ db \in [UserIds -> Row \cup {None}]
  BY IdleRequest DEF TRInv, TypeOK
<1> DEFINE pending == {w \in UserIds : db[w] # None /\ IsPending(db[w])}
           r == [Idle EXCEPT !.pc = "sync_next", !.op = "batch", !.device = d, !.queue = pending,
                             !.loaded = Page(db, pending), !.mem = Page(db, pending)]
<1>2. r \in Request
  BY <1>0 DEF Request, PCs, AllOps, Idle, Page
<1>3. Move(s, r, {}) /\ UNCHANGED <<db, dev, outdated>> /\ started' \in 0 .. MaxRequests
  BY DEF BeginBatch, Begin, Goto, TRInv, TypeOK
<1>4. RequestOK(r, db')
  BY <1>0, <1>3 DEF RequestOK, Idle, NoRows, ImportModes, Page
<1> QED
  BY <1>2, <1>3, <1>4, MoveKeeps DEF TRInv, TypeOK

LEMMA UniqueCheckTR ==
  ASSUME TRInv, NEW s \in Sessions, CheckName(s) \/ CheckCard(s) \/ AssignUid(s)
  PROVE  TRInv'
<1> USE UserRowsAssumption, UserSyncAssumption
<1> DEFINE q == req[s]
<1>0. q \in Request /\ RequestOK(q, db) /\ db \in [UserIds -> Row \cup {None}]
  BY DEF TRInv, TypeOK, RequestsOK
<1>1. SUFFICES ASSUME NEW r \in Request, RequestOK(r, db'), Goto(s, r),
                      UNCHANGED <<db, dev, started, outdated>>
               PROVE  TRInv'
  <2>1. CASE CheckName(s)
    <3>1. CASE Finish(s)
      BY <1>1, <2>1, <3>1, IdleRequest DEF CheckName, Finish
    <3>2. CASE Goto(s, [q EXCEPT !.pc = "check_card"])
      <4> DEFINE r == [q EXCEPT !.pc = "check_card"]
      <4>1. r \in Request
        BY <1>0 DEF Request, PCs
      <4>2. RequestOK(r, db')
        BY <1>0, <2>1 DEF RequestOK, CheckName, At, Request
      <4> QED
        BY <1>1, <2>1, <3>2, <4>1, <4>2 DEF CheckName
    <3> QED
      BY <2>1, <3>1, <3>2 DEF CheckName
  <2>2. CASE CheckCard(s)
    <3> DEFINE a == [q EXCEPT !.pc = "max_uid"]
               b == [q EXCEPT !.pc = "commit", !.mem[q.user] = UpdatedRow(@, q.form)]
    <3>0. q.user \in UserIds /\ q.form \in Form /\ q.op \in {"create", "update"}
      BY <1>0, <2>2 DEF CheckCard, At, RequestOK, Request
    <3>1. CASE Finish(s)
      BY <1>1, <2>2, <3>1, IdleRequest DEF CheckCard, Finish
    <3>2. CASE q.op = "create" /\ Goto(s, a)
      <4>1. a \in Request
        BY <1>0 DEF Request, PCs
      <4>2. RequestOK(a, db')
        BY <1>0, <2>2 DEF RequestOK, CheckCard, At, Request
      <4> QED
        BY <1>1, <2>2, <3>2, <4>1, <4>2 DEF CheckCard
    <3>3. CASE q.op = "update" /\ Goto(s, b)
      <4>1. q.mem[q.user] \in Row /\ UpdatedRow(q.mem[q.user], q.form) \in Row
        BY <1>0, <2>2, <3>0, <3>3, UpdatedRowType DEF CheckCard, At, RequestOK, Request
      <4>2. b \in Request
        BY <1>0, <3>0, <4>1 DEF Request, PCs
      <4>3. RequestOK(b, db')
        BY <1>0, <2>2, <3>0, <3>3, <4>1 DEF RequestOK, CheckCard, At, Request, ImportModes
      <4> QED
        BY <1>1, <2>2, <3>3, <4>2, <4>3 DEF CheckCard
    <3> QED
      BY <2>2, <3>0, <3>1, <3>2, <3>3 DEF CheckCard
  <2>3. CASE AssignUid(s)
    <3> DEFINE n == NextUid
               r == [q EXCEPT !.pc = "commit", !.mem[q.user] = NewRow(n, q.form)]
    <3>0. q.user \in UserIds /\ q.form \in Form /\ q.op \in {"create", "update"}
      BY <1>0, <2>3 DEF AssignUid, At, RequestOK, Request
    <3>1. CASE Finish(s)
      BY <1>1, <2>3, <3>1, IdleRequest DEF AssignUid, Finish
    <3>2. CASE n \in Uids /\ Goto(s, r)
      <4> HIDE DEF n
      <4>1. NewRow(n, q.form) \in Row
        BY <3>0, <3>2, NewRowType
      <4>2. r \in Request
        BY <1>0, <3>0, <4>1 DEF Request, PCs
      <4>3. RequestOK(r, db')
        BY <1>0, <2>3, <3>0, <4>1 DEF RequestOK, AssignUid, At, Request, ImportModes
      <4>4. UNCHANGED <<db, dev, started, outdated>>
        BY <2>3 DEF AssignUid
      <4> QED
        BY <1>1, <3>2, <4>2, <4>3, <4>4
    <3> QED
      <4>1. IF n \in Uids THEN Goto(s, r) ELSE Finish(s)
        BY <2>3 DEF AssignUid
      <4> HIDE DEF n, r
      <4> QED
        BY <3>1, <3>2, <4>1
  <2> QED
    BY <2>1, <2>2, <2>3
<1> QED
  BY <1>1, MoveKeeps DEF Goto, TRInv, TypeOK

LEMMA FlushTR ==
  ASSUME NEW q \in Request, RequestOK(q, db), db \in [UserIds -> Row \cup {None}], NEW u \in UserIds
  PROVE  /\ Flushed(db[u], q.loaded[u], q.mem[u]) \in Row \cup {None}
         /\ db[u] # None => Flushed(db[u], q.loaded[u], q.mem[u]) # None
<1> USE UserRowsAssumption
<1>1. Flushed(db[u], q.loaded[u], q.mem[u]) \in Row \cup {None}
  BY FlushedType DEF RequestOK, Request
<1>2. ASSUME db[u] # None PROVE Flushed(db[u], q.loaded[u], q.mem[u]) # None
  <2>1. CASE q.mem[u] = None \/ q.loaded[u] = None
    BY <1>2, <2>1 DEF Flushed
  <2>2. CASE q.mem[u] # None /\ q.loaded[u] # None
    <3>1. q.mem[u] \in Row /\ q.loaded[u] \in Row /\ db[u] \in Row
      BY <1>2, <2>2 DEF Request
    <3>2. Flushed(db[u], q.loaded[u], q.mem[u]) \in Row
      BY <2>2, <3>1 DEF Flushed, Column, Row
    <3> QED
      BY <3>2
  <2> QED
    BY <2>1, <2>2
<1> QED
  BY <1>1, <1>2

LEMMA CommitTR ==
  ASSUME TRInv, NEW s \in Sessions, Commit(s)
  PROVE  TRInv'
<1>0. req[s] \in Request /\ RequestOK(req[s], db) /\ db \in [UserIds -> Row \cup {None}]
  BY DEF TRInv, TypeOK, RequestsOK
<1>1. CASE Finish(s) /\ UNCHANGED <<db, outdated>>
  BY <1>1, IdleRequest, MoveKeeps DEF Finish, Goto, Commit, TRInv, TypeOK
<1>2. CASE /\ db' = Flush(s)
           /\ outdated' = outdated \cup Overtaken(s)
           /\ Move(s, Idle, {u \in UserIds : Flush(s)[u] # db[u]})
  <2>1. /\ db' \in [UserIds -> Row \cup {None}]
        /\ \A u \in UserIds : db[u] # None => db'[u] # None
    BY <1>0, <1>2, FlushTR DEF Flush
  <2>2. outdated' \subseteq UserIds
    BY <1>2 DEF Overtaken, TRInv, TypeOK
  <2> QED
    BY <1>2, <2>1, <2>2, IdleRequest, MoveKeeps DEF Commit, TRInv, TypeOK
<1> QED
  BY <1>1, <1>2 DEF Commit

LEMMA SyncNextTR ==
  ASSUME TRInv, NEW s \in Sessions, SyncNext(s)
  PROVE  TRInv'
<1> USE UserRowsAssumption, UserSyncAssumption
<1> DEFINE q == req[s]
<1>0. q \in Request /\ RequestOK(q, db) /\ UNCHANGED <<db, dev, started, outdated>>
  BY DEF TRInv, TypeOK, RequestsOK, SyncNext
<1>1. CASE Finish(s)
  BY <1>0, <1>1, IdleRequest, MoveKeeps DEF Finish, Goto, TRInv, TypeOK
<1>2. CASE \E u \in q.queue :
             Goto(s, [q EXCEPT !.pc = "sync_save", !.user = u, !.queue = @ \ {u}])
  <2>1. PICK u \in q.queue : Goto(s, [q EXCEPT !.pc = "sync_save", !.user = u, !.queue = @ \ {u}])
    BY <1>2
  <2> DEFINE r == [q EXCEPT !.pc = "sync_save", !.user = u, !.queue = @ \ {u}]
  <2>2. u \in UserIds /\ q.loaded[u] # None
    BY <1>0 DEF Request, RequestOK
  <2>3. r \in Request
    BY <1>0, <2>2 DEF Request, PCs
  <2>4. RequestOK(r, db')
    BY <1>0, <2>2 DEF RequestOK, SyncNext, At, Request, ImportModes
  <2> QED
    BY <1>0, <2>1, <2>3, <2>4, MoveKeeps DEF Goto, TRInv, TypeOK
<1> QED
  BY <1>1, <1>2 DEF SyncNext

LEMMA SyncSaveTR ==
  ASSUME TRInv, NEW s \in Sessions, SyncSave(s)
  PROVE  TRInv'
<1> USE UserRowsAssumption, UserSyncAssumption
<1> DEFINE q == req[s]
           u == q.user
           r == q.mem[u]
           entry == SavedEntry(u, r)
           touched == {u} \cup {w \in UserIds : db[w] # None /\ db[w].uid = r.uid}
           a == [q EXCEPT !.pc = "sync_verify"]
           b == [q EXCEPT !.pc = "sync_commit", !.mem[u].sync_status = "failed"]
<1>0. q \in Request /\ RequestOK(q, db) /\ UNCHANGED <<db, started>> /\ q.pc = "sync_save"
  BY DEF TRInv, TypeOK, RequestsOK, SyncSave, At
<1>1. u \in UserIds /\ q.loaded[u] # None /\ u \notin q.queue /\ q.device \in Devices
  BY <1>0 DEF RequestOK, Request
<1>2. r \in Row /\ entry \in Entry /\ r.uid \in Uids
  BY <1>0, <1>1, EntryTypes DEF RequestOK, Request, Row, SavedEntry
<1>3. PICK taken \in BOOLEAN, answered \in BOOLEAN :
        /\ dev' = IF taken THEN [dev EXCEPT ![q.device][r.uid] = entry] ELSE dev
        /\ outdated' = IF taken /\ u \in behind[s] THEN outdated \cup touched ELSE outdated
        /\ Goto(s, IF answered THEN a ELSE b)
  BY DEF SyncSave
<1>4. dev' \in [Devices -> [Uids -> Entry \cup {None}]]
  BY <1>1, <1>2, <1>3 DEF TRInv, TypeOK
<1>5. outdated' \subseteq UserIds
  BY <1>1, <1>3 DEF TRInv, TypeOK
<1>6. a \in Request /\ RequestOK(a, db')
  <2>1. a \in Request
    BY <1>0 DEF Request, PCs
  <2>2. RequestOK(a, db')
    BY <1>0, <1>1 DEF Request, RequestOK, ImportModes
  <2> QED
    BY <2>1, <2>2
<1>7. b \in Request /\ RequestOK(b, db')
  <2>1. [r EXCEPT !.sync_status = "failed"] \in Row
    BY <1>2, FailedRowType
  <2>2. b \in Request
    BY <1>0, <1>1, <2>1 DEF Request, PCs
  <2>3. RequestOK(b, db')
    BY <1>0, <1>1, <2>1 DEF Request, RequestOK, ImportModes
  <2> QED
    BY <2>2, <2>3
<1> HIDE DEF a, b, q, u, r, entry, touched
<1>8. PICK n \in Request : RequestOK(n, db') /\ Goto(s, n)
  BY <1>3, <1>6, <1>7
<1> QED
  BY <1>0, <1>4, <1>5, <1>8, MoveKeeps DEF Goto, TRInv, TypeOK

LEMMA SyncVerifyTR ==
  ASSUME TRInv, NEW s \in Sessions, SyncVerify(s)
  PROVE  TRInv'
<1> USE UserRowsAssumption, UserSyncAssumption
<1> DEFINE q == req[s]
           u == q.user
           a == [q EXCEPT !.pc = "sync_commit", !.mem[u] = SyncedRow(q.mem[u])]
           b == [q EXCEPT !.pc = "sync_commit", !.mem[u].sync_status = "failed"]
<1>0. /\ q \in Request /\ RequestOK(q, db) /\ q.pc = "sync_verify"
      /\ UNCHANGED <<db, dev, started, outdated>> /\ (Goto(s, a) \/ Goto(s, b))
  BY DEF TRInv, TypeOK, RequestsOK, SyncVerify, At
<1>1. u \in UserIds /\ q.loaded[u] # None /\ u \notin q.queue /\ q.device \in Devices
  BY <1>0 DEF RequestOK, Request
<1>2. /\ q.mem[u] \in Row /\ SyncedRow(q.mem[u]) \in Row
      /\ [q.mem[u] EXCEPT !.sync_status = "failed"] \in Row
  BY <1>0, <1>1, SyncedRowType, FailedRowType DEF RequestOK, Request
<1>3. a \in Request /\ RequestOK(a, db')
  <2>1. a \in Request
    BY <1>0, <1>1, <1>2 DEF Request, PCs
  <2>2. RequestOK(a, db')
    BY <1>0, <1>1, <1>2 DEF Request, RequestOK, ImportModes
  <2> QED
    BY <2>1, <2>2
<1>4. b \in Request /\ RequestOK(b, db')
  <2>1. b \in Request
    BY <1>0, <1>1, <1>2 DEF Request, PCs
  <2>2. RequestOK(b, db')
    BY <1>0, <1>1, <1>2 DEF Request, RequestOK, ImportModes
  <2> QED
    BY <2>1, <2>2
<1> HIDE DEF a, b, q, u
<1> QED
  BY <1>0, <1>3, <1>4, MoveKeeps DEF Goto, TRInv, TypeOK

LEMMA SyncCommitTR ==
  ASSUME TRInv, NEW s \in Sessions, SyncCommit(s)
  PROVE  TRInv'
<1> USE UserRowsAssumption, UserSyncAssumption
<1> DEFINE q == req[s]
           u == q.user
           row == Flushed(db[u], q.loaded[u], q.mem[u])
           r == [q EXCEPT !.pc = "sync_next", !.user = None, !.loaded[u] = None, !.mem[u] = None]
<1>0. /\ q \in Request /\ RequestOK(q, db) /\ q.pc = "sync_commit"
      /\ db \in [UserIds -> Row \cup {None}]
      /\ db' = [db EXCEPT ![u] = row]
      /\ outdated' = outdated \cup ({u} \cap behind[s])
      /\ Move(s, r, IF row = db[u] THEN {} ELSE {u})
      /\ UNCHANGED <<dev, started>>
  BY DEF TRInv, TypeOK, RequestsOK, SyncCommit, At
<1>1. u \in UserIds /\ q.loaded[u] # None /\ u \notin q.queue /\ q.device \in Devices
  BY <1>0 DEF RequestOK, Request
<1>2. row \in Row \cup {None} /\ row # None
  BY <1>0, <1>1, FlushTR DEF RequestOK
<1> HIDE DEF row
<1>3. /\ db' \in [UserIds -> Row \cup {None}]
      /\ \A w \in UserIds : db[w] # None => db'[w] # None
  BY <1>0, <1>1, <1>2
<1>4. r \in Request
  BY <1>0, <1>1 DEF Request, PCs
<1>5. RequestOK(r, db')
  BY <1>0, <1>1, <1>3 DEF Request, RequestOK, ImportModes
<1>6. outdated' \subseteq UserIds
  BY <1>0 DEF TRInv, TypeOK
<1>7. (IF row = db[u] THEN {} ELSE {u}) \in SUBSET UserIds
  BY <1>1
<1> HIDE DEF r, q, u
<1> QED
  BY <1>0, <1>3, <1>4, <1>5, <1>6, <1>7, MoveKeeps DEF TRInv, TypeOK

LEMMA BeginImportTR ==
  ASSUME TRInv, NEW s \in Sessions, NEW mode \in ImportModes, NEW d \in Devices,
         BeginImport(s, mode, d)
  PROVE  TRInv'
<1> USE UserRowsAssumption, UserSyncAssumption
<1> DEFINE r == [Idle EXCEPT !.pc = "import_read", !.op = mode, !.device = d,
                             !.snapshot = dev[d], !.todo = {i \in Uids : dev[d][i] # None}]
<1>1. r \in Request
  BY IdleRequest DEF Request, PCs, AllOps, ImportModes, Idle, TRInv, TypeOK
<1>2. Move(s, r, {}) /\ UNCHANGED <<db, dev, outdated>> /\ started' \in 0 .. MaxRequests
  BY DEF BeginImport, Begin, Goto, TRInv, TypeOK
<1>3. RequestOK(r, db')
  BY <1>2 DEF RequestOK, Idle, NoRows, ImportModes
<1> QED
  BY <1>1, <1>2, <1>3, MoveKeeps DEF TRInv, TypeOK

(* One iteration only replaces rows in memory by rows. *)
LEMMA ImportEntryTR ==
  ASSUME TRInv, NEW s \in Sessions, NEW i \in Uids, ImportEntry(s, i)
  PROVE  TRInv'
<1> USE UserRowsAssumption, UserSyncAssumption
<1> DEFINE q == req[s]
           e == q.snapshot[i]
           u == e.user_id
           r == q.mem[u]
           next(mem) == [q EXCEPT !.mem = mem, !.todo = @ \ {i}]
           m1 == [w \in UserIds |-> IF w \in UidOwners(q, i)
                                    THEN ApplySyncedCardState(q.mem[w], FALSE) ELSE q.mem[w]]
           m2 == IF q.op = "preview" THEN q.mem ELSE [q.mem EXCEPT ![u] = ImportedRow(i, e)]
           shown == ApplySyncedCardState(r, FALSE)
           m3 == [q.mem EXCEPT ![u] = IF q.op = "overwrite_local"
                                      THEN OverwrittenRow(shown, i, e) ELSE shown]
<1>0. /\ q \in Request /\ RequestOK(q, db) /\ q.pc = "import" /\ i \in q.todo
      /\ UNCHANGED <<db, dev, started, outdated>>
  BY DEF TRInv, TypeOK, RequestsOK, ImportEntry, At
<1>1. e \in Entry /\ u \in UserIds
  BY <1>0 DEF Request, RequestOK, Entry
<1>2. ASSUME NEW mem \in [UserIds -> Row \cup {None}],
             \A w \in UserIds : q.mem[w] # None => mem[w] # None,
             Goto(s, next(mem))
      PROVE  TRInv'
  <2>1. next(mem) \in Request
    BY <1>0, <1>2 DEF Request
  <2>2. RequestOK(next(mem), db')
    BY <1>0, <1>2 DEF Request, RequestOK
  <2> QED
    BY <1>0, <1>2, <2>1, <2>2, MoveKeeps DEF Goto, TRInv, TypeOK
<1>3. CASE Goto(s, next(m1))
  <2>1. \A w \in UidOwners(q, i) : ApplySyncedCardState(q.mem[w], FALSE) \in Row
    BY <1>0, ApplyType DEF UidOwners, Request
  <2>2. ASSUME NEW w \in UserIds
        PROVE  m1[w] \in Row \cup {None} /\ (q.mem[w] # None => m1[w] # None)
    <3>1. CASE w \in UidOwners(q, i)
      <4>1. m1[w] = ApplySyncedCardState(q.mem[w], FALSE)
        BY <3>1
      <4> QED
        BY <2>1, <3>1, <4>1
    <3>2. CASE w \notin UidOwners(q, i)
      BY <1>0, <3>2 DEF Request
    <3> QED
      BY <3>1, <3>2
  <2>3. m1 \in [UserIds -> Row \cup {None}]
    BY <2>2
  <2> HIDE DEF m1, q
  <2> QED
    BY <1>2, <1>3, <2>2, <2>3
<1>4. CASE Goto(s, next(m2))
  <2>1. ImportedRow(i, e) \in Row
    BY <1>1, ImportedRowType
  <2>2. m2 \in [UserIds -> Row \cup {None}] /\ \A w \in UserIds : q.mem[w] # None => m2[w] # None
    BY <1>0, <1>1, <2>1 DEF Request
  <2> HIDE DEF m2, q
  <2> QED
    BY <1>2, <1>4, <2>2
<1>5. CASE Goto(s, next(q.mem))
  <2>1. q.mem \in [UserIds -> Row \cup {None}]
    BY <1>0 DEF Request
  <2> HIDE DEF q
  <2> QED
    BY <1>2, <1>5, <2>1
<1>6. CASE r # None /\ Goto(s, next(m3))
  <2>1. r \in Row /\ shown \in Row
    BY <1>0, <1>1, <1>6, ApplyType DEF Request
  <2>2. OverwrittenRow(shown, i, e) \in Row
    BY <1>1, <2>1, OverwrittenRowType
  <2> HIDE DEF shown
  <2>3. m3 \in [UserIds -> Row \cup {None}] /\ \A w \in UserIds : q.mem[w] # None => m3[w] # None
    BY <1>0, <1>1, <2>1, <2>2 DEF Request
  <2> HIDE DEF m3, q
  <2> QED
    BY <1>2, <1>6, <2>3
<1> QED
  BY <1>3, <1>4, <1>5, <1>6 DEF ImportEntry

LEMMA ImportEdgesTR ==
  ASSUME TRInv, NEW s \in Sessions, ImportRead(s) \/ ImportDone(s)
  PROVE  TRInv'
<1> USE UserRowsAssumption, UserSyncAssumption
<1> DEFINE q == req[s]
           a == [q EXCEPT !.pc = "import", !.loaded = db, !.mem = db]
           b == [q EXCEPT !.pc = "commit"]
<1>0. /\ q \in Request /\ RequestOK(q, db) /\ db \in [UserIds -> Row \cup {None}]
      /\ UNCHANGED <<db, dev, started, outdated>>
  BY DEF TRInv, TypeOK, RequestsOK, ImportRead, ImportDone
<1>1. CASE q.pc = "import_read" /\ Goto(s, a)
  <2>1. a \in Request
    BY <1>0 DEF Request, PCs
  <2>2. RequestOK(a, db')
    BY <1>0, <1>1 DEF Request, RequestOK, ImportModes
  <2> HIDE DEF a, q
  <2> QED
    BY <1>0, <1>1, <2>1, <2>2, MoveKeeps DEF Goto, TRInv, TypeOK
<1>2. CASE q.pc = "import" /\ Goto(s, b)
  <2>1. b \in Request
    BY <1>0 DEF Request, PCs
  <2>2. RequestOK(b, db')
    BY <1>0, <1>2 DEF Request, RequestOK, ImportModes
  <2> HIDE DEF b, q
  <2> QED
    BY <1>0, <1>2, <2>1, <2>2, MoveKeeps DEF Goto, TRInv, TypeOK
<1>3. CASE Finish(s)
  BY <1>0, <1>3, IdleRequest, MoveKeeps DEF Finish, Goto, TRInv, TypeOK
<1> QED
  BY <1>1, <1>2, <1>3 DEF ImportRead, ImportDone, At

LEMMA RestartTR == TRInv /\ Restart => TRInv'
BY IdleRequest DEF TRInv, TypeOK, RequestsOK, Restart

LEMMA StutterTR == TRInv /\ UNCHANGED vars => TRInv'
BY DEF TRInv, TypeOK, RequestsOK, RequestOK, vars

LEMMA NextTR == TRInv /\ [Next]_vars => TRInv'
<1> SUFFICES ASSUME TRInv, Next PROVE TRInv'
  BY StutterTR
<1>1. CASE Restart
  BY <1>1, RestartTR
<1>2. ASSUME NEW s \in Sessions, Call(s) PROVE TRInv'
  BY <1>2, BeginFormTR, BeginDeleteTR, BeginListTR, BeginSyncTR, BeginBatchTR, BeginImportTR DEF Call
<1>3. ASSUME NEW s \in Sessions, Step(s) PROVE TRInv'
  BY <1>3, UniqueCheckTR, CommitTR, SyncNextTR, SyncSaveTR, SyncVerifyTR, SyncCommitTR,
     ImportEdgesTR, ImportEntryTR DEF Step
<1> QED
  BY <1>1, <1>2, <1>3 DEF Next

(* Every variable keeps its type, and every request has at each point of   *)
(* its handler what the code there dereferences: the row it works on, the  *)
(* device it talks to, the entries of its snapshot (user.py:59-313).       *)
THEOREM TypeCorrect == Spec => []TypeOK
<1>1. TRInv => TypeOK
  BY DEF TRInv
<1> QED
  BY <1>1, InitTR, NextTR, PTL DEF Spec
-----------------------------------------------------------------------------
(* What can be said without fairness of RequestsEnd: every step takes a    *)
(* request forward in an order that has no infinite descent, first by the  *)
(* users still queued, then by the place in the handler, then by the       *)
(* device's entries not looked at.                                         *)
Place == [check_name |-> 0, check_card |-> 1, max_uid |-> 2, import_read |-> 3, import |-> 4, commit |-> 5,
          sync_save |-> 6, sync_verify |-> 7, sync_commit |-> 8, sync_next |-> 9]

Ahead(q, r) ==
  \/ r.queue \subseteq q.queue /\ r.queue # q.queue
  \/ r.queue = q.queue /\ Place[r.pc] > Place[q.pc]
  \/ r.queue = q.queue /\ r.pc = q.pc /\ r.todo \subseteq q.todo /\ r.todo # q.todo

RequestsGoForward ==
  [][\A s \in Sessions :
       req'[s] # req[s] /\ req[s] # Idle /\ req'[s] # Idle => Ahead(req[s], req'[s])]_vars

Onward(s) ==
  /\ req'[s] = Idle \/ Ahead(req[s], req'[s])
  /\ \A t \in Sessions : t # s => req'[t] = req[t]

LEMMA MoveIs ==
  ASSUME TypeOK, NEW s \in Sessions, NEW r, NEW written, Move(s, r, written)
  PROVE  req'[s] = r /\ \A t \in Sessions : t # s => req'[t] = req[t]
BY DEF TypeOK, Move

LEMMA LaterPlace ==
  ASSUME TypeOK, NEW s \in Sessions, NEW r, NEW written, Move(s, r, written),
         r.queue = req[s].queue, Place[r.pc] > Place[req[s].pc]
  PROVE  Onward(s)
BY MoveIs DEF Onward, Ahead

LEMMA FinishOnward ==
  ASSUME TypeOK, NEW s \in Sessions, Finish(s)
  PROVE  Onward(s)
BY MoveIs DEF Finish, Goto, Onward

LEMMA ChecksOnward ==
  ASSUME TypeOK, NEW s \in Sessions, CheckName(s) \/ CheckCard(s) \/ AssignUid(s) \/ Commit(s)
  PROVE  Onward(s)
<1> DEFINE q == req[s]
<1>0. q \in Request
  BY DEF TypeOK
<1>1. CASE Finish(s)
  BY <1>1, FinishOnward
<1>2. CASE \E written : Move(s, Idle, written)
  BY <1>2, MoveIs DEF Onward
<1>3. CASE CheckName(s) /\ ~Finish(s)
  <2> DEFINE r == [q EXCEPT !.pc = "check_card"]
  <2>1. Move(s, r, {}) /\ q.pc = "check_name"
    BY <1>3 DEF CheckName, At, Goto
  <2>2. r.queue = q.queue /\ r.pc = "check_card"
    BY <1>0 DEF Request
  <2> HIDE DEF r
  <2>3. Place[r.pc] > Place[q.pc]
    BY <2>1, <2>2 DEF Place
  <2> QED
    BY <2>1, <2>2, <2>3, LaterPlace
<1>4. CASE CheckCard(s) /\ ~Finish(s)
  <2> DEFINE a == [q EXCEPT !.pc = "max_uid"]
             b == [q EXCEPT !.pc = "commit", !.mem[q.user] = UpdatedRow(@, q.form)]
  <2>1. (Move(s, a, {}) \/ Move(s, b, {})) /\ q.pc = "check_card"
    BY <1>4 DEF CheckCard, At, Goto
  <2>2. /\ a.queue = q.queue /\ a.pc = "max_uid"
        /\ b.queue = q.queue /\ b.pc = "commit"
    BY <1>0 DEF Request
  <2> HIDE DEF a, b
  <2>3. Place[a.pc] > Place[q.pc] /\ Place[b.pc] > Place[q.pc]
    BY <2>1, <2>2 DEF Place
  <2> QED
    BY <2>1, <2>2, <2>3, LaterPlace
<1>5. CASE AssignUid(s) /\ ~Finish(s)
  <2> DEFINE r == [q EXCEPT !.pc = "commit", !.mem[q.user] = NewRow(NextUid, q.form)]
  <2>1. Move(s, r, {}) /\ q.pc = "max_uid"
    BY <1>5 DEF AssignUid, At, Goto
  <2>2. r.queue = q.queue /\ r.pc = "commit"
    BY <1>0 DEF Request
  <2> HIDE DEF r
  <2>3. Place[r.pc] > Place[q.pc]
    BY <2>1, <2>2 DEF Place
  <2> QED
    BY <2>1, <2>2, <2>3, LaterPlace
<1>6. CASE Commit(s)
  BY <1>1, <1>2, <1>6 DEF Commit
<1> QED
  BY <1>1, <1>3, <1>4, <1>5, <1>6

LEMMA SyncOnward ==
  ASSUME TypeOK, NEW s \in Sessions, SyncNext(s) \/ SyncSave(s) \/ SyncVerify(s) \/ SyncCommit(s)
  PROVE  Onward(s)
<1> DEFINE q == req[s]
           u == q.user
<1>0. q \in Request
  BY DEF TypeOK
<1>1. CASE SyncNext(s)
  <2>1. ASSUME NEW w \in q.queue, Move(s, [q EXCEPT !.pc = "sync_save", !.user = w, !.queue = @ \ {w}], {})
        PROVE  Onward(s)
    <3> DEFINE r == [q EXCEPT !.pc = "sync_save", !.user = w, !.queue = @ \ {w}]
    <3>1. r.queue = q.queue \ {w}
      BY <1>0 DEF Request
    <3> HIDE DEF r
    <3>2. Ahead(q, r)
      BY <3>1 DEF Ahead
    <3>3. Move(s, r, {})
      BY <2>1 DEF r
    <3> QED
      BY <3>2, <3>3, MoveIs DEF Onward
  <2> QED
    BY <1>1, <2>1, FinishOnward DEF SyncNext, Goto
<1>2. CASE SyncSave(s)
  <2> DEFINE a == [q EXCEPT !.pc = "sync_verify"]
             b == [q EXCEPT !.pc = "sync_commit", !.mem[u].sync_status = "failed"]
  <2>1. (Move(s, a, {}) \/ Move(s, b, {})) /\ q.pc = "sync_save"
    BY <1>2 DEF SyncSave, At, Goto
  <2>2. /\ a.queue = q.queue /\ a.pc = "sync_verify"
        /\ b.queue = q.queue /\ b.pc = "sync_commit"
    BY <1>0 DEF Request
  <2> HIDE DEF a, b
  <2>3. Place[a.pc] > Place[q.pc] /\ Place[b.pc] > Place[q.pc]
    BY <2>1, <2>2 DEF Place
  <2> QED
    BY <2>1, <2>2, <2>3, LaterPlace
<1>3. CASE SyncVerify(s)
  <2> DEFINE a == [q EXCEPT !.pc = "sync_commit", !.mem[u] = SyncedRow(@)]
             b == [q EXCEPT !.pc = "sync_commit", !.mem[u].sync_status = "failed"]
  <2>1. (Move(s, a, {}) \/ Move(s, b, {})) /\ q.pc = "sync_verify"
    BY <1>3 DEF SyncVerify, At, Goto
  <2>2. /\ a.queue = q.queue /\ a.pc = "sync_commit"
        /\ b.queue = q.queue /\ b.pc = "sync_commit"
    BY <1>0 DEF Request
  <2> HIDE DEF a, b
  <2>3. Place[a.pc] > Place[q.pc] /\ Place[b.pc] > Place[q.pc]
    BY <2>1, <2>2 DEF Place
  <2> QED
    BY <2>1, <2>2, <2>3, LaterPlace
<1>4. CASE SyncCommit(s)
  <2> DEFINE r == [q EXCEPT !.pc = "sync_next", !.user = None, !.loaded[u] = None, !.mem[u] = None]
  <2>1. PICK written : Move(s, r, written)
    BY <1>4 DEF SyncCommit
  <2>2. r.queue = q.queue /\ r.pc = "sync_next" /\ q.pc = "sync_commit"
    BY <1>0, <1>4 DEF Request, SyncCommit, At
  <2> HIDE DEF r
  <2>3. Place[r.pc] > Place[q.pc]
    BY <2>2 DEF Place
  <2> QED
    BY <2>1, <2>2, <2>3, LaterPlace
<1> QED
  BY <1>1, <1>2, <1>3, <1>4

LEMMA ImportOnward ==
  ASSUME TypeOK, NEW s \in Sessions,
         ImportRead(s) \/ (\E i \in Uids : ImportEntry(s, i)) \/ ImportDone(s)
  PROVE  Onward(s)
<1> DEFINE q == req[s]
<1>0. q \in Request
  BY DEF TypeOK
<1>1. CASE ImportRead(s)
  <2> DEFINE r == [q EXCEPT !.pc = "import", !.loaded = db, !.mem = db]
  <2>1. Move(s, r, {}) /\ q.pc = "import_read"
    BY <1>1 DEF ImportRead, At, Goto
  <2>2. r.queue = q.queue /\ r.pc = "import"
    BY <1>0 DEF Request
  <2> HIDE DEF r
  <2>3. Place[r.pc] > Place[q.pc]
    BY <2>1, <2>2 DEF Place
  <2> QED
    BY <2>1, <2>2, <2>3, LaterPlace
<1>2. ASSUME NEW i \in Uids, ImportEntry(s, i) PROVE Onward(s)
  <2>1. PICK mem : Move(s, [q EXCEPT !.mem = mem, !.todo = @ \ {i}], {})
    BY <1>2 DEF ImportEntry, Goto
  <2> DEFINE r == [q EXCEPT !.mem = mem, !.todo = @ \ {i}]
  <2>2. r.queue = q.queue /\ r.pc = q.pc /\ r.todo = q.todo \ {i} /\ i \in q.todo
    BY <1>0, <1>2 DEF Request, ImportEntry
  <2>3. Move(s, r, {})
    BY <2>1
  <2> HIDE DEF r
  <2>4. Ahead(q, r)
    BY <2>2 DEF Ahead
  <2> QED
    BY <2>3, <2>4, MoveIs DEF Onward
<1>3. CASE ImportDone(s) /\ ~Finish(s)
  <2> DEFINE r == [q EXCEPT !.pc = "commit"]
  <2>1. Move(s, r, {}) /\ q.pc = "import"
    BY <1>3 DEF ImportDone, At, Goto
  <2>2. r.queue = q.queue /\ r.pc = "commit"
    BY <1>0 DEF Request
  <2> HIDE DEF r
  <2>3. Place[r.pc] > Place[q.pc]
    BY <2>1, <2>2 DEF Place
  <2> QED
    BY <2>1, <2>2, <2>3, LaterPlace
<1> QED
  BY <1>1, <1>2, <1>3, FinishOnward

(* No request repeats itself: a user is sent once in a batch, an entry of  *)
(* the device is looked at once, and no handler goes back to an await it   *)
(* has passed for the same user (user.py:59-313).                          *)
THEOREM ForwardAlways == Spec => RequestsGoForward
<1> DEFINE A == \A s \in Sessions :
                  req'[s] # req[s] /\ req[s] # Idle /\ req'[s] # Idle => Ahead(req[s], req'[s])
<1>1. ASSUME TypeOK, Next PROVE A
  <2>1. ASSUME NEW s \in Sessions, Call(s) PROVE A
    <3>1. req[s] = Idle /\ \E r : Move(s, r, {})
      BY <2>1 DEF Call, BeginCreate, BeginUpdate, BeginDelete, BeginList, BeginSync, BeginBatch,
                  BeginImport, Begin, Goto
    <3> QED
      BY <1>1, <3>1, MoveIs
  <2>2. ASSUME NEW s \in Sessions, Step(s) PROVE A
    <3>1. Onward(s)
      BY <1>1, <2>2, ChecksOnward, SyncOnward, ImportOnward DEF Step
    <3> QED
      BY <3>1 DEF Onward
  <2>3. CASE Restart
    BY <2>3 DEF Restart
  <2> QED
    BY <1>1, <2>1, <2>2, <2>3 DEF Next
<1>2. TypeOK /\ [Next]_vars => [A]_vars
  BY <1>1
<1> HIDE DEF A
<1>3. Spec => [][A]_vars
  BY <1>2, TypeCorrect, PTL DEF Spec
<1> QED
  BY <1>3 DEF RequestsGoForward, A
=============================================================================
