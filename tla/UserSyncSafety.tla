--------------------------- MODULE UserSyncSafety ---------------------------
(***************************************************************************)
(* What the statuses `synced` and `synced_disabled` promise about the      *)
(* devices, for every instance of UserSync: the invariant IInv is          *)
(* inductive and implies SyncedMatchesDevice and DisabledIsBlank.          *)
(***************************************************************************)
EXTENDS UserSyncProofs

-----------------------------------------------------------------------------
(* Rows and flushes *)

(* A session that has the current row commits the row it holds in memory,  *)
(* and one that changed nothing commits nothing.                           *)
LEMMA FlushedFresh ==
  ASSUME NEW r \in Row, NEW m \in Row
  PROVE  Flushed(r, r, m) = m /\ Flushed(r, m, m) = r
<1>1. r # None /\ m # None
  BY UserRowsAssumption
<1>2. m = [uid |-> m.uid, name |-> m.name, password |-> m.password, card |-> m.card,
           status |-> m.status, sync_status |-> m.sync_status]
  BY DEF Row
<1>3. r = [uid |-> r.uid, name |-> r.name, password |-> r.password, card |-> r.card,
           status |-> r.status, sync_status |-> r.sync_status]
  BY DEF Row
<1> QED
  BY <1>1, <1>2, <1>3 DEF Flushed, Column

LEMMA ApplyIdempotent ==
  ASSUME NEW r \in Row
  PROVE  ApplySyncedCardState(ApplySyncedCardState(r, FALSE), FALSE)
           = ApplySyncedCardState(r, FALSE)
BY DEF ApplySyncedCardState, Row

LEMMA ApplyKeepsPending ==
  ASSUME NEW r \in Row, IsPending(r)
  PROVE  IsPending(ApplySyncedCardState(r, FALSE))
BY DEF ApplySyncedCardState, Row, IsPending

LEMMA ApplyKeepsTaken ==
  ASSUME NEW r \in Row, NEW u, NEW i, NEW e, TakenFrom(r, u, i, e)
  PROVE  TakenFrom(ApplySyncedCardState(r, FALSE), u, i, e)
BY DEF ApplySyncedCardState, Row, TakenFrom

LEMMA ImportedIsTaken ==
  ASSUME NEW i \in Uids, NEW e \in Entry
  PROVE  TakenFrom(ImportedRow(i, e), e.user_id, i, e)
<1> DEFINE r == [uid |-> i, name |-> e.name, password |-> e.password, card |-> e.card,
                 status |-> "active", sync_status |-> "synced"]
<1>1. e # None
  BY UserRowsAssumption
<1>2. ImportedRow(i, e) = ApplySyncedCardState(r, TRUE)
  BY DEF ImportedRow
<1>3. r.card = NoCard =>
        ApplySyncedCardState(r, TRUE)
          = [r EXCEPT !.password = NoPassword, !.status = "disabled", !.sync_status = "synced_disabled"]
  BY DEF ApplySyncedCardState
<1>4. r.card # NoCard =>
        ApplySyncedCardState(r, TRUE) = [r EXCEPT !.status = "active", !.sync_status = "synced"]
  BY DEF ApplySyncedCardState
<1> QED
  BY <1>1, <1>2, <1>3, <1>4 DEF TakenFrom

LEMMA OverwrittenIsTaken ==
  ASSUME NEW r \in Row, NEW i \in Uids, NEW e \in Entry
  PROVE  TakenFrom(OverwrittenRow(r, i, e), e.user_id, i, e)
<1> DEFINE o == [uid |-> i, name |-> e.name, password |-> e.password, card |-> e.card,
                 status |-> r.status, sync_status |-> r.sync_status]
<1>1. e # None
  BY UserRowsAssumption
<1>2. OverwrittenRow(r, i, e) = ApplySyncedCardState(o, TRUE)
  <2>1. [r EXCEPT !.uid = i, !.name = e.name, !.password = e.password, !.card = e.card] = o
    <3> DEFINE x == [r EXCEPT !.uid = i, !.name = e.name, !.password = e.password, !.card = e.card]
    <3>1. /\ x.uid = i /\ x.name = e.name /\ x.password = e.password /\ x.card = e.card
          /\ x.status = r.status /\ x.sync_status = r.sync_status
      BY DEF Row
    <3>2. x \in Row
      BY DEF Row, Entry
    <3> HIDE DEF x
    <3>3. x = [uid |-> x.uid, name |-> x.name, password |-> x.password, card |-> x.card,
               status |-> x.status, sync_status |-> x.sync_status]
      BY <3>2 DEF Row
    <3>4. x = o
      BY <3>1, <3>3
    <3> QED
      BY <3>4 DEF x
  <2> QED
    BY <2>1 DEF OverwrittenRow
<1>3. o.card = NoCard =>
        ApplySyncedCardState(o, TRUE)
          = [o EXCEPT !.password = NoPassword, !.status = "disabled", !.sync_status = "synced_disabled"]
  BY DEF ApplySyncedCardState
<1>4. o.card # NoCard =>
        ApplySyncedCardState(o, TRUE) = [o EXCEPT !.status = "active", !.sync_status = "synced"]
  BY DEF ApplySyncedCardState
<1> QED
  BY <1>1, <1>2, <1>3, <1>4 DEF TakenFrom

-----------------------------------------------------------------------------
(* The two promises, user by user *)

OnDevice(u, row, devs) == \E d \in Devices : devs[d][row.uid] = FullEntry(u, row)

BlankOnDevice(u, row, devs) ==
  \E d \in Devices : /\ devs[d][row.uid] # None
                     /\ devs[d][row.uid].user_id = u
                     /\ devs[d][row.uid].card = NoCard

(* What the status of a row announces about the devices. *)
Honest(u, row, devs) ==
  row # None =>
    /\ row.sync_status = "synced" => OnDevice(u, row, devs)
    /\ row.sync_status = "synced_disabled" => IsBlank(row) /\ BlankOnDevice(u, row, devs)

AllHonest == \A u \in UserIds \ outdated : Honest(u, db[u], dev)

LEMMA HonestIsBoth == AllHonest <=> SyncedMatchesDevice /\ DisabledIsBlank
BY DEF AllHonest, Honest, OnDevice, BlankOnDevice, SyncedMatchesDevice, DisabledIsBlank

LEMMA PendingIsHonest ==
  ASSUME NEW u, NEW r \in Row, NEW devs, IsPending(r) \/ r.sync_status = "failed"
  PROVE  Honest(u, r, devs)
BY DEF Honest, IsPending

(* The card rule of a listing announces nothing new. *)
LEMMA ApplyKeepsHonest ==
  ASSUME NEW u \in UserIds, NEW r \in Row, NEW devs, Honest(u, r, devs)
  PROVE  Honest(u, ApplySyncedCardState(r, FALSE), devs)
<1> DEFINE m == ApplySyncedCardState(r, FALSE)
<1>0. r # None
  BY UserRowsAssumption
<1>1. ASSUME r.card = NoCard PROVE Honest(u, m, devs)
  <2>1. /\ m.uid = r.uid /\ m.card = NoCard /\ m.password = NoPassword
        /\ m.sync_status = IF r.sync_status = "synced" THEN "synced_disabled" ELSE r.sync_status
    BY <1>1 DEF ApplySyncedCardState, Row
  <2>2. CASE r.sync_status = "synced"
    <3>1. PICK d \in Devices : devs[d][r.uid] = FullEntry(u, r)
      BY <1>0, <2>2 DEF Honest, OnDevice
    <3>2. /\ FullEntry(u, r) # None /\ FullEntry(u, r).user_id = u
          /\ FullEntry(u, r).card = NoCard
      BY <1>1, EntryTypes, UserRowsAssumption DEF FullEntry
    <3>3. BlankOnDevice(u, m, devs)
      BY <2>1, <3>1, <3>2 DEF BlankOnDevice
    <3>4. m.sync_status = "synced_disabled" /\ IsBlank(m)
      BY <2>1, <2>2 DEF IsBlank
    <3> HIDE DEF m
    <3> QED
      BY <3>3, <3>4 DEF Honest
  <2>3. CASE r.sync_status # "synced"
    <3> HIDE DEF m
    <3> QED
      BY <1>0, <2>1, <2>3 DEF Honest, BlankOnDevice, IsBlank
  <2> QED
    BY <2>2, <2>3
<1>2. ASSUME r.card # NoCard PROVE Honest(u, m, devs)
  <2>1. r.sync_status # "synced_disabled"
    BY <1>0, <1>2 DEF Honest, IsBlank
  <2>2. /\ m.uid = r.uid /\ m.sync_status = r.sync_status
        /\ FullEntry(u, m) = FullEntry(u, r)
    BY <1>2, <2>1 DEF ApplySyncedCardState, Row, FullEntry
  <2> HIDE DEF m
  <2> QED
    BY <1>0, <2>1, <2>2 DEF Honest, OnDevice
<1> QED
  BY <1>1, <1>2

(* A row taken from what a device holds announces what that device holds. *)
LEMMA TakenIsHonest ==
  ASSUME NEW u \in UserIds, NEW r \in Row, NEW i \in Uids, NEW d \in Devices,
         NEW devs \in [Devices -> [Uids -> Entry \cup {None}]],
         TakenFrom(r, u, i, devs[d][i])
  PROVE  Honest(u, r, devs)
<1> DEFINE e == devs[d][i]
<1>1. e \in Entry /\ e.user_id = u /\ r.uid = i /\ r.name = e.name /\ r.card = e.card
  BY DEF TakenFrom
<1>2. CASE r.card = NoCard
  <2>1. r.password = NoPassword /\ r.sync_status = "synced_disabled"
    BY <1>2 DEF TakenFrom
  <2>2. devs[d][r.uid] # None /\ devs[d][r.uid].user_id = u /\ devs[d][r.uid].card = NoCard
    BY <1>1, <1>2, UserRowsAssumption
  <2> QED
    BY <1>2, <2>1, <2>2 DEF Honest, IsBlank, BlankOnDevice
<1>3. CASE r.card # NoCard
  <2>1. r.password = e.password /\ r.sync_status = "synced"
    BY <1>3 DEF TakenFrom
  <2>2. e = [user_id |-> e.user_id, name |-> e.name, password |-> e.password, card |-> e.card]
    BY <1>1 DEF Entry
  <2>3. e = FullEntry(u, r)
    BY <1>1, <2>1, <2>2 DEF FullEntry
  <2> QED
    BY <1>1, <2>1, <2>3 DEF Honest, OnDevice
<1> QED
  BY <1>2, <1>3

-----------------------------------------------------------------------------
(* Steps *)

(* Being behind on more rows, or more outdated ones, asks less of a        *)
(* synchronisation.                                                        *)
LEMMA SyncOKWeakens ==
  ASSUME NEW q, NEW b, NEW c, NEW out, NEW more, NEW devs,
         SyncOK(q, b, out, devs),
         q.pc \in {"sync_verify", "sync_commit"} /\ q.user \in b => q.user \in c,
         out \subseteq more
  PROVE  SyncOK(q, c, more, devs)
BY DEF SyncOK

(* A step that touches neither the table nor a device, and leaves its      *)
(* session with a sound request, keeps the invariant.                      *)
LEMMA LocalKeeps ==
  ASSUME IInv, TRInv', NEW s \in Sessions, NEW r, Goto(s, r),
         UNCHANGED <<db, dev, outdated>>,
         \A u \in UserIds : r.loaded[u] # None /\ u \notin behind[s] => r.loaded[u] = db[u],
         r.op \notin {"sync", "batch"} => \A u \in UserIds : Justified(r, u),
         SyncOK(r, behind[s], outdated, dev)
  PROVE  IInv'
<1>1. /\ req'[s] = r
      /\ behind'[s] = {u \in behind[s] : r.loaded[u] # None}
      /\ \A t \in Sessions \ {s} : req'[t] = req[t] /\ behind'[t] = behind[t]
  BY DEF IInv, TypeOK, Goto, Move
<1>2. Fresh'
  <2>1. ASSUME NEW t \in Sessions, NEW u \in UserIds,
               req'[t].loaded[u] # None, u \notin behind'[t]
        PROVE  req'[t].loaded[u] = db[u]
    <3>1. CASE t = s
      BY <1>1, <2>1, <3>1
    <3>2. CASE t # s
      BY <1>1, <2>1, <3>2 DEF IInv, Fresh
    <3> QED
      BY <3>1, <3>2
  <2> QED
    BY <2>1 DEF Fresh
<1>3. WritesJustified'
  BY <1>1 DEF IInv, WritesJustified
<1>4. SyncsOK'
  <2>1. RequestOK(r, db') /\ r \in Request
    BY <1>1 DEF TRInv, TypeOK, RequestsOK
  <2>2. r.pc \in {"sync_verify", "sync_commit"} /\ r.user \in behind[s] => r.user \in behind'[s]
    BY <1>1, <2>1 DEF RequestOK, Request
  <2>3. SyncOK(r, behind'[s], outdated, dev)
    BY <2>2, SyncOKWeakens
  <2> QED
    BY <1>1, <2>3 DEF IInv, SyncsOK
<1>5. UniqueUids(db)' /\ SyncedMatchesDevice' /\ DisabledIsBlank'
  BY DEF IInv, UniqueUids, SyncedMatchesDevice, DisabledIsBlank
<1> QED
  BY <1>2, <1>3, <1>4, <1>5 DEF IInv, TRInv

LEMMA IdleKeeps ==
  ASSUME IInv, TRInv', NEW s \in Sessions, Finish(s), UNCHANGED <<db, dev, outdated>>
  PROVE  IInv'
<1>1. /\ \A u \in UserIds : Idle.loaded[u] = None /\ Idle.mem[u] = None
      /\ Idle.pc = "idle"
  BY DEF Idle, NoRows
<1>2. \A u \in UserIds : Justified(Idle, u)
  BY <1>1 DEF Justified
<1>3. SyncOK(Idle, behind[s], outdated, dev)
  BY <1>1 DEF SyncOK
<1> QED
  BY <1>1, <1>2, <1>3, LocalKeeps DEF Finish

(* Every request begins with rows just loaded and with writes that ask for *)
(* a synchronisation or apply the card rule.                               *)
LEMMA CallKeeps ==
  ASSUME IInv, TRInv', NEW s \in Sessions, Call(s)
  PROVE  IInv'
<1>1. SUFFICES ASSUME NEW r, Goto(s, r), UNCHANGED <<db, dev, outdated>>,
                      r.pc \notin {"sync_save", "sync_verify", "sync_commit"},
                      \A u \in UserIds : r.loaded[u] # None => r.loaded[u] = db[u],
                      r.op \notin {"sync", "batch"} => \A u \in UserIds : Justified(r, u)
               PROVE  IInv'
  <2>1. ASSUME NEW u \in UserIds, NEW form \in Forms, BeginCreate(s, u, form) PROVE IInv'
    <3> DEFINE r == [Idle EXCEPT !.pc = "check_name", !.op = "create", !.user = u, !.form = form]
    <3>1. Goto(s, r) /\ UNCHANGED <<db, dev, outdated>>
      BY <2>1 DEF BeginCreate, Begin
    <3>2. r.pc = "check_name" /\ r.loaded = NoRows /\ r.mem = NoRows
      BY DEF Idle
    <3> HIDE DEF r
    <3>3. \A w \in UserIds : Justified(r, w) /\ (r.loaded[w] # None => r.loaded[w] = db[w])
      BY <3>2 DEF NoRows, Justified
    <3> QED
      BY <1>1, <3>1, <3>2, <3>3
  <2>2. ASSUME NEW u \in UserIds, NEW form \in Forms, BeginUpdate(s, u, form) PROVE IInv'
    <3> DEFINE r == [Idle EXCEPT !.pc = "check_name", !.op = "update", !.user = u, !.form = form,
                                 !.loaded[u] = db[u], !.mem[u] = db[u]]
    <3>1. Goto(s, r) /\ UNCHANGED <<db, dev, outdated>>
      BY <2>2 DEF BeginUpdate, Begin
    <3>2. r.pc = "check_name" /\ r.loaded = [NoRows EXCEPT ![u] = db[u]] /\ r.mem = r.loaded
      BY DEF Idle
    <3> HIDE DEF r
    <3>3. \A w \in UserIds : Justified(r, w) /\ (r.loaded[w] # None => r.loaded[w] = db[w])
      BY <3>2 DEF NoRows, Justified
    <3> QED
      BY <1>1, <3>1, <3>2, <3>3
  <2>3. ASSUME NEW u \in UserIds, BeginDelete(s, u) PROVE IInv'
    <3> DEFINE m == DismissedRow(db[u])
               r == [Idle EXCEPT !.pc = "commit", !.op = "delete", !.user = u,
                                 !.loaded[u] = db[u], !.mem[u] = m]
    <3>0. IsPending(m)
      <4>1. db[u] \in Row
        BY <2>3 DEF IInv, TypeOK, BeginDelete
      <4> QED
        BY <4>1 DEF IsPending, DismissedRow, Row
    <3>1. Goto(s, r) /\ UNCHANGED <<db, dev, outdated>>
      BY <2>3 DEF BeginDelete, Begin
    <3> HIDE DEF m
    <3>2. /\ r.pc = "commit" /\ r.loaded = [NoRows EXCEPT ![u] = db[u]]
          /\ r.mem = [NoRows EXCEPT ![u] = m]
      BY DEF Idle
    <3> HIDE DEF r
    <3>3. \A w \in UserIds : Justified(r, w) /\ (r.loaded[w] # None => r.loaded[w] = db[w])
      BY <3>0, <3>2 DEF NoRows, Justified
    <3> QED
      BY <1>1, <3>1, <3>2, <3>3
  <2>4. ASSUME NEW page \in SUBSET UserIds, BeginList(s, page) PROVE IInv'
    <3> DEFINE shown == [w \in UserIds |->
                           IF db[w] = None THEN None ELSE ApplySyncedCardState(db[w], FALSE)]
               r == [Idle EXCEPT !.pc = "commit", !.op = "list",
                                 !.loaded = Page(db, page), !.mem = Page(shown, page)]
    <3>1. Goto(s, r) /\ UNCHANGED <<db, dev, outdated>>
      BY <2>4 DEF BeginList, Begin
    <3>2. r.pc = "commit" /\ r.loaded = Page(db, page) /\ r.mem = Page(shown, page)
      BY DEF Idle
    <3> HIDE DEF r
    <3>3. \A w \in UserIds : r.loaded[w] # None => r.loaded[w] = db[w]
      BY <3>2 DEF Page
    <3>4. ASSUME NEW w \in UserIds PROVE Justified(r, w)
      BY <3>2 DEF Page, Justified
    <3> QED
      BY <1>1, <3>1, <3>2, <3>3, <3>4
  <2>5. ASSUME NEW u \in UserIds, NEW d \in Devices, BeginSync(s, u, d) PROVE IInv'
    <3> DEFINE r == [Idle EXCEPT !.pc = "sync_next", !.op = "sync", !.device = d,
                                 !.queue = {u}, !.loaded[u] = db[u], !.mem[u] = db[u]]
    <3>1. Goto(s, r) /\ UNCHANGED <<db, dev, outdated>>
      BY <2>5 DEF BeginSync, Begin
    <3>2. r.pc = "sync_next" /\ r.op = "sync" /\ r.loaded = [NoRows EXCEPT ![u] = db[u]]
      BY DEF Idle
    <3> HIDE DEF r
    <3> QED
      BY <1>1, <3>1, <3>2 DEF NoRows
  <2>6. ASSUME NEW d \in Devices, BeginBatch(s, d) PROVE IInv'
    <3> DEFINE pending == {w \in UserIds : db[w] # None /\ IsPending(db[w])}
               r == [Idle EXCEPT !.pc = "sync_next", !.op = "batch", !.device = d,
                                 !.queue = pending,
                                 !.loaded = Page(db, pending), !.mem = Page(db, pending)]
    <3>1. Goto(s, r) /\ UNCHANGED <<db, dev, outdated>>
      BY <2>6 DEF BeginBatch, Begin
    <3>2. r.pc = "sync_next" /\ r.op = "batch" /\ r.loaded = Page(db, pending)
      BY DEF Idle
    <3> HIDE DEF r
    <3> QED
      BY <1>1, <3>1, <3>2 DEF Page
  <2>7. ASSUME NEW mode \in ImportModes, NEW d \in Devices, BeginImport(s, mode, d) PROVE IInv'
    <3> DEFINE r == [Idle EXCEPT !.pc = "import_read", !.op = mode, !.device = d,
                                 !.snapshot = dev[d], !.todo = {i \in Uids : dev[d][i] # None}]
    <3>1. Goto(s, r) /\ UNCHANGED <<db, dev, outdated>>
      BY <2>7 DEF BeginImport, Begin
    <3>2. r.pc = "import_read" /\ r.loaded = NoRows /\ r.mem = NoRows
      BY DEF Idle
    <3> HIDE DEF r
    <3>3. \A w \in UserIds : Justified(r, w) /\ (r.loaded[w] # None => r.loaded[w] = db[w])
      BY <3>2 DEF NoRows, Justified
    <3> QED
      BY <1>1, <3>1, <3>2, <3>3
  <2> QED
    BY <2>1, <2>2, <2>3, <2>4, <2>5, <2>6, <2>7 DEF Call
<1>2. SyncOK(r, behind[s], outdated, dev)
  BY <1>1 DEF SyncOK
<1> QED
  BY <1>1, <1>2, LocalKeeps

(* What the invariant says of a session that is about to step. *)
LEMMA Holds ==
  ASSUME IInv, NEW s \in Sessions
  PROVE  /\ req[s] \in Request /\ RequestOK(req[s], db)
         /\ db \in [UserIds -> Row \cup {None}]
         /\ \A u \in UserIds : req[s].loaded[u] # None /\ u \notin behind[s]
                             => req[s].loaded[u] = db[u]
         /\ req[s].op \notin {"sync", "batch"} => \A u \in UserIds : Justified(req[s], u)
         /\ SyncOK(req[s], behind[s], outdated, dev)
BY DEF IInv, TypeOK, RequestsOK, Fresh, WritesJustified, SyncsOK

(* A create or update puts a pending row in memory. *)
LEMMA UniqueCheckKeeps ==
  ASSUME IInv, TRInv', NEW s \in Sessions, CheckName(s) \/ CheckCard(s) \/ AssignUid(s)
  PROVE  IInv'
<1> DEFINE q == req[s]
<1>0. /\ q \in Request /\ RequestOK(q, db)
      /\ \A u \in UserIds : q.loaded[u] # None /\ u \notin behind[s] => q.loaded[u] = db[u]
      /\ q.op \notin {"sync", "batch"} => \A u \in UserIds : Justified(q, u)
      /\ UNCHANGED <<db, dev, outdated>>
      /\ q.pc \in {"check_name", "check_card", "max_uid"}
  BY Holds DEF CheckName, CheckCard, AssignUid, At
<1>1. q.user \in UserIds /\ q.form \in Form /\ q.op \in {"create", "update"}
  BY <1>0 DEF Request, RequestOK
<1>2. CASE Finish(s)
  BY <1>0, <1>2, IdleKeeps
<1>3. ASSUME NEW pc \in {"check_card", "max_uid"}, Goto(s, [q EXCEPT !.pc = pc])
      PROVE  IInv'
  <2> DEFINE r == [q EXCEPT !.pc = pc]
  <2>1. r.loaded = q.loaded /\ r.mem = q.mem /\ r.pc = pc /\ r.op = q.op
        /\ r.snapshot = q.snapshot
    BY <1>0 DEF Request
  <2>2. Goto(s, r)
    BY <1>3
  <2> HIDE DEF r, q
  <2>3. \A u \in UserIds : Justified(r, u)
    BY <1>0, <1>1, <2>1 DEF Justified
  <2>4. SyncOK(r, behind[s], outdated, dev)
    BY <1>3, <2>1 DEF SyncOK
  <2> QED
    BY <1>0, <2>1, <2>2, <2>3, <2>4, LocalKeeps
<1>4. ASSUME NEW row \in Row, IsPending(row),
             Goto(s, [q EXCEPT !.pc = "commit", !.mem[q.user] = row])
      PROVE  IInv'
  <2> DEFINE r == [q EXCEPT !.pc = "commit", !.mem[q.user] = row]
  <2>1. r.loaded = q.loaded /\ r.mem = [q.mem EXCEPT ![q.user] = row] /\ r.pc = "commit"
        /\ r.op = q.op /\ r.snapshot = q.snapshot /\ q.mem \in [UserIds -> Row \cup {None}]
    BY <1>0 DEF Request
  <2>2. Goto(s, r)
    BY <1>4
  <2> HIDE DEF r, q
  <2>3. ASSUME NEW u \in UserIds PROVE Justified(r, u)
    BY <1>0, <1>1, <1>4, <2>1 DEF Justified
  <2>4. SyncOK(r, behind[s], outdated, dev)
    BY <2>1 DEF SyncOK
  <2> QED
    BY <1>0, <2>1, <2>2, <2>3, <2>4, LocalKeeps
<1>5. CASE CheckName(s)
  BY <1>2, <1>3, <1>5 DEF CheckName
<1>6. CASE CheckCard(s)
  <2>1. \/ Finish(s)
        \/ Goto(s, [q EXCEPT !.pc = "max_uid"])
        \/ q.op = "update" /\ Goto(s, [q EXCEPT !.pc = "commit",
                                       !.mem[q.user] = UpdatedRow(q.mem[q.user], q.form)])
    BY <1>1, <1>6 DEF CheckCard
  <2>2. ASSUME q.op = "update"
        PROVE  /\ UpdatedRow(q.mem[q.user], q.form) \in Row
               /\ IsPending(UpdatedRow(q.mem[q.user], q.form))
    <3>1. q.mem[q.user] \in Row
      BY <1>0, <1>1, <2>2 DEF Request, RequestOK
    <3> QED
      BY <1>1, <3>1, UpdatedRowType DEF UpdatedRow, Row, IsPending
  <2> HIDE DEF q
  <2> QED
    BY <1>2, <1>3, <1>4, <2>1, <2>2
<1>7. CASE AssignUid(s)
  <2>1. \/ Finish(s)
        \/ NextUid \in Uids /\ Goto(s, [q EXCEPT !.pc = "commit",
                                              !.mem[q.user] = NewRow(NextUid, q.form)])
    BY <1>7 DEF AssignUid
  <2>2. ASSUME NextUid \in Uids
        PROVE  NewRow(NextUid, q.form) \in Row /\ IsPending(NewRow(NextUid, q.form))
    BY <1>1, <2>2, NewRowType DEF NewRow, IsPending
  <2> HIDE DEF q
  <2> QED
    BY <1>2, <1>4, <2>1, <2>2
<1> QED
  BY <1>5, <1>6, <1>7

LEMMA SyncNextKeeps ==
  ASSUME IInv, TRInv', NEW s \in Sessions, SyncNext(s)
  PROVE  IInv'
<1> DEFINE q == req[s]
<1>0. /\ q \in Request /\ RequestOK(q, db)
      /\ \A u \in UserIds : q.loaded[u] # None /\ u \notin behind[s] => q.loaded[u] = db[u]
      /\ UNCHANGED <<db, dev, outdated>> /\ q.pc = "sync_next"
  BY Holds DEF SyncNext, At
<1>1. CASE Finish(s)
  BY <1>0, <1>1, IdleKeeps
<1>2. ASSUME NEW u \in q.queue,
             Goto(s, [q EXCEPT !.pc = "sync_save", !.user = u, !.queue = @ \ {u}])
      PROVE  IInv'
  <2> DEFINE r == [q EXCEPT !.pc = "sync_save", !.user = u, !.queue = @ \ {u}]
  <2>1. /\ r.loaded = q.loaded /\ r.mem = q.mem /\ r.pc = "sync_save" /\ r.user = u
        /\ r.op = q.op
    BY <1>0 DEF Request
  <2>2. q.mem[u] = q.loaded[u] /\ IsPending(q.mem[u]) /\ q.op \in {"sync", "batch"}
    BY <1>0 DEF RequestOK
  <2>3. Goto(s, r)
    BY <1>2
  <2> HIDE DEF r, q
  <2>4. SyncOK(r, behind[s], outdated, dev)
    BY <2>1, <2>2 DEF SyncOK
  <2> QED
    BY <1>0, <2>1, <2>2, <2>3, <2>4, LocalKeeps
<1> QED
  BY <1>1, <1>2 DEF SyncNext

(* The read-back announces what was saved, or a failure. *)
LEMMA SyncVerifyKeeps ==
  ASSUME IInv, TRInv', NEW s \in Sessions, SyncVerify(s)
  PROVE  IInv'
<1> DEFINE q == req[s]
           u == q.user
<1>0. /\ q \in Request /\ RequestOK(q, db)
      /\ \A w \in UserIds : q.loaded[w] # None /\ w \notin behind[s] => q.loaded[w] = db[w]
      /\ UNCHANGED <<db, dev, outdated>> /\ q.pc = "sync_verify"
      /\ SyncOK(q, behind[s], outdated, dev)
  BY Holds DEF SyncVerify, At
<1>1. q.op \in {"sync", "batch"} /\ u \in UserIds /\ q.mem[u] = q.loaded[u]
  BY <1>0 DEF RequestOK, SyncOK, Request
<1>2. ASSUME NEW row, Goto(s, [q EXCEPT !.pc = "sync_commit", !.mem[u] = row]),
             row \in {SyncedRow(q.mem[u]), [q.mem[u] EXCEPT !.sync_status = "failed"]}
      PROVE  IInv'
  <2> DEFINE r == [q EXCEPT !.pc = "sync_commit", !.mem[u] = row]
  <2>1. /\ r.loaded = q.loaded /\ r.mem[u] = row /\ r.pc = "sync_commit" /\ r.user = u
        /\ r.op = q.op /\ r.device = q.device
    BY <1>0, <1>1 DEF Request
  <2>2. Goto(s, r)
    BY <1>2
  <2> HIDE DEF r
  <2>3. SyncOK(r, behind[s], outdated, dev)
    BY <1>0, <1>1, <1>2, <2>1 DEF SyncOK
  <2> QED
    BY <1>0, <1>1, <2>1, <2>2, <2>3, LocalKeeps
<1> QED
  <2>1. \/ Goto(s, [q EXCEPT !.pc = "sync_commit", !.mem[u] = SyncedRow(q.mem[u])])
        \/ Goto(s, [q EXCEPT !.pc = "sync_commit",
                             !.mem[u] = [q.mem[u] EXCEPT !.sync_status = "failed"]])
    BY DEF SyncVerify
  <2> HIDE DEF q, u
  <2> QED
    BY <1>2, <2>1

-----------------------------------------------------------------------------
(* The import *)

(* Serialising a row for the answer keeps what it says justified. *)
LEMMA ApplyKeepsJustified ==
  ASSUME NEW q \in Request, NEW u \in UserIds, q.mem[u] # None, Justified(q, u),
         NEW r, r.loaded = q.loaded, r.op = q.op, r.snapshot = q.snapshot,
         r.mem[u] = ApplySyncedCardState(q.mem[u], FALSE)
  PROVE  Justified(r, u)
<1>1. q.mem[u] \in Row
  BY DEF Request
<1>2. CASE q.mem[u] = q.loaded[u]
  BY <1>2 DEF Justified
<1>3. CASE q.loaded[u] # None /\ q.mem[u] = ApplySyncedCardState(q.loaded[u], FALSE)
  <2>1. q.loaded[u] \in Row
    BY <1>3 DEF Request
  <2>2. r.mem[u] = ApplySyncedCardState(q.loaded[u], FALSE)
    BY <1>3, <2>1, ApplyIdempotent
  <2> QED
    BY <1>3, <2>2 DEF Justified
<1>4. CASE IsPending(q.mem[u])
  BY <1>1, <1>4, ApplyKeepsPending DEF Justified
<1>5. CASE q.op \in ImportModes /\ \E i \in Uids : TakenFrom(q.mem[u], u, i, q.snapshot[i])
  BY <1>1, <1>5, ApplyKeepsTaken DEF Justified
<1> QED
  BY <1>2, <1>3, <1>4, <1>5 DEF Justified

LEMMA ImportEntryKeeps ==
  ASSUME IInv, TRInv', NEW s \in Sessions, NEW i \in Uids, ImportEntry(s, i)
  PROVE  IInv'
<1> DEFINE q == req[s]
           e == q.snapshot[i]
           u == e.user_id
           r == q.mem[u]
           next(mem) == [q EXCEPT !.mem = mem, !.todo = @ \ {i}]
           m1 == [w \in UserIds |-> IF w \in UidOwners(q, i)
                                    THEN ApplySyncedCardState(q.mem[w], FALSE) ELSE q.mem[w]]
           m2 == [q.mem EXCEPT ![u] = ImportedRow(i, e)]
           shown == ApplySyncedCardState(r, FALSE)
           m3 == [q.mem EXCEPT ![u] = IF q.op = "overwrite_local"
                                      THEN OverwrittenRow(shown, i, e) ELSE shown]
<1>0. /\ q \in Request /\ RequestOK(q, db) /\ q.pc = "import" /\ i \in q.todo
      /\ \A w \in UserIds : q.loaded[w] # None /\ w \notin behind[s] => q.loaded[w] = db[w]
      /\ q.op \notin {"sync", "batch"} => \A w \in UserIds : Justified(q, w)
      /\ UNCHANGED <<db, dev, outdated>>
  BY Holds DEF ImportEntry, At
<1>1. /\ e \in Entry /\ u \in UserIds /\ q.op \in ImportModes
      /\ q.mem \in [UserIds -> Row \cup {None}]
      /\ \A w \in UserIds : Justified(q, w)
  <2>1. e \in Entry /\ q.op \in ImportModes
    BY <1>0 DEF Request, RequestOK
  <2>2. u \in UserIds
    BY <2>1 DEF Entry
  <2>3. q.op \notin {"sync", "batch"}
    BY <2>1 DEF ImportModes
  <2> HIDE DEF e, u
  <2> QED
    BY <1>0, <2>1, <2>2, <2>3 DEF Request
<1>2. ASSUME NEW mem, Goto(s, next(mem)),
             \A w \in UserIds : Justified(next(mem), w)
      PROVE  IInv'
  <2>1. next(mem).loaded = q.loaded /\ next(mem).pc = "import"
    BY <1>0 DEF Request
  <2> DEFINE n == next(mem)
  <2> HIDE DEF n
  <2>2. n.loaded = q.loaded /\ n.pc = "import" /\ Goto(s, n) /\ \A w \in UserIds : Justified(n, w)
    BY <1>2, <2>1 DEF n
  <2>3. SyncOK(n, behind[s], outdated, dev)
    BY <2>2 DEF SyncOK
  <2> HIDE DEF q
  <2> QED
    BY <1>0, <2>2, <2>3, LocalKeeps
<1>3. ASSUME NEW mem
      PROVE  /\ next(mem).loaded = q.loaded /\ next(mem).op = q.op
             /\ next(mem).snapshot = q.snapshot /\ next(mem).mem = mem
  BY <1>0 DEF Request
<1> HIDE DEF next
<1>4. ASSUME NEW mem, NEW w \in UserIds, mem[w] = q.mem[w]
      PROVE  Justified(next(mem), w)
  BY <1>1, <1>3, <1>4 DEF Justified
<1>5. ASSUME NEW mem, NEW w \in UserIds, q.mem[w] # None,
             mem[w] = ApplySyncedCardState(q.mem[w], FALSE)
      PROVE  Justified(next(mem), w)
  <2> DEFINE n == next(mem)
  <2>1. /\ n.loaded = q.loaded /\ n.op = q.op /\ n.snapshot = q.snapshot
        /\ n.mem[w] = ApplySyncedCardState(q.mem[w], FALSE)
    BY <1>3, <1>5
  <2> HIDE DEF n, q
  <2>2. q \in Request /\ q.mem[w] # None /\ Justified(q, w)
    BY <1>0, <1>1, <1>5
  <2>3. Justified(n, w)
    BY ONLY <2>1, <2>2, w \in UserIds, ApplyKeepsJustified
  <2> QED
    BY <2>3 DEF n
<1>6. ASSUME NEW mem, TakenFrom(mem[u], u, i, e)
      PROVE  Justified(next(mem), u)
  BY <1>1, <1>3, <1>6 DEF Justified
<1> HIDE DEF q
<1>7. CASE Goto(s, next(m1))
  <2>1. ASSUME NEW w \in UserIds PROVE Justified(next(m1), w)
    <3>1. CASE w \in UidOwners(q, i)
      <4>1. q.mem[w] # None /\ m1[w] = ApplySyncedCardState(q.mem[w], FALSE)
        BY <3>1 DEF UidOwners
      <4> HIDE DEF m1
      <4> QED
        BY <4>1, <1>5
    <3>2. CASE w \notin UidOwners(q, i)
      <4>1. m1[w] = q.mem[w]
        BY <3>2
      <4> HIDE DEF m1
      <4> QED
        BY <4>1, <1>4
    <3> QED
      BY <3>1, <3>2
  <2> HIDE DEF m1
  <2> QED
    BY <1>2, <1>7, <2>1
<1>8. CASE Goto(s, next(m2))
  <2>1. TakenFrom(m2[u], u, i, e)
    <3>1. m2[u] = ImportedRow(i, e)
      BY <1>1
    <3> HIDE DEF m2
    <3> QED
      BY <1>1, <3>1, ImportedIsTaken
  <2>2. \A w \in UserIds : w # u => m2[w] = q.mem[w]
    BY <1>1
  <2> HIDE DEF m2, u, e
  <2>3. \A w \in UserIds : Justified(next(m2), w)
    BY <1>4, <1>6, <2>1, <2>2
  <2> QED
    BY <1>2, <1>8, <2>3
<1>9. CASE Goto(s, next(q.mem))
  <2>1. \A w \in UserIds : Justified(next(q.mem), w)
    BY <1>4
  <2> QED
    BY <1>2, <1>9, <2>1
<1>10. CASE r # None /\ Goto(s, next(m3))
  <2>1. shown \in Row
    BY <1>1, <1>10, ApplyType
  <2>2. \A w \in UserIds : w # u => m3[w] = q.mem[w]
    BY <1>1
  <2>3. Justified(next(m3), u)
    <3>1. CASE q.op = "overwrite_local"
      <4>1. m3[u] = OverwrittenRow(shown, i, e)
        BY <1>1, <3>1
      <4> HIDE DEF m3, shown
      <4>2. TakenFrom(m3[u], u, i, e)
        BY <1>1, <2>1, <4>1, OverwrittenIsTaken
      <4> QED
        BY <1>6, <4>2
    <3>2. CASE q.op # "overwrite_local"
      <4>1. m3[u] = ApplySyncedCardState(q.mem[u], FALSE)
        BY <1>1, <3>2
      <4> HIDE DEF m3
      <4> QED
        BY <1>1, <1>5, <1>10, <4>1
    <3> QED
      BY <3>1, <3>2
  <2> HIDE DEF m3, u, e
  <2>4. \A w \in UserIds : Justified(next(m3), w)
    BY <1>4, <2>2, <2>3
  <2> QED
    BY <1>2, <1>10, <2>4
<1> QED
  <2>1. \/ Goto(s, next(m1))
        \/ Goto(s, next(IF q.op = "preview" THEN q.mem ELSE m2))
        \/ Goto(s, next(q.mem))
        \/ r # None /\ Goto(s, next(m3))
    BY DEF ImportEntry, next, q
  <2> HIDE DEF m1, m2, m3, r
  <2> QED
    BY <1>7, <1>8, <1>9, <1>10, <2>1

LEMMA ImportEdgesKeep ==
  ASSUME IInv, TRInv', NEW s \in Sessions, ImportRead(s) \/ ImportDone(s)
  PROVE  IInv'
<1> DEFINE q == req[s]
           a == [q EXCEPT !.pc = "import", !.loaded = db, !.mem = db]
           b == [q EXCEPT !.pc = "commit"]
<1>0. /\ q \in Request /\ RequestOK(q, db)
      /\ \A w \in UserIds : q.loaded[w] # None /\ w \notin behind[s] => q.loaded[w] = db[w]
      /\ q.op \notin {"sync", "batch"} => \A w \in UserIds : Justified(q, w)
      /\ UNCHANGED <<db, dev, outdated>> /\ q.pc \in {"import_read", "import"}
  BY Holds DEF ImportRead, ImportDone, At
<1>1. q.op \notin {"sync", "batch"}
  BY <1>0 DEF RequestOK, ImportModes
<1>2. CASE Goto(s, a)
  <2>1. a.loaded = db /\ a.mem = db /\ a.pc = "import"
    BY <1>0 DEF Request
  <2> HIDE DEF a
  <2>2. \A w \in UserIds : Justified(a, w)
    BY <2>1 DEF Justified
  <2>3. SyncOK(a, behind[s], outdated, dev)
    BY <2>1 DEF SyncOK
  <2> QED
    BY <1>0, <1>2, <2>1, <2>2, <2>3, LocalKeeps
<1>3. CASE Goto(s, b)
  <2>1. b.loaded = q.loaded /\ b.mem = q.mem /\ b.pc = "commit" /\ b.op = q.op
        /\ b.snapshot = q.snapshot
    BY <1>0 DEF Request
  <2> HIDE DEF b, q
  <2>2. \A w \in UserIds : Justified(b, w)
    BY <1>0, <1>1, <2>1 DEF Justified
  <2>3. SyncOK(b, behind[s], outdated, dev)
    BY <2>1 DEF SyncOK
  <2> QED
    BY <1>0, <1>3, <2>1, <2>2, <2>3, LocalKeeps
<1>4. CASE Finish(s)
  BY <1>0, <1>4, IdleKeeps
<1> QED
  BY <1>2, <1>3, <1>4 DEF ImportRead, ImportDone

-----------------------------------------------------------------------------
(* Steps that write the table or a device *)

(* After a step that writes the rows `written` of the table and no device, *)
(* the other requests are as sound as before.                              *)
LEMMA OthersKeep ==
  ASSUME IInv, NEW s \in Sessions, NEW r, NEW written \in SUBSET UserIds, Move(s, r, written),
         \A u \in UserIds \ written : db'[u] = db[u],
         \A u \in UserIds : r.loaded[u] # None /\ u \notin behind[s]
                              => u \notin written /\ r.loaded[u] = db[u],
         r.op \notin {"sync", "batch"} => \A u \in UserIds : Justified(r, u)
  PROVE  Fresh' /\ WritesJustified'
<1>1. /\ req'[s] = r
      /\ behind'[s] = {u \in behind[s] : r.loaded[u] # None}
      /\ \A t \in Sessions \ {s} :
            /\ req'[t] = req[t]
            /\ behind'[t] = behind[t] \cup {u \in written : req[t].loaded[u] # None}
  BY DEF IInv, TypeOK, Move
<1>2. Fresh'
  <2>1. ASSUME NEW t \in Sessions, NEW u \in UserIds,
               req'[t].loaded[u] # None, u \notin behind'[t]
        PROVE  req'[t].loaded[u] = db'[u]
    <3>1. CASE t = s
      BY <1>1, <2>1, <3>1
    <3>2. CASE t # s
      <4>1. req[t].loaded[u] # None /\ u \notin behind[t] /\ u \notin written
        BY <1>1, <2>1, <3>2
      <4>2. req[t].loaded[u] = db[u]
        BY <4>1 DEF IInv, Fresh
      <4> QED
        BY <1>1, <3>2, <4>1, <4>2
    <3> QED
      BY <3>1, <3>2
  <2> QED
    BY <2>1 DEF Fresh
<1>3. WritesJustified'
  BY <1>1 DEF IInv, WritesJustified
<1> QED
  BY <1>2, <1>3

(* A commit, of an edit, a listing or an import: what it writes is what    *)
(* the request holds, unless it is overtaken.                              *)
LEMMA CommitKeeps ==
  ASSUME IInv, TRInv', NEW s \in Sessions, Commit(s)
  PROVE  IInv'
<1> DEFINE q == req[s]
           changed == {u \in UserIds : Flush(s)[u] # db[u]}
<1>0. /\ q \in Request /\ RequestOK(q, db) /\ db \in [UserIds -> Row \cup {None}]
      /\ \A u \in UserIds : q.loaded[u] # None /\ u \notin behind[s] => q.loaded[u] = db[u]
      /\ UNCHANGED dev /\ q.pc = "commit"
      /\ q.op \notin {"sync", "batch"} => \A u \in UserIds : Justified(q, u)
  BY Holds DEF Commit, At
<1>1. \A u \in UserIds : Justified(q, u)
  BY <1>0 DEF RequestOK
<1>2. CASE Finish(s) /\ UNCHANGED <<db, outdated>>
  BY <1>0, <1>2, IdleKeeps
<1>3. CASE /\ ~InsertsTwice(s)
           /\ UniqueUids(Flush(s))
           /\ db' = Flush(s)
           /\ outdated' = outdated \cup Overtaken(s)
           /\ Move(s, Idle, changed)
  <2>1. UniqueUids(db)'
    BY <1>3 DEF UniqueUids
  <2>2. Fresh' /\ WritesJustified'
    <3>1. \A u \in UserIds : Idle.loaded[u] = None /\ Idle.mem[u] = None
      BY DEF Idle, NoRows
    <3>2. \A u \in UserIds : Justified(Idle, u)
      BY <3>1 DEF Justified
    <3>3. \A u \in UserIds \ changed : db'[u] = db[u]
      BY <1>3
    <3>4. changed \in SUBSET UserIds
      OBVIOUS
    <3> HIDE DEF changed
    <3> QED
      BY <1>3, <3>1, <3>2, <3>3, <3>4, OthersKeep
  <2>3. SyncsOK'
    <3>1. /\ req'[s] = Idle
          /\ \A t \in Sessions \ {s} : req'[t] = req[t] /\ behind[t] \subseteq behind'[t]
      BY <1>3 DEF IInv, TypeOK, Move
    <3>2. SyncOK(req'[s], behind'[s], outdated', dev')
      BY <3>1 DEF SyncOK, Idle
    <3>3. ASSUME NEW t \in Sessions, t # s
          PROVE  SyncOK(req'[t], behind'[t], outdated', dev')
      <4>1. SyncOK(req[t], behind[t], outdated, dev)
        BY DEF IInv, SyncsOK
      <4>2. SyncOK(req[t], behind'[t], outdated', dev)
        BY <1>3, <3>1, <3>3, <4>1, SyncOKWeakens
      <4> QED
        BY <1>0, <3>1, <3>3, <4>2
    <3> QED
      BY <3>2, <3>3 DEF SyncsOK
  <2>4. AllHonest'
    <3>1. ASSUME NEW u \in UserIds \ outdated'
          PROVE  Honest(u, db'[u], dev)
      <4> DEFINE m == q.mem[u]
                 l == q.loaded[u]
      <4>1. Honest(u, db[u], dev)
        BY <1>3, HonestIsBoth DEF IInv, AllHonest
      <4>2. /\ db'[u] = Flushed(db[u], l, m)
            /\ u \notin Overtaken(s)
            /\ m \in Row \cup {None} /\ l \in Row \cup {None}
            /\ l # None => m # None /\ db[u] \in Row
        BY <1>0, <1>3 DEF Flush, Request, RequestOK
      <4> HIDE DEF m, l
      <4>3. CASE m = l
        <5>1. CASE m = None
          BY <4>1, <4>2, <5>1 DEF Flushed
        <5>2. CASE m # None
          BY <4>1, <4>2, <4>3, <5>2, FlushedFresh
        <5> QED
          BY <5>1, <5>2
      <4>4. CASE m # l
        <5>1. u \notin behind[s] /\ (q.op \in ImportModes => q.snapshot = dev[q.device])
          BY <4>2, <4>4 DEF Overtaken, m, l
        <5>2. l # None => l = db[u]
          BY <1>0, <5>1 DEF l
        <5>3. m \in Row /\ m # None
          BY <4>2, <4>4
        <5>4. db'[u] = m
          <6>1. CASE l = None
            BY <4>2, <5>3, <6>1 DEF Flushed
          <6>2. CASE l # None
            BY <4>2, <5>2, <5>3, <6>2, FlushedFresh
          <6> QED
            BY <6>1, <6>2
        <5>5. \/ l # None /\ m = ApplySyncedCardState(l, FALSE)
              \/ IsPending(m)
              \/ q.op \in ImportModes /\ \E i \in Uids : TakenFrom(m, u, i, q.snapshot[i])
          BY <1>1, <4>4 DEF Justified, m, l
        <5>6. CASE l # None /\ m = ApplySyncedCardState(l, FALSE)
          BY <4>1, <4>2, <5>2, <5>4, <5>6, ApplyKeepsHonest
        <5>7. CASE IsPending(m)
          BY <5>3, <5>4, <5>7, PendingIsHonest
        <5>8. CASE q.op \in ImportModes /\ \E i \in Uids : TakenFrom(m, u, i, q.snapshot[i])
          <6>1. PICK i \in Uids : TakenFrom(m, u, i, dev[q.device][i])
            BY <5>1, <5>8
          <6>2. q.device \in Devices /\ dev \in [Devices -> [Uids -> Entry \cup {None}]]
            BY <1>0, <5>8 DEF Request, RequestOK, IInv, TypeOK
          <6> HIDE DEF q
          <6> QED
            BY <5>3, <5>4, <6>1, <6>2, TakenIsHonest
        <5> QED
          BY <5>5, <5>6, <5>7, <5>8
      <4> QED
        BY <4>3, <4>4
    <3> QED
      BY <1>0, <3>1 DEF AllHonest
  <2>5. SyncedMatchesDevice' /\ DisabledIsBlank'
    <3>1. (AllHonest <=> SyncedMatchesDevice /\ DisabledIsBlank)'
      BY HonestIsBoth, PTL
    <3> QED
      BY <2>4, <3>1
  <2> QED
    BY <2>1, <2>2, <2>3, <2>5 DEF IInv, TRInv
<1> QED
  BY <1>2, <1>3 DEF Commit

(* A device write: it may overwrite an entry that another row relies on,   *)
(* but then the writer was behind and the owner of the uid is outdated.    *)
LEMMA SyncSaveKeeps ==
  ASSUME IInv, TRInv', NEW s \in Sessions, SyncSave(s)
  PROVE  IInv'
<1> DEFINE q == req[s]
           u == q.user
           r == q.mem[u]
           entry == SavedEntry(u, r)
           touched == {u} \cup {w \in UserIds : db[w] # None /\ db[w].uid = r.uid}
           a == [q EXCEPT !.pc = "sync_verify"]
           b == [q EXCEPT !.pc = "sync_commit", !.mem[u].sync_status = "failed"]
<1>0. /\ q \in Request /\ RequestOK(q, db) /\ db \in [UserIds -> Row \cup {None}]
      /\ \A w \in UserIds : q.loaded[w] # None /\ w \notin behind[s] => q.loaded[w] = db[w]
      /\ UNCHANGED db /\ q.pc = "sync_save" /\ SyncOK(q, behind[s], outdated, dev)
  BY Holds DEF SyncSave, At
<1>1. /\ u \in UserIds /\ q.loaded[u] # None /\ q.device \in Devices
      /\ q.op \in {"sync", "batch"} /\ r = q.loaded[u] /\ r \in Row /\ IsPending(r)
  BY <1>0 DEF RequestOK, Request, SyncOK
<1>2. PICK taken \in BOOLEAN, answered \in BOOLEAN :
        /\ answered => taken
        /\ dev' = IF taken THEN [dev EXCEPT ![q.device][r.uid] = entry] ELSE dev
        /\ outdated' = IF taken /\ u \in behind[s] THEN outdated \cup touched ELSE outdated
        /\ Goto(s, IF answered THEN a ELSE b)
  BY DEF SyncSave
<1>3. PICK n : /\ n = IF answered THEN a ELSE b
               /\ Goto(s, n)
  BY <1>2
<1>4. /\ n.loaded = q.loaded /\ n.op = q.op /\ n.user = u /\ n.device = q.device
      /\ \/ answered /\ n.pc = "sync_verify" /\ n.mem = q.mem
         \/ n.pc = "sync_commit" /\ n.mem[u] = [r EXCEPT !.sync_status = "failed"]
  <2>1. CASE answered
    BY <1>0, <1>3, <2>1 DEF Request
  <2>2. CASE ~answered
    BY <1>0, <1>1, <1>3, <2>2 DEF Request
  <2> QED
    BY <2>1, <2>2
<1> HIDE DEF a, b
<1>5. r.uid \in Uids /\ dev \in [Devices -> [Uids -> Entry \cup {None}]]
  BY <1>1 DEF Row, IInv, TypeOK
(* Where the write lands, seen by a row that is not outdated after it. *)
<1>6. ASSUME NEW w \in UserIds \ outdated', db[w] # None, NEW d \in Devices
      PROVE  \/ dev'[d][db[w].uid] = dev[d][db[w].uid]
             \/ /\ w = u /\ d = q.device /\ u \notin behind[s] /\ r = db[u]
                /\ dev'[d][db[w].uid] = entry
  <2>0. db[w] \in Row /\ db[w].uid \in Uids
    BY <1>0, <1>6 DEF Row
  <2>1. CASE ~taken \/ d # q.device \/ db[w].uid # r.uid
    BY <1>1, <1>2, <1>5, <2>0, <2>1
  <2>2. CASE taken /\ d = q.device /\ db[w].uid = r.uid
    <3>1. u \notin behind[s]
      BY <1>2, <1>6, <2>2
    <3>2. r = db[u]
      BY <1>0, <1>1, <3>1
    <3>3. w = u
      BY <1>0, <1>1, <1>6, <2>2, <3>2 DEF IInv, UniqueUids
    <3>4. dev'[d][db[w].uid] = entry
      BY <1>1, <1>2, <1>5, <2>2
    <3> QED
      BY <2>2, <3>1, <3>2, <3>3, <3>4
  <2> QED
    BY <2>1, <2>2
<1> HIDE DEF touched, entry, r, u, q
<1>7. outdated \subseteq outdated'
  BY <1>2
<1>8. Fresh' /\ WritesJustified'
  <2>1. Move(s, n, {})
    BY <1>3 DEF Goto
  <2>2. \A w \in UserIds : n.loaded[w] # None /\ w \notin behind[s]
                         => w \notin {} /\ n.loaded[w] = db[w]
    BY <1>0, <1>4 DEF q
  <2>3. \A w \in UserIds \ {} : db'[w] = db[w]
    BY <1>0
  <2> QED
    BY <1>1, <1>4, <2>1, <2>2, <2>3, OthersKeep
<1>9. /\ req'[s] = n
      /\ behind'[s] = {w \in behind[s] : n.loaded[w] # None}
      /\ \A t \in Sessions \ {s} : req'[t] = req[t] /\ behind'[t] = behind[t]
  BY <1>3 DEF IInv, TypeOK, Goto, Move
<1>10. SyncsOK'
  <2>1. SyncOK(n, behind'[s], outdated', dev')
    <3>1. CASE answered /\ n.pc = "sync_verify" /\ n.mem = q.mem
      <4>1. dev'[q.device][r.uid] = entry
        BY <1>1, <1>2, <1>5, <3>1
      <4>2. n.mem[u] = r /\ n.loaded[u] = r
        BY <1>1, <1>4, <3>1 DEF r
      <4> QED
        BY <1>1, <1>4, <3>1, <4>1, <4>2 DEF SyncOK, entry
    <3>2. CASE n.pc = "sync_commit" /\ n.mem[u] = [r EXCEPT !.sync_status = "failed"]
      BY <1>1, <1>4, <3>2 DEF SyncOK
    <3> QED
      BY <1>4, <3>1, <3>2
  <2>2. ASSUME NEW t \in Sessions, t # s
        PROVE  SyncOK(req[t], behind[t], outdated', dev')
    <3> DEFINE x == req[t]
               w == x.user
    <3>0. /\ SyncOK(x, behind[t], outdated, dev) /\ x \in Request /\ RequestOK(x, db)
          /\ \A v \in UserIds : x.loaded[v] # None /\ v \notin behind[t] => x.loaded[v] = db[v]
      BY Holds
    <3>1. SyncOK(x, behind[t], outdated', dev)
      BY <1>7, <3>0, SyncOKWeakens
    <3>2. CASE x.pc \notin {"sync_verify", "sync_commit"} \/ w \in behind[t] \/ w \in outdated'
      BY <3>1, <3>2 DEF SyncOK
    <3>3. CASE x.pc \in {"sync_verify", "sync_commit"} /\ w \notin behind[t] /\ w \notin outdated'
      <4>1. w \in UserIds /\ x.loaded[w] = db[w] /\ db[w] # None /\ x.device \in Devices
        BY <3>0, <3>3 DEF RequestOK, Request
      <4>2. \/ dev'[x.device][db[w].uid] = dev[x.device][db[w].uid]
            \/ dev'[x.device][db[w].uid] = SavedEntry(w, db[w])
        BY <1>6, <3>3, <4>1 DEF entry
      <4>3. dev[x.device][x.loaded[w].uid] = SavedEntry(w, x.loaded[w])
              => dev'[x.device][x.loaded[w].uid] = SavedEntry(w, x.loaded[w])
        BY <4>1, <4>2
      <4> QED
        BY ONLY <1>7, <3>0, <3>3, <4>3 DEF SyncOK
    <3> QED
      BY <3>2, <3>3
  <2> QED
    BY <1>9, <2>1, <2>2 DEF SyncsOK
<1>11. AllHonest'
  <2>1. ASSUME NEW w \in UserIds \ outdated'
        PROVE  Honest(w, db[w], dev')
    <3>1. Honest(w, db[w], dev)
      BY <1>7, HonestIsBoth DEF IInv, AllHonest
    <3>2. CASE db[w] = None
      BY <3>2 DEF Honest
    <3>3. CASE w = u /\ r = db[u]
      BY <1>1, <3>3, PendingIsHonest
    <3>4. CASE db[w] # None /\ ~(w = u /\ r = db[u])
      <4>1. \A d \in Devices : dev'[d][db[w].uid] = dev[d][db[w].uid]
        BY <1>6, <3>4
      <4> QED
        BY <3>1, <3>4, <4>1 DEF Honest, OnDevice, BlankOnDevice
    <3> QED
      BY <3>2, <3>3, <3>4
  <2> QED
    BY <1>0, <2>1 DEF AllHonest
<1>12. SyncedMatchesDevice' /\ DisabledIsBlank'
  <2>1. (AllHonest <=> SyncedMatchesDevice /\ DisabledIsBlank)'
    BY HonestIsBoth, PTL
  <2> QED
    BY <1>11, <2>1
<1>13. UniqueUids(db)'
  BY <1>0 DEF IInv, UniqueUids
<1> QED
  BY <1>8, <1>10, <1>12, <1>13 DEF IInv, TRInv

(* The commit of a synchronised user keeps the uid, and announces what the *)
(* device was seen to hold.                                                *)
LEMMA SyncCommitKeeps ==
  ASSUME IInv, TRInv', NEW s \in Sessions, SyncCommit(s)
  PROVE  IInv'
<1> DEFINE q == req[s]
           u == q.user
           l == q.loaded[u]
           m == q.mem[u]
           row == Flushed(db[u], l, m)
           n == [q EXCEPT !.pc = "sync_next", !.user = None, !.loaded[u] = None, !.mem[u] = None]
           written == IF row = db[u] THEN {} ELSE {u}
<1>0. /\ q \in Request /\ RequestOK(q, db) /\ db \in [UserIds -> Row \cup {None}]
      /\ \A w \in UserIds : q.loaded[w] # None /\ w \notin behind[s] => q.loaded[w] = db[w]
      /\ q.pc = "sync_commit" /\ SyncOK(q, behind[s], outdated, dev)
      /\ db' = [db EXCEPT ![u] = row] /\ UNCHANGED dev
      /\ outdated' = outdated \cup ({u} \cap behind[s])
      /\ Move(s, n, written)
  BY Holds DEF SyncCommit, At
<1>1. /\ u \in UserIds /\ l \in Row /\ db[u] \in Row /\ m \in Row
      /\ q.device \in Devices /\ q.op \in {"sync", "batch"}
  BY <1>0 DEF RequestOK, Request
<1>2. /\ IsPending(l)
      /\ \/ m = [l EXCEPT !.sync_status = "failed"]
         \/ /\ m = SyncedRow(l)
            /\ u \notin behind[s] /\ u \notin outdated
               => dev[q.device][l.uid] = SavedEntry(u, l)
  BY <1>0 DEF SyncOK
<1>3. row \in Row /\ row.uid = db[u].uid
  <2>1. m.uid = l.uid
    BY <1>1, <1>2 DEF SyncedRow, Row
  <2>2. l # None /\ m # None
    BY <1>1, UserRowsAssumption
  <2> HIDE DEF l, m
  <2> QED
    BY <1>1, <2>1, <2>2 DEF Flushed, Column, Row
<1>4. u \notin behind[s] => row = m
  BY <1>0, <1>1, FlushedFresh, UserRowsAssumption
<1>5. /\ n.loaded = [q.loaded EXCEPT ![u] = None] /\ n.op = q.op /\ n.pc = "sync_next"
      /\ q.loaded \in [UserIds -> Row \cup {None}]
  BY <1>0 DEF Request
<1> HIDE DEF row, n
<1>6. UniqueUids(db)'
  <2>1. \A w \in UserIds : db'[w] = IF w = u THEN row ELSE db[w]
    BY <1>0
  <2>2. \A w \in UserIds : db'[w] # None => db[w] # None /\ db'[w].uid = db[w].uid
    BY <1>1, <1>3, <2>1, UserRowsAssumption
  <2> QED
    BY <2>2 DEF IInv, UniqueUids
<1>7. Fresh' /\ WritesJustified'
  <2>1. written \in SUBSET UserIds /\ \A w \in UserIds \ written : db'[w] = db[w]
    BY <1>0, <1>1
  <2>2. \A w \in UserIds : n.loaded[w] # None /\ w \notin behind[s]
                         => w \notin written /\ n.loaded[w] = db[w]
    BY <1>0, <1>1, <1>5
  <2> HIDE DEF written
  <2> QED
    BY <1>0, <1>1, <1>5, <2>1, <2>2, OthersKeep
<1>8. SyncsOK'
  <2>1. /\ req'[s] = n
        /\ \A t \in Sessions \ {s} : req'[t] = req[t] /\ behind[t] \subseteq behind'[t]
    BY <1>0 DEF IInv, TypeOK, Move
  <2>2. SyncOK(req'[s], behind'[s], outdated', dev')
    BY <1>5, <2>1 DEF SyncOK
  <2>3. ASSUME NEW t \in Sessions, t # s
        PROVE  SyncOK(req'[t], behind'[t], outdated', dev')
    <3>1. SyncOK(req[t], behind[t], outdated, dev)
      BY DEF IInv, SyncsOK
    <3>2. SyncOK(req[t], behind'[t], outdated', dev)
      BY <1>0, <2>1, <2>3, <3>1, SyncOKWeakens
    <3> QED
      BY <1>0, <2>1, <2>3, <3>2
  <2> QED
    BY <2>2, <2>3 DEF SyncsOK
<1>9. u \notin behind[s] /\ u \notin outdated => Honest(u, m, dev)
  <2>1. CASE m = [l EXCEPT !.sync_status = "failed"]
    <3>1. m.sync_status = "failed"
      BY <1>1, <2>1 DEF Row
    <3> HIDE DEF m
    <3> QED
      BY <1>1, <3>1, PendingIsHonest
  <2>2. ASSUME m = SyncedRow(l), u \notin behind[s], u \notin outdated
        PROVE  Honest(u, m, dev)
    <3>0. dev[q.device][l.uid] = SavedEntry(u, l)
      <4>1. SyncedRow(l) # [l EXCEPT !.sync_status = "failed"]
        BY <1>1 DEF SyncedRow, Row
      <4> QED
        BY <1>2, <2>2, <4>1
    <3>1. CASE l.sync_status = "pending"
      <4>1. /\ m.uid = l.uid /\ m.sync_status = "synced"
            /\ FullEntry(u, m) = FullEntry(u, l)
        BY <1>1, <2>2, <3>1 DEF SyncedRow, Row, FullEntry
      <4>2. dev[q.device][m.uid] = FullEntry(u, m)
        BY <3>0, <3>1, <4>1 DEF SavedEntry
      <4> HIDE DEF m
      <4> QED
        BY <1>1, <4>1, <4>2 DEF Honest, OnDevice
    <3>2. CASE l.sync_status # "pending"
      <4>1. m.uid = l.uid /\ m.sync_status = "synced_disabled" /\ IsBlank(m)
        BY <1>1, <2>2, <3>2 DEF SyncedRow, Row, IsBlank
      <4>2. dev[q.device][m.uid] = BlankEntry(u, l) /\ BlankEntry(u, l) # None
        BY <1>1, <3>0, <3>2, <4>1, EntryTypes, UserRowsAssumption DEF SavedEntry
      <4>3. BlankEntry(u, l).user_id = u /\ BlankEntry(u, l).card = NoCard
        BY DEF BlankEntry
      <4> HIDE DEF m
      <4> QED
        BY <1>1, <4>1, <4>2, <4>3 DEF Honest, BlankOnDevice
    <3> QED
      BY <3>1, <3>2
  <2> QED
    BY <1>2, <2>1, <2>2
<1>10. AllHonest'
  <2>1. ASSUME NEW w \in UserIds \ outdated'
        PROVE  Honest(w, db'[w], dev)
    <3>1. Honest(w, db[w], dev) /\ w \notin outdated
      BY <1>0, HonestIsBoth DEF IInv, AllHonest
    <3>2. CASE w = u
      <4>1. u \notin behind[s] /\ u \notin outdated /\ db'[u] = row
        BY <1>0, <1>1, <3>2
      <4> HIDE DEF m
      <4> QED
        BY <1>4, <1>9, <3>2, <4>1
    <3>3. CASE w # u
      BY <1>0, <3>1, <3>3
    <3> QED
      BY <3>2, <3>3
  <2> QED
    BY <1>0, <2>1 DEF AllHonest
<1>11. SyncedMatchesDevice' /\ DisabledIsBlank'
  <2>1. (AllHonest <=> SyncedMatchesDevice /\ DisabledIsBlank)'
    BY HonestIsBoth, PTL
  <2> QED
    BY <1>10, <2>1
<1> QED
  BY <1>6, <1>7, <1>8, <1>11 DEF IInv, TRInv

LEMMA RestartKeeps == IInv /\ TRInv' /\ Restart => IInv'
<1> SUFFICES ASSUME IInv, TRInv', Restart PROVE IInv'
  OBVIOUS
<1>1. \A s \in Sessions : req'[s] = Idle
  BY DEF Restart
<1>2. UNCHANGED <<db, dev, outdated>>
  BY DEF Restart
<1>3. \A u \in UserIds : Idle.loaded[u] = None /\ Justified(Idle, u)
  BY DEF Idle, NoRows, Justified
<1>4. \A b, out, devs : SyncOK(Idle, b, out, devs)
  BY DEF Idle, SyncOK
<1>5. Fresh' /\ WritesJustified' /\ SyncsOK'
  BY <1>1, <1>3, <1>4 DEF Fresh, WritesJustified, SyncsOK
<1>6. UniqueUids(db)' /\ SyncedMatchesDevice' /\ DisabledIsBlank'
  BY <1>2 DEF IInv, UniqueUids, SyncedMatchesDevice, DisabledIsBlank
<1> QED
  BY <1>5, <1>6 DEF IInv, TRInv

LEMMA StutterKeeps == IInv /\ UNCHANGED vars => IInv'
<1> SUFFICES ASSUME IInv, UNCHANGED vars PROVE IInv'
  OBVIOUS
<1>1. TRInv'
  BY StutterTR DEF IInv, TRInv
<1>2. Fresh' /\ WritesJustified' /\ SyncsOK' /\ UniqueUids(db)'
  BY DEF IInv, vars, Fresh, WritesJustified, SyncsOK, UniqueUids
<1>3. SyncedMatchesDevice' /\ DisabledIsBlank'
  BY DEF IInv, vars, SyncedMatchesDevice, DisabledIsBlank
<1> QED
  BY <1>1, <1>2, <1>3 DEF IInv, TRInv

-----------------------------------------------------------------------------
(* The invariant *)

LEMMA InitIInv == Init => IInv
<1> SUFFICES ASSUME Init PROVE IInv
  OBVIOUS
<1>1. TRInv
  BY InitTR
<1>2. PICK uid \in [Registered -> Uids], form \in [Registered -> Forms] :
        /\ \A u, w \in Registered : uid[u] = uid[w] => u = w
        /\ db = [u \in UserIds |->
                   IF u \in Registered THEN NewRow(uid[u], form[u]) ELSE None]
  BY DEF Init
<1>3. ASSUME NEW u \in UserIds, db[u] # None
      PROVE  u \in Registered /\ db[u].uid = uid[u] /\ db[u].sync_status = "pending"
  BY <1>2, <1>3 DEF NewRow
<1>4. UniqueUids(db)
  BY <1>2, <1>3 DEF UniqueUids
<1>5. SyncedMatchesDevice /\ DisabledIsBlank
  BY <1>3 DEF SyncedMatchesDevice, DisabledIsBlank
<1>6. \A s \in Sessions : req[s] = Idle
  BY DEF Init
<1>7. \A u \in UserIds : Idle.loaded[u] = None /\ Justified(Idle, u)
  BY DEF Idle, NoRows, Justified
<1>8. \A b, out, devs : SyncOK(Idle, b, out, devs)
  BY DEF Idle, SyncOK
<1>9. Fresh /\ WritesJustified /\ SyncsOK
  BY <1>6, <1>7, <1>8 DEF Fresh, WritesJustified, SyncsOK
<1> QED
  BY <1>1, <1>4, <1>5, <1>9 DEF IInv, TRInv

LEMMA NextIInv == IInv /\ [Next]_vars => IInv'
<1> SUFFICES ASSUME IInv, Next PROVE IInv'
  BY StutterKeeps
<1>0. TRInv'
  BY NextTR DEF IInv, TRInv
<1>1. CASE Restart
  BY <1>0, <1>1, RestartKeeps
<1>2. ASSUME NEW s \in Sessions, Call(s) PROVE IInv'
  BY <1>0, <1>2, CallKeeps
<1>3. ASSUME NEW s \in Sessions, Step(s) PROVE IInv'
  BY <1>0, <1>3, UniqueCheckKeeps, CommitKeeps, SyncNextKeeps, SyncSaveKeeps, SyncVerifyKeeps,
     SyncCommitKeeps, ImportEdgesKeep, ImportEntryKeeps DEF Step
<1> QED
  BY <1>1, <1>2, <1>3 DEF Next

(* A user shown as synced has exactly this row on some device, unless a    *)
(* request acted on an outdated copy of it (sync_user_to_device, the       *)
(* read-back of user.py and the commits of every other handler).           *)
THEOREM SyncedRowsAreOnDevice == Spec => []SyncedMatchesDevice
<1>1. IInv => SyncedMatchesDevice
  BY DEF IInv
<1> QED
  BY <1>1, InitIInv, NextIInv, PTL DEF Spec

(* A user shown as synced_disabled has no credentials in the table and no  *)
(* card on some device, with the same exception (the pending_disable       *)
(* branch of sync_user_to_device, _apply_synced_card_state, the imports).  *)
THEOREM DisabledRowsAreBlank == Spec => []DisabledIsBlank
<1>1. IInv => DisabledIsBlank
  BY DEF IInv
<1> QED
  BY <1>1, InitIInv, NextIInv, PTL DEF Spec
=============================================================================
