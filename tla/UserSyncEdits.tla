--------------------------- MODULE UserSyncEdits ---------------------------
(***************************************************************************)
(* What a step of UserSync may never do, for every instance: lose or alter *)
(* what an operator entered, retry a failed user, or write for a preview.  *)
(* The three action properties follow from IInv and from what each         *)
(* operation may do to the rows it loaded (RequestsKeepToOp).              *)
(***************************************************************************)
EXTENDS UserSyncSafety

EInv == IInv /\ RequestsKeepToOp

-----------------------------------------------------------------------------
(* Each operation keeps to its own changes *)

LEMMA OpKeeps ==
  ASSUME EInv, NEW s \in Sessions, NEW r, NEW written, Move(s, r, written), KeepsToOp(r)
  PROVE  RequestsKeepToOp'
<1>1. \A t \in Sessions : req'[t] = IF t = s THEN r ELSE req[t]
  BY DEF EInv, IInv, TypeOK, Move
<1> QED
  BY <1>1 DEF EInv, RequestsKeepToOp

LEMMA IdleKeepsToOp == KeepsToOp(Idle)
<1>1. Idle.op = "none" /\ \A u \in UserIds : Idle.loaded[u] = None
  BY DEF Idle, NoRows
<1> QED
  BY <1>1 DEF KeepsToOp

LEMMA CallKeepsToOp ==
  ASSUME EInv, NEW s \in Sessions, Call(s)
  PROVE  RequestsKeepToOp'
<1>1. SUFFICES ASSUME NEW r, Goto(s, r), KeepsToOp(r) PROVE RequestsKeepToOp'
  <2>1. ASSUME NEW u \in UserIds, NEW form \in Forms, BeginCreate(s, u, form)
        PROVE  RequestsKeepToOp'
    <3> DEFINE r == [Idle EXCEPT !.pc = "check_name", !.op = "create", !.user = u, !.form = form]
    <3>1. Goto(s, r)
      BY <2>1 DEF BeginCreate, Begin
    <3>2. r.op = "create" /\ r.loaded = NoRows
      BY DEF Idle
    <3> HIDE DEF r
    <3>3. KeepsToOp(r)
      BY <3>2 DEF KeepsToOp, NoRows
    <3> QED
      BY <1>1, <3>1, <3>3
  <2>2. ASSUME NEW u \in UserIds, NEW form \in Forms, BeginUpdate(s, u, form)
        PROVE  RequestsKeepToOp'
    <3> DEFINE r == [Idle EXCEPT !.pc = "check_name", !.op = "update", !.user = u, !.form = form,
                                 !.loaded[u] = db[u], !.mem[u] = db[u]]
    <3>1. Goto(s, r)
      BY <2>2 DEF BeginUpdate, Begin
    <3>2. r.op = "update"
      BY DEF Idle
    <3> HIDE DEF r
    <3>3. KeepsToOp(r)
      BY <3>2 DEF KeepsToOp
    <3> QED
      BY <1>1, <3>1, <3>3
  <2>3. ASSUME NEW u \in UserIds, BeginDelete(s, u)
        PROVE  RequestsKeepToOp'
    <3> DEFINE m == DismissedRow(db[u])
               r == [Idle EXCEPT !.pc = "commit", !.op = "delete", !.user = u,
                                 !.loaded[u] = db[u], !.mem[u] = m]
    <3>1. Goto(s, r)
      BY <2>3 DEF BeginDelete, Begin
    <3> HIDE DEF m
    <3>2. /\ r.op = "delete" /\ r.loaded = [NoRows EXCEPT ![u] = db[u]]
          /\ r.mem = [NoRows EXCEPT ![u] = m]
      BY DEF Idle
    <3> HIDE DEF r
    <3>3. KeepsToOp(r)
      BY <3>2 DEF KeepsToOp, NoRows, m
    <3> QED
      BY <1>1, <3>1, <3>3
  <2>4. ASSUME NEW page \in SUBSET UserIds, BeginList(s, page)
        PROVE  RequestsKeepToOp'
    <3> DEFINE shown == [w \in UserIds |->
                           IF db[w] = None THEN None ELSE ApplySyncedCardState(db[w], FALSE)]
               r == [Idle EXCEPT !.pc = "commit", !.op = "list",
                                 !.loaded = Page(db, page), !.mem = Page(shown, page)]
    <3>1. Goto(s, r)
      BY <2>4 DEF BeginList, Begin
    <3>2. r.op = "list" /\ r.loaded = Page(db, page) /\ r.mem = Page(shown, page)
      BY DEF Idle
    <3> HIDE DEF r
    <3>3. KeepsToOp(r)
      BY <3>2 DEF KeepsToOp, Page
    <3> QED
      BY <1>1, <3>1, <3>3
  <2>5. ASSUME NEW u \in UserIds, NEW d \in Devices, BeginSync(s, u, d)
        PROVE  RequestsKeepToOp'
    <3> DEFINE r == [Idle EXCEPT !.pc = "sync_next", !.op = "sync", !.device = d,
                                 !.queue = {u}, !.loaded[u] = db[u], !.mem[u] = db[u]]
    <3>1. Goto(s, r)
      BY <2>5 DEF BeginSync, Begin
    <3>2. r.op = "sync"
      BY DEF Idle
    <3> HIDE DEF r
    <3>3. KeepsToOp(r)
      BY <3>2 DEF KeepsToOp
    <3> QED
      BY <1>1, <3>1, <3>3
  <2>6. ASSUME NEW d \in Devices, BeginBatch(s, d)
        PROVE  RequestsKeepToOp'
    <3> DEFINE pending == {w \in UserIds : db[w] # None /\ IsPending(db[w])}
               r == [Idle EXCEPT !.pc = "sync_next", !.op = "batch", !.device = d,
                                 !.queue = pending,
                                 !.loaded = Page(db, pending), !.mem = Page(db, pending)]
    <3>1. Goto(s, r)
      BY <2>6 DEF BeginBatch, Begin
    <3>2. r.op = "batch"
      BY DEF Idle
    <3> HIDE DEF r
    <3>3. KeepsToOp(r)
      BY <3>2 DEF KeepsToOp
    <3> QED
      BY <1>1, <3>1, <3>3
  <2>7. ASSUME NEW mode \in ImportModes, NEW d \in Devices, BeginImport(s, mode, d)
        PROVE  RequestsKeepToOp'
    <3> DEFINE r == [Idle EXCEPT !.pc = "import_read", !.op = mode, !.device = d,
                                 !.snapshot = dev[d], !.todo = {i \in Uids : dev[d][i] # None}]
    <3>1. Goto(s, r)
      BY <2>7 DEF BeginImport, Begin
    <3>2. r.pc = "import_read" /\ r.loaded = NoRows
      BY DEF Idle
    <3> HIDE DEF r
    <3>3. KeepsToOp(r)
      BY <3>2 DEF KeepsToOp, NoRows
    <3> QED
      BY <1>1, <3>1, <3>3
  <2> QED
    BY <2>1, <2>2, <2>3, <2>4, <2>5, <2>6, <2>7 DEF Call
<1> QED
  BY <1>1, OpKeeps DEF Goto

(* A step inside a handler other than an import: the operation stays what  *)
(* it is, and what a create or an update changes is not restricted.        *)
LEMMA HandlerKeepsToOp ==
  ASSUME EInv, NEW s \in Sessions,
         \/ CheckName(s) \/ CheckCard(s) \/ AssignUid(s) \/ Commit(s)
         \/ SyncNext(s) \/ SyncSave(s) \/ SyncVerify(s) \/ SyncCommit(s)
  PROVE  RequestsKeepToOp'
<1> DEFINE q == req[s]
<1>0. q \in Request /\ RequestOK(q, db) /\ KeepsToOp(q)
  BY Holds DEF EInv, RequestsKeepToOp
<1>1. ASSUME NEW r, NEW written, Move(s, r, written), r.op = q.op,
             q.op \in {"create", "update", "sync", "batch"},
             q.op = "create" => r.loaded = q.loaded
      PROVE  RequestsKeepToOp'
  <2>1. q.op = "create" => \A u \in UserIds : q.loaded[u] = None
    BY <1>0 DEF KeepsToOp
  <2> HIDE DEF q
  <2>2. KeepsToOp(r)
    BY <1>1, <2>1 DEF KeepsToOp
  <2> QED
    BY <1>1, <2>2, OpKeeps
<1>2. ASSUME NEW written, Move(s, Idle, written) PROVE RequestsKeepToOp'
  BY <1>2, IdleKeepsToOp, OpKeeps
<1>3. ASSUME NEW pc, Goto(s, [q EXCEPT !.pc = pc]), q.op \in {"create", "update", "sync", "batch"}
      PROVE  RequestsKeepToOp'
  <2> DEFINE r == [q EXCEPT !.pc = pc]
  <2>1. r.op = q.op /\ r.loaded = q.loaded
    BY <1>0 DEF Request
  <2> QED
    BY <1>1, <1>3, <2>1 DEF Goto
<1>4. ASSUME NEW pc, NEW m, Goto(s, [q EXCEPT !.pc = pc, !.mem[q.user] = m]),
             q.op \in {"create", "update", "sync", "batch"}
      PROVE  RequestsKeepToOp'
  <2> DEFINE r == [q EXCEPT !.pc = pc, !.mem[q.user] = m]
  <2>1. r.op = q.op /\ r.loaded = q.loaded
    BY <1>0 DEF Request
  <2> QED
    BY <1>1, <1>4, <2>1 DEF Goto
<1>5. q.pc \in {"check_name", "check_card", "max_uid"} => q.op \in {"create", "update"}
  BY <1>0 DEF RequestOK
<1>6. q.pc \in {"sync_next", "sync_save", "sync_verify", "sync_commit"} => q.op \in {"sync", "batch"}
  BY <1>0 DEF RequestOK
<1>7. CASE CheckName(s)
  BY <1>2, <1>3, <1>5, <1>7 DEF CheckName, At, Finish, Goto
<1>8. CASE CheckCard(s)
  <2>1. q.op \in {"create", "update"}
    BY <1>5, <1>8 DEF CheckCard, At
  <2>2. \/ Finish(s)
        \/ Goto(s, [q EXCEPT !.pc = "max_uid"])
        \/ Goto(s, [q EXCEPT !.pc = "commit", !.mem[q.user] = UpdatedRow(q.mem[q.user], q.form)])
    BY <1>8 DEF CheckCard
  <2> HIDE DEF q
  <2> QED
    BY <1>2, <1>3, <1>4, <2>1, <2>2 DEF Finish, Goto
<1>9. CASE AssignUid(s)
  <2>1. q.op \in {"create", "update"}
    BY <1>5, <1>9 DEF AssignUid, At
  <2>2. \/ Finish(s)
        \/ Goto(s, [q EXCEPT !.pc = "commit", !.mem[q.user] = NewRow(NextUid, q.form)])
    BY <1>9 DEF AssignUid
  <2> HIDE DEF q
  <2> QED
    BY <1>2, <1>4, <2>1, <2>2 DEF Finish, Goto
<1>10. CASE Commit(s)
  BY <1>2, <1>10 DEF Commit, Finish, Goto
<1>11. CASE SyncNext(s)
  <2>1. q.op \in {"sync", "batch"}
    BY <1>6, <1>11 DEF SyncNext, At
  <2>2. CASE Finish(s)
    BY <1>2, <2>2 DEF Finish, Goto
  <2>3. ASSUME NEW u \in q.queue,
               Goto(s, [q EXCEPT !.pc = "sync_save", !.user = u, !.queue = @ \ {u}])
        PROVE  RequestsKeepToOp'
    <3> DEFINE r == [q EXCEPT !.pc = "sync_save", !.user = u, !.queue = @ \ {u}]
    <3>1. r.op = q.op
      BY <1>0 DEF Request
    <3> HIDE DEF r
    <3>2. Move(s, r, {})
      BY <2>3 DEF Goto, r
    <3> QED
      BY <1>1, <2>1, <3>1, <3>2
  <2> QED
    BY <1>11, <2>2, <2>3 DEF SyncNext
<1>12. CASE SyncSave(s)
  <2>1. q.op \in {"sync", "batch"}
    BY <1>6, <1>12 DEF SyncSave, At
  <2>2. \/ Goto(s, [q EXCEPT !.pc = "sync_verify"])
        \/ Goto(s, [q EXCEPT !.pc = "sync_commit",
                             !.mem[q.user] = [q.mem[q.user] EXCEPT !.sync_status = "failed"]])
    BY <1>12 DEF SyncSave
  <2> HIDE DEF q
  <2> QED
    BY <1>3, <1>4, <2>1, <2>2
<1>13. CASE SyncVerify(s)
  <2>1. q.op \in {"sync", "batch"}
    BY <1>6, <1>13 DEF SyncVerify, At
  <2>2. \/ Goto(s, [q EXCEPT !.pc = "sync_commit", !.mem[q.user] = SyncedRow(q.mem[q.user])])
        \/ Goto(s, [q EXCEPT !.pc = "sync_commit",
                             !.mem[q.user] = [q.mem[q.user] EXCEPT !.sync_status = "failed"]])
    BY <1>13 DEF SyncVerify
  <2> HIDE DEF q
  <2> QED
    BY <1>4, <2>1, <2>2
<1>14. CASE SyncCommit(s)
  <2> DEFINE u == q.user
             r == [q EXCEPT !.pc = "sync_next", !.user = None, !.loaded[u] = None, !.mem[u] = None]
  <2>1. q.op \in {"sync", "batch"}
    BY <1>6, <1>14 DEF SyncCommit, At
  <2>2. r.op = q.op
    BY <1>0 DEF Request
  <2>3. PICK written : Move(s, r, written)
    BY <1>14 DEF SyncCommit
  <2> HIDE DEF r
  <2> QED
    BY <1>1, <2>1, <2>2, <2>3
<1> QED
  BY <1>7, <1>8, <1>9, <1>10, <1>11, <1>12, <1>13, <1>14

LEMMA ImportKeepsToOp ==
  ASSUME EInv, NEW s \in Sessions,
         ImportRead(s) \/ (\E i \in Uids : ImportEntry(s, i)) \/ ImportDone(s)
  PROVE  RequestsKeepToOp'
<1> DEFINE q == req[s]
<1>0. q \in Request /\ RequestOK(q, db) /\ KeepsToOp(q)
  BY Holds DEF EInv, RequestsKeepToOp
<1>1. q.op \in ImportModes
  BY <1>0 DEF RequestOK, ImportRead, ImportEntry, ImportDone, At
<1>2. CASE ImportRead(s)
  <2> DEFINE r == [q EXCEPT !.pc = "import", !.loaded = db, !.mem = db]
  <2>1. r.op = q.op /\ r.pc = "import" /\ r.loaded = r.mem
    BY <1>0 DEF Request
  <2>2. Goto(s, r)
    BY <1>2 DEF ImportRead
  <2> HIDE DEF r, q
  <2>3. KeepsToOp(r)
    BY <1>1, <2>1 DEF KeepsToOp, ImportModes
  <2> QED
    BY <2>2, <2>3, OpKeeps DEF Goto
<1>3. CASE ImportDone(s)
  <2>1. CASE Finish(s)
    BY <2>1, IdleKeepsToOp, OpKeeps DEF Finish, Goto
  <2>2. CASE q.op # "preview" /\ Goto(s, [q EXCEPT !.pc = "commit"])
    <3> DEFINE r == [q EXCEPT !.pc = "commit"]
    <3>1. r.op = q.op /\ r.loaded = q.loaded /\ r.mem = q.mem
      BY <1>0 DEF Request
    <3>2. Goto(s, r)
      BY <2>2
    <3> HIDE DEF r, q
    <3>3. KeepsToOp(r)
      BY <1>0, <2>2, <3>1 DEF KeepsToOp
    <3> QED
      BY <3>2, <3>3, OpKeeps DEF Goto
  <2> QED
    BY <1>3, <2>1, <2>2 DEF ImportDone
<1>4. ASSUME NEW i \in Uids, ImportEntry(s, i) PROVE RequestsKeepToOp'
  <2> DEFINE e == q.snapshot[i]
             u == e.user_id
             next(mem) == [q EXCEPT !.mem = mem, !.todo = @ \ {i}]
             m1 == [w \in UserIds |-> IF w \in UidOwners(q, i)
                                      THEN ApplySyncedCardState(q.mem[w], FALSE) ELSE q.mem[w]]
             m2 == [q.mem EXCEPT ![u] = ImportedRow(i, e)]
             shown == ApplySyncedCardState(q.mem[u], FALSE)
             m3 == [q.mem EXCEPT ![u] = IF q.op = "overwrite_local"
                                        THEN OverwrittenRow(shown, i, e) ELSE shown]
  <2>0. q.pc = "import" /\ i \in q.todo
    BY <1>4 DEF ImportEntry, At
  <2>1. u \in UserIds /\ q.mem \in [UserIds -> Row \cup {None}]
    <3>1. e \in Entry
      BY <1>0, <2>0 DEF Request, RequestOK
    <3> QED
      BY <1>0, <3>1 DEF Entry, Request
(* Only what write_missing leaves of the rows it loaded is at stake. *)
  <2>2. ASSUME NEW mem, Goto(s, next(mem)),
               q.op = "write_missing" =>
                 \A w \in UserIds : q.loaded[w] # None =>
                    \/ mem[w] = q.mem[w]
                    \/ mem[w] = ApplySyncedCardState(q.mem[w], FALSE)
        PROVE  RequestsKeepToOp'
    <3> DEFINE n == next(mem)
    <3>1. n.op = q.op /\ n.pc = "import" /\ n.loaded = q.loaded /\ n.mem = mem
      BY <1>0, <2>0 DEF Request
    <3>2. Move(s, n, {})
      BY <2>2 DEF Goto
    <3> HIDE DEF n
    <3>3. ASSUME NEW w \in UserIds, n.loaded[w] # None, n.op = "write_missing",
                 n.mem[w] # n.loaded[w]
          PROVE  n.mem[w] = ApplySyncedCardState(n.loaded[w], FALSE)
      <4>1. q.loaded[w] \in Row
        BY <1>0, <3>1, <3>3 DEF Request
      <4>2. q.mem[w] = q.loaded[w] \/ q.mem[w] = ApplySyncedCardState(q.loaded[w], FALSE)
        BY <1>0, <3>1, <3>3 DEF KeepsToOp
      <4>3. mem[w] = q.mem[w] \/ mem[w] = ApplySyncedCardState(q.mem[w], FALSE)
        BY <2>2, <3>1, <3>3
      <4> HIDE DEF q
      <4> QED
        BY <3>1, <3>3, <4>1, <4>2, <4>3, ApplyIdempotent
    <3> HIDE DEF q
    <3>4. KeepsToOp(n)
      BY <1>1, <3>1, <3>3 DEF KeepsToOp, ImportModes
    <3> QED
      BY <3>2, <3>4, OpKeeps
  <2>3. CASE Goto(s, next(m1))
    <3>1. \A w \in UserIds : m1[w] = q.mem[w] \/ m1[w] = ApplySyncedCardState(q.mem[w], FALSE)
      OBVIOUS
    <3> HIDE DEF m1, next, q
    <3> QED
      BY <2>2, <2>3, <3>1
  <2>4. CASE q.mem[u] = None /\ Goto(s, next(m2))
    <3>1. q.loaded[u] = None
      BY <1>0, <2>1, <2>4 DEF RequestOK
    <3>2. \A w \in UserIds : w # u => m2[w] = q.mem[w]
      BY <2>1
    <3> HIDE DEF m2, next, q
    <3> QED
      BY <2>2, <2>4, <3>1, <3>2
  <2>5. CASE Goto(s, next(q.mem))
    <3> HIDE DEF next, q
    <3> QED
      BY <2>2, <2>5
  <2>6. CASE Goto(s, next(m3))
    <3>1. \A w \in UserIds : w # u => m3[w] = q.mem[w]
      BY <2>1
    <3>2. q.op = "write_missing" => m3[u] = ApplySyncedCardState(q.mem[u], FALSE)
      BY <2>1
    <3> HIDE DEF m3, next, q
    <3> QED
      BY <2>2, <2>6, <3>1, <3>2
  <2> QED
    <3>1. \/ Goto(s, next(m1))
          \/ q.mem[u] = None /\ Goto(s, next(IF q.op = "preview" THEN q.mem ELSE m2))
          \/ Goto(s, next(q.mem))
          \/ Goto(s, next(m3))
      BY <1>4 DEF ImportEntry
    <3> HIDE DEF m1, m2, m3, next, q
    <3> QED
      BY <2>3, <2>4, <2>5, <2>6, <3>1
<1> QED
  BY <1>2, <1>3, <1>4

LEMMA InitE == Init => EInv
<1>1. Init => RequestsKeepToOp
  BY IdleKeepsToOp DEF Init, RequestsKeepToOp
<1> QED
  BY <1>1, InitIInv DEF EInv

LEMMA NextE == EInv /\ [Next]_vars => EInv'
<1> SUFFICES ASSUME EInv, [Next]_vars PROVE RequestsKeepToOp'
  BY NextIInv DEF EInv
<1>1. CASE Restart
  BY <1>1, IdleKeepsToOp DEF Restart, RequestsKeepToOp
<1>2. ASSUME NEW s \in Sessions, Call(s) PROVE RequestsKeepToOp'
  BY <1>2, CallKeepsToOp
<1>3. ASSUME NEW s \in Sessions, Step(s) PROVE RequestsKeepToOp'
  BY <1>3, HandlerKeepsToOp, ImportKeepsToOp DEF Step
<1>4. CASE UNCHANGED vars
  BY <1>4 DEF EInv, RequestsKeepToOp, vars
<1> QED
  BY <1>1, <1>2, <1>3, <1>4 DEF Next

-----------------------------------------------------------------------------
(* Who writes the table *)

LEMMA TableWriters ==
  ASSUME [Next]_vars, db' # db
  PROVE  \E s \in Sessions :
            \/ SyncCommit(s)
            \/ /\ At(s, "commit") /\ ~InsertsTwice(s) /\ Commit(s)
               /\ db' = Flush(s) /\ outdated' = outdated \cup Overtaken(s)
<1>1. ASSUME NEW s \in Sessions, Call(s) PROVE UNCHANGED db
  BY <1>1 DEF Call, BeginCreate, BeginUpdate, BeginDelete, BeginList, BeginSync, BeginBatch,
              BeginImport
<1>2. ASSUME NEW s \in Sessions, Step(s), ~SyncCommit(s), ~Commit(s) PROVE UNCHANGED db
  BY <1>2 DEF Step, CheckName, CheckCard, AssignUid, SyncNext, SyncSave, SyncVerify, ImportRead,
              ImportEntry, ImportDone
<1>3. PICK s \in Sessions : SyncCommit(s) \/ Commit(s)
  BY <1>1, <1>2 DEF Next, Restart, vars
<1> QED
  BY <1>3 DEF Commit

(* The session that writes is the one whose step it is. *)
LEMMA WriterMoves ==
  ASSUME EInv, NEW s \in Sessions, SyncCommit(s) \/ Commit(s)
  PROVE  req'[s] # req[s]
<1>1. PICK r, written : Move(s, r, written) /\ r.pc # req[s].pc
  <2>1. CASE SyncCommit(s)
    <3> DEFINE u == req[s].user
               n == [req[s] EXCEPT !.pc = "sync_next", !.user = None, !.loaded[u] = None, !.mem[u] = None]
    <3>1. n.pc = "sync_next" /\ req[s].pc = "sync_commit"
      BY <2>1 DEF EInv, IInv, TypeOK, Request, SyncCommit, At
    <3>2. PICK written : Move(s, n, written)
      BY <2>1 DEF SyncCommit
    <3> HIDE DEF n
    <3> QED
      BY <3>1, <3>2
  <2>2. CASE Commit(s)
    <3>1. Idle.pc = "idle" /\ req[s].pc = "commit"
      BY <2>2 DEF Commit, At, Idle
    <3>2. PICK written : Move(s, Idle, written)
      BY <2>2 DEF Commit, Finish, Goto
    <3> QED
      BY <3>1, <3>2
  <2> QED
    BY <2>1, <2>2
<1> QED
  BY <1>1 DEF EInv, IInv, TypeOK, Move

LEMMA FlushedColumns ==
  ASSUME NEW c \in Row, NEW l \in Row, NEW m \in Row
  PROVE  /\ Flushed(c, l, m).name = Column(c.name, l.name, m.name)
         /\ Flushed(c, l, m).card = Column(c.card, l.card, m.card)
         /\ Flushed(c, l, m).password = Column(c.password, l.password, m.password)
<1>1. l # None /\ m # None
  BY UserRowsAssumption
<1> QED
  BY <1>1 DEF Flushed

(* A row changed by the commit of a handler is one it loaded and changed. *)
LEMMA CommitWrites ==
  ASSUME EInv, NEW s \in Sessions, At(s, "commit"), ~InsertsTwice(s), db' = Flush(s),
         NEW u \in UserIds, db[u] # None, db'[u] # db[u]
  PROVE  LET q == req[s] IN
         /\ q.loaded[u] \in Row /\ q.mem[u] \in Row /\ db[u] \in Row
         /\ q.mem[u] # q.loaded[u]
         /\ db'[u] = Flushed(db[u], q.loaded[u], q.mem[u])
         /\ u \notin behind[s] => q.loaded[u] = db[u] /\ db'[u] = q.mem[u]
         /\ q.op \in {"update", "delete", "list", "write_missing", "overwrite_local"}
         /\ q.op = "delete" => q.mem[u] = DismissedRow(q.loaded[u])
         /\ q.op \in {"list", "write_missing"}
              => q.mem[u] = ApplySyncedCardState(q.loaded[u], FALSE)
<1> DEFINE q == req[s]
           l == q.loaded[u]
           m == q.mem[u]
<1>0. /\ q \in Request /\ RequestOK(q, db) /\ KeepsToOp(q) /\ q.pc = "commit"
      /\ db \in [UserIds -> Row \cup {None}]
      /\ l # None /\ u \notin behind[s] => l = db[u]
  BY Holds DEF EInv, RequestsKeepToOp, At
<1>1. db'[u] = Flushed(db[u], l, m) /\ m \in Row \cup {None} /\ l \in Row \cup {None}
  BY <1>0 DEF Flush, Request
<1>2. m # None
  BY <1>1 DEF Flushed
<1>3. l # None
  BY <1>2 DEF InsertsTwice
<1>4. db[u] \in Row /\ l \in Row /\ m \in Row
  BY <1>0, <1>1, <1>2, <1>3
<1> HIDE DEF l, m
<1>5. m # l
  BY <1>1, <1>4, FlushedFresh
<1>6. u \notin behind[s] => l = db[u] /\ db'[u] = m
  BY <1>0, <1>1, <1>3, <1>4, FlushedFresh
<1>7. q.op \notin {"create", "preview", "sync", "batch", "none"}
  BY <1>0, <1>3 DEF KeepsToOp, RequestOK, l
<1>8. q.op \in {"update", "delete", "list", "write_missing", "overwrite_local"}
  BY <1>0, <1>7 DEF Request, AllOps
<1>9. /\ q.op = "delete" => m = DismissedRow(l)
      /\ q.op \in {"list", "write_missing"} => m = ApplySyncedCardState(l, FALSE)
  BY <1>0, <1>3, <1>5 DEF KeepsToOp, l, m
<1> QED
  BY <1>1, <1>4, <1>5, <1>6, <1>8, <1>9 DEF l, m

(* The same for the commit of a synchronised user. *)
LEMMA SyncCommitWrites ==
  ASSUME EInv, NEW s \in Sessions, SyncCommit(s), NEW u \in UserIds, db'[u] # db[u]
  PROVE  LET q == req[s] IN
         /\ u = q.user /\ q.loaded[u] \in Row /\ db[u] \in Row
         /\ db'[u] = Flushed(db[u], q.loaded[u], q.mem[u])
         /\ IsPending(q.loaded[u])
         /\ \/ q.mem[u] = [q.loaded[u] EXCEPT !.sync_status = "failed"]
            \/ q.mem[u] = SyncedRow(q.loaded[u])
         /\ u \notin outdated' => q.loaded[u] = db[u]
<1> DEFINE q == req[s]
           w == q.user
<1>0. /\ q \in Request /\ RequestOK(q, db) /\ q.pc = "sync_commit"
      /\ db \in [UserIds -> Row \cup {None}]
      /\ \A v \in UserIds : q.loaded[v] # None /\ v \notin behind[s] => q.loaded[v] = db[v]
      /\ SyncOK(q, behind[s], outdated, dev)
      /\ db' = [db EXCEPT ![w] = Flushed(db[w], q.loaded[w], q.mem[w])]
      /\ outdated' = outdated \cup ({w} \cap behind[s])
  BY Holds DEF EInv, SyncCommit, At
<1>1. u = w
  BY <1>0
<1>2. q.loaded[w] \in Row /\ db[w] \in Row /\ q.loaded[w] # None
  BY <1>0, <1>1 DEF Request, RequestOK
<1>3. /\ IsPending(q.loaded[w])
      /\ \/ q.mem[w] = [q.loaded[w] EXCEPT !.sync_status = "failed"]
         \/ q.mem[w] = SyncedRow(q.loaded[w])
  BY <1>0 DEF SyncOK
<1>4. db'[w] = Flushed(db[w], q.loaded[w], q.mem[w])
  BY <1>0, <1>1
<1>5. w \notin outdated' => q.loaded[w] = db[w]
  BY <1>0, <1>1, <1>2
<1> QED
  BY <1>1, <1>2, <1>3, <1>4, <1>5

-----------------------------------------------------------------------------
(* The action properties *)

(* What an operator entered changes only in the step of a session that     *)
(* enters it, column by column, or that clears it for what the row it has  *)
(* read says; it is lost to a clearing only with the row outdated (the     *)
(* column-wise flush under every handler of user.py).                      *)
THEOREM OperatorEditsSurvive == Spec => EditsSurvive
<1> DEFINE A == \A u \in UserIds :
                  db[u] # None /\ Entered(db'[u]) # Entered(db[u])
                  => \E s \in Sessions : req'[s] # req[s] /\ (Enters(s, u) \/ Clears(s, u))
<1>1. ASSUME EInv, [Next]_vars PROVE A
  <2>1. SUFFICES ASSUME NEW u \in UserIds, db[u] # None, Entered(db'[u]) # Entered(db[u])
                 PROVE  \E s \in Sessions : req'[s] # req[s] /\ (Enters(s, u) \/ Clears(s, u))
    OBVIOUS
  <2>2. db'[u] # db[u]
    BY <2>1
  <2>3. PICK s \in Sessions :
           \/ SyncCommit(s)
           \/ /\ At(s, "commit") /\ ~InsertsTwice(s) /\ Commit(s)
              /\ db' = Flush(s) /\ outdated' = outdated \cup Overtaken(s)
    BY <1>1, <2>2, TableWriters
  <2>4. req'[s] # req[s]
    BY <1>1, <2>3, WriterMoves
  <2> DEFINE l == req[s].loaded[u]
             m == req[s].mem[u]
(* A write that changes nothing of it in memory changes nothing of it in   *)
(* the table.                                                              *)
  <2>5. ASSUME db[u] \in Row, l \in Row, m \in Row, db'[u] = Flushed(db[u], l, m)
        PROVE  /\ db'[u].name = Column(db[u].name, l.name, m.name)
               /\ db'[u].card = Column(db[u].card, l.card, m.card)
               /\ db'[u].password = Column(db[u].password, l.password, m.password)
               /\ ~(m.name = l.name /\ m.card = l.card /\ m.password = l.password)
    <3> HIDE DEF l, m
    <3>1. /\ db'[u].name = Column(db[u].name, l.name, m.name)
          /\ db'[u].card = Column(db[u].card, l.card, m.card)
          /\ db'[u].password = Column(db[u].password, l.password, m.password)
      BY <2>5, FlushedColumns
    <3> QED
      BY <2>1, <3>1 DEF Column, Entered
  <2>6. CASE SyncCommit(s)
    <3>1. /\ l \in Row /\ db[u] \in Row /\ db'[u] = Flushed(db[u], l, m)
          /\ IsPending(l)
          /\ m = [l EXCEPT !.sync_status = "failed"] \/ m = SyncedRow(l)
          /\ u \notin outdated' => l = db[u]
      BY <1>1, <2>2, <2>6, SyncCommitWrites
    <3>2. At(s, "sync_commit")
      BY <2>6 DEF SyncCommit
    <3>3. m \in Row
      <4> HIDE DEF l, m
      <4> QED
        BY <3>1, SyncedRowType, FailedRowType
    <3>4. /\ db'[u].name = Column(db[u].name, l.name, m.name)
          /\ db'[u].card = Column(db[u].card, l.card, m.card)
          /\ db'[u].password = Column(db[u].password, l.password, m.password)
          /\ ~(m.name = l.name /\ m.card = l.card /\ m.password = l.password)
      BY <2>5, <3>1, <3>3
    <3>5. /\ m.name = l.name /\ m.card \in {l.card, NoCard} /\ m.password \in {l.password, NoPassword}
          /\ l.sync_status = "pending_disable"
      <4> HIDE DEF l, m
      <4>1. m.name = l.name /\ m.card \in {l.card, NoCard} /\ m.password \in {l.password, NoPassword}
        BY <3>1 DEF SyncedRow, Row
      <4>2. l.sync_status # "pending"
        BY <3>1, <3>4 DEF SyncedRow, Row
      <4> QED
        BY <3>1, <4>1, <4>2 DEF IsPending
    <3>6. Clears(s, u)
      <4>1. /\ db'[u].name = db[u].name /\ db'[u].card \in {db[u].card, NoCard}
            /\ db'[u].password \in {db[u].password, NoPassword}
        <5> HIDE DEF l, m
        <5> QED
          BY <3>4, <3>5 DEF Column
      <4> QED
        BY <3>1, <3>2, <3>5, <4>1 DEF Clears
    <3> QED
      BY <2>4, <3>6
  <2>7. CASE /\ At(s, "commit") /\ ~InsertsTwice(s) /\ Commit(s)
             /\ db' = Flush(s) /\ outdated' = outdated \cup Overtaken(s)
    <3>1. /\ l \in Row /\ m \in Row /\ db[u] \in Row /\ m # l /\ db'[u] = Flushed(db[u], l, m)
          /\ u \notin behind[s] => l = db[u]
          /\ req[s].op \in {"update", "delete", "list", "write_missing", "overwrite_local"}
          /\ req[s].op = "delete" => m = DismissedRow(l)
          /\ req[s].op \in {"list", "write_missing"} => m = ApplySyncedCardState(l, FALSE)
      BY <1>1, <2>1, <2>2, <2>7, CommitWrites
    <3>2. /\ db'[u].name = Column(db[u].name, l.name, m.name)
          /\ db'[u].card = Column(db[u].card, l.card, m.card)
          /\ db'[u].password = Column(db[u].password, l.password, m.password)
          /\ ~(m.name = l.name /\ m.card = l.card /\ m.password = l.password)
      BY <2>5, <3>1
    <3>3. CASE req[s].op \in {"update", "overwrite_local"}
      <4>1. ASSUME NEW c \in {"name", "card", "password"}, db'[u][c] # db[u][c]
            PROVE  db'[u][c] = m[c] /\ m[c] # l[c]
        <5> HIDE DEF l, m
        <5> QED
          BY <3>2, <4>1 DEF Column
      <4>2. Enters(s, u)
        BY <2>7, <3>3, <4>1 DEF Enters
      <4> QED
        BY <2>4, <4>2
    <3>4. CASE req[s].op \notin {"update", "overwrite_local"}
      <4>1. /\ req[s].op \in {"list", "write_missing"}
            /\ m = ApplySyncedCardState(l, FALSE)
        <5>1. m # DismissedRow(l)
          <6> HIDE DEF l, m
          <6> QED
            BY <3>1, <3>2 DEF DismissedRow, Row
        <5> QED
          BY <3>1, <3>4, <5>1
      <4>2. m.name = l.name /\ m.card = l.card /\ m.password = NoPassword /\ l.card = NoCard
        <5> HIDE DEF l, m
        <5> QED
          BY <3>1, <3>2, <4>1 DEF ApplySyncedCardState, Row
      <4>3. /\ db'[u].name = db[u].name /\ db'[u].card = db[u].card /\ db'[u].password = NoPassword
        <5> HIDE DEF l, m
        <5> QED
          BY <3>2, <4>2 DEF Column
      <4>4. l # db[u] => u \in outdated'
        BY <2>7, <3>1 DEF Overtaken
      <4>5. Clears(s, u)
        BY <2>7, <4>1, <4>2, <4>3, <4>4 DEF Clears
      <4> QED
        BY <2>4, <4>5
    <3> QED
      BY <3>3, <3>4
  <2> QED
    BY <2>3, <2>6, <2>7
<1>2. EInv /\ [Next]_vars => [A]_vars
  BY <1>1
<1> HIDE DEF A
<1>3. Spec => [][A]_vars
  BY <1>2, InitE, NextE, PTL DEF Spec
<1> QED
  BY <1>3 DEF EditsSurvive, A

(* No synchronisation and no listing takes a row out of `failed` (the      *)
(* pending check of sync_user_to_device and sync_pending_users).           *)
THEOREM FailedUsersWait == Spec => FailedNeedsEdit
<1> DEFINE A == \A u \in UserIds \ outdated' :
                  db[u] # None /\ db[u].sync_status = "failed" /\ db'[u].sync_status # "failed"
                  => \E s \in Sessions : /\ req'[s] # req[s] /\ At(s, "commit")
                                         /\ req[s].op \in {"update", "delete", "overwrite_local"}
<1>1. ASSUME EInv, [Next]_vars PROVE A
  <2>1. SUFFICES ASSUME NEW u \in UserIds \ outdated',
                        db[u] # None, db[u].sync_status = "failed", db'[u].sync_status # "failed"
                 PROVE  \E s \in Sessions : /\ req'[s] # req[s] /\ At(s, "commit")
                                            /\ req[s].op \in {"update", "delete", "overwrite_local"}
    OBVIOUS
  <2>2. db'[u] # db[u]
    BY <2>1
  <2>3. PICK s \in Sessions :
           \/ SyncCommit(s)
           \/ /\ At(s, "commit") /\ ~InsertsTwice(s) /\ Commit(s)
              /\ db' = Flush(s) /\ outdated' = outdated \cup Overtaken(s)
    BY <1>1, <2>2, TableWriters
  <2> DEFINE l == req[s].loaded[u]
             m == req[s].mem[u]
  <2>4. CASE SyncCommit(s)
    <3>1. IsPending(l) /\ l = db[u]
      BY <1>1, <2>1, <2>2, <2>4, SyncCommitWrites
    <3> HIDE DEF l
    <3> QED
      BY <2>1, <3>1 DEF IsPending
  <2>5. CASE /\ At(s, "commit") /\ ~InsertsTwice(s) /\ Commit(s)
             /\ db' = Flush(s) /\ outdated' = outdated \cup Overtaken(s)
    <3>1. /\ l \in Row /\ m # l
          /\ u \notin behind[s] => l = db[u] /\ db'[u] = m
          /\ req[s].op \in {"update", "delete", "list", "write_missing", "overwrite_local"}
          /\ req[s].op \in {"list", "write_missing"} => m = ApplySyncedCardState(l, FALSE)
      BY <1>1, <2>1, <2>2, <2>5, CommitWrites
    <3>2. CASE req[s].op \in {"update", "delete", "overwrite_local"}
      BY <1>1, <2>5, <3>2, WriterMoves
    <3>3. CASE req[s].op \in {"list", "write_missing"}
      <4>1. u \notin behind[s]
        BY <2>1, <2>5, <3>1 DEF Overtaken
      <4>2. m = ApplySyncedCardState(l, FALSE) /\ l.sync_status = "failed" /\ m.sync_status # "failed"
        BY <2>1, <3>1, <3>3, <4>1
      <4> HIDE DEF l, m
      <4> QED
        BY <3>1, <4>2 DEF ApplySyncedCardState, Row
    <3> QED
      BY <3>1, <3>2, <3>3
  <2> QED
    BY <2>3, <2>4, <2>5
<1>2. EInv /\ [Next]_vars => [A]_vars
  BY <1>1
<1> HIDE DEF A
<1>3. Spec => [][A]_vars
  BY <1>2, InitE, NextE, PTL DEF Spec
<1> QED
  BY <1>3 DEF FailedNeedsEdit, A

(* A preview writes neither the table nor a device (the mode test before   *)
(* the commit of sync_users_from_device).                                  *)
THEOREM PreviewsDoNotWrite == Spec => PreviewIsReadOnly
<1> DEFINE A == \A s \in Sessions :
                  req[s].op = "preview" /\ req'[s] # req[s] => UNCHANGED <<db, dev>>
<1>1. ASSUME EInv, [Next]_vars PROVE A
  <2>1. SUFFICES ASSUME NEW s \in Sessions, req[s].op = "preview", req'[s] # req[s]
                 PROVE  UNCHANGED <<db, dev>>
    OBVIOUS
  <2>2. RequestOK(req[s], db) /\ KeepsToOp(req[s])
    BY <1>1, Holds DEF EInv, RequestsKeepToOp
  <2>3. req[s].pc \notin {"commit", "sync_save", "sync_commit"}
    BY <2>1, <2>2 DEF RequestOK, KeepsToOp
  <2>4. ASSUME NEW t \in Sessions, NEW r, NEW written, Move(t, r, written) PROVE t = s
    BY <1>1, <2>1, <2>4 DEF EInv, IInv, TypeOK, Move
  <2>5. ASSUME NEW t \in Sessions, Call(t) PROVE UNCHANGED <<db, dev>>
    BY <2>5 DEF Call, BeginCreate, BeginUpdate, BeginDelete, BeginList, BeginSync, BeginBatch,
                BeginImport
  <2>6. ASSUME NEW t \in Sessions, Commit(t) \/ SyncSave(t) \/ SyncCommit(t) PROVE t = s
    <3>1. \E r, written : Move(t, r, written)
      BY <2>6 DEF Commit, SyncSave, SyncCommit, Finish, Goto
    <3> QED
      BY <2>4, <3>1
  <2>7. ASSUME NEW t \in Sessions, Step(t) PROVE UNCHANGED <<db, dev>>
    <3>1. ~(Commit(t) \/ SyncSave(t) \/ SyncCommit(t))
      BY <2>3, <2>6 DEF Commit, SyncSave, SyncCommit, At
    <3> QED
      BY <2>7, <3>1 DEF Step, CheckName, CheckCard, AssignUid, SyncNext, SyncVerify, ImportRead,
                        ImportEntry, ImportDone
  <2> QED
    BY <1>1, <2>5, <2>7 DEF Next, Restart, vars
<1>2. EInv /\ [Next]_vars => [A]_vars
  BY <1>1
<1> HIDE DEF A
<1>3. Spec => [][A]_vars
  BY <1>2, InitE, NextE, PTL DEF Spec
<1> QED
  BY <1>3 DEF PreviewIsReadOnly, A
=============================================================================
