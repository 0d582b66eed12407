------------------------------ MODULE UserSync ------------------------------
(***************************************************************************)
(* Door users between the table `users` and the ZKTeco devices: the        *)
(* handlers of app/services/user.py, one action per stretch of code        *)
(* between two awaits.  Every HTTP request has a database session of its   *)
(* own (expire_on_commit=False, autoflush=False): it works on the copies   *)
(* it loaded, a second SELECT does not refresh them, and its commit writes *)
(* only the columns it changed.  Handlers interleave at their awaits: the  *)
(* SELECTs, the COMMITs and the device calls made in worker threads.       *)
(***************************************************************************)
EXTENDS UserRows, FiniteSetsExt

CONSTANTS Sessions,     \* requests being served at the same time
          Devices,      \* ip addresses of devices
          Registered,   \* user_ids that have a row at the start
          Enrolled,     \* entries that devices may hold at the start
          Ops,          \* the operations the clients call
          Forms,        \* the bodies of their create and update requests
          MaxRequests   \* bound: requests served in a behaviour

AllOps == {"create", "update", "delete", "list", "sync", "batch",
           "preview", "write_missing", "overwrite_local"}
ImportModes == {"preview", "write_missing", "overwrite_local"}

ASSUME UserSyncAssumption ==
  /\ Registered \subseteq UserIds
  /\ Enrolled \subseteq Entry
  /\ Ops \subseteq AllOps
  /\ Forms \subseteq Form
  /\ MaxRequests \in Nat
  /\ None \notin Devices

VARIABLES db,           \* table users: user_id -> row or None
          dev,          \* device -> uid -> entry or None
          req,          \* session -> the request it serves
          started,      \* number of requests begun
          behind,       \* history: session -> users whose row was written
                        \* by others since the session loaded it
          outdated      \* history: users that a request wrote, to a device
                        \* or to the table, from a row it was behind on
vars == <<db, dev, req, started, behind, outdated>>

PCs == {"idle", "check_name", "check_card", "max_uid", "commit", "sync_next",
        "sync_save", "sync_verify", "sync_commit", "import_read", "import"}

(* What a request holds across an await.  loaded and mem are the session's *)
(* identity map: the rows as selected and as changed in memory.  snapshot  *)
(* is the device's answer to get_users, todo the uids of it not looked at. *)
Request == [pc : PCs,
            op : AllOps \cup {"none"},
            user : UserIds \cup {None},
            form : Form \cup {None},
            device : Devices \cup {None},
            queue : SUBSET UserIds,
            loaded : [UserIds -> Row \cup {None}],
            mem : [UserIds -> Row \cup {None}],
            snapshot : [Uids -> Entry \cup {None}],
            todo : SUBSET Uids]

NoRows == [u \in UserIds |-> None]

Idle == [pc |-> "idle", op |-> "none", user |-> None, form |-> None, device |-> None,
         queue |-> {}, loaded |-> NoRows, mem |-> NoRows,
         snapshot |-> [i \in Uids |-> None], todo |-> {}]

TypeOK ==
  /\ db \in [UserIds -> Row \cup {None}]
  /\ dev \in [Devices -> [Uids -> Entry \cup {None}]]
  /\ req \in [Sessions -> Request]
  /\ started \in 0 .. MaxRequests
  /\ behind \in [Sessions -> SUBSET UserIds]
  /\ outdated \subseteq UserIds

(* The registered users are as create_user left them; a device holds any   *)
(* of the people enrolled at its keypad, each under one uid.               *)
Init ==
  /\ \E uid \in [Registered -> Uids], form \in [Registered -> Forms] :
        /\ \A u, w \in Registered : uid[u] = uid[w] => u = w
        /\ db = [u \in UserIds |->
                   IF u \in Registered THEN NewRow(uid[u], form[u]) ELSE None]
  /\ dev \in [Devices -> [Uids -> Enrolled \cup {None}]]
  /\ \A d \in Devices, i, j \in Uids :
        dev[d][i] # None /\ dev[d][j] # None /\ dev[d][i].user_id = dev[d][j].user_id => i = j
  /\ req = [s \in Sessions |-> Idle]
  /\ started = 0
  /\ behind = [s \in Sessions |-> {}]
  /\ outdated = {}

-----------------------------------------------------------------------------
(* A step of session s that leaves it with request r and has changed the   *)
(* rows of `written`: other sessions that hold one of them fall behind.     *)
Move(s, r, written) ==
  /\ req' = [req EXCEPT ![s] = r]
  /\ behind' = [t \in Sessions |->
                  IF t = s THEN {u \in behind[s] : r.loaded[u] # None}
                  ELSE behind[t] \cup {u \in written : req[t].loaded[u] # None}]

At(s, pc) == req[s].pc = pc
Goto(s, r) == Move(s, r, {})
Finish(s) == Goto(s, Idle)

Begin(s, op, r) ==
  /\ req[s] = Idle
  /\ op \in Ops
  /\ started < MaxRequests
  /\ started' = started + 1
  /\ Goto(s, r)

(* The table after session s flushed, and what may fail on the way: a      *)
(* user_id inserted twice, a uid twice in the result, or an UPDATE that     *)
(* meets a uid another row has not given up yet (the rows are updated one   *)
(* by one, in the order of their ids).                                      *)
Flush(s) == [u \in UserIds |-> Flushed(db[u], req[s].loaded[u], req[s].mem[u])]

UniqueUids(table) ==
  \A u, w \in UserIds :
    table[u] # None /\ table[w] # None /\ table[u].uid = table[w].uid => u = w

InsertsTwice(s) ==
  \E u \in UserIds : req[s].loaded[u] = None /\ req[s].mem[u] # None /\ db[u] # None

MeetsHeldUid(s) ==
  \E u, w \in UserIds :
    /\ req[s].loaded[u] # None /\ req[s].loaded[u].uid # req[s].mem[u].uid
    /\ u # w /\ db[w] # None /\ db[w].uid = req[s].mem[u].uid

(* Users whose row s changed in memory although the row has been written   *)
(* since, or the device no longer holds the snapshot s compared it with.   *)
Overtaken(s) ==
  {u \in UserIds :
     /\ req[s].mem[u] # req[s].loaded[u]
     /\ \/ u \in behind[s]
        \/ req[s].op \in ImportModes /\ req[s].snapshot # dev[req[s].device]}

(* await db.commit() at the end of a handler; an IntegrityError rolls the  *)
(* transaction back and ends the request with status 500.                  *)
Commit(s) ==
  /\ At(s, "commit")
  /\ \/ /\ ~InsertsTwice(s)
        /\ UniqueUids(Flush(s))
        /\ db' = Flush(s)
        /\ outdated' = outdated \cup Overtaken(s)
        /\ Move(s, Idle, {u \in UserIds : Flush(s)[u] # db[u]})
     \/ /\ InsertsTwice(s) \/ ~UniqueUids(Flush(s)) \/ MeetsHeldUid(s)
        /\ Finish(s)
        /\ UNCHANGED <<db, outdated>>
  /\ UNCHANGED <<dev, started>>

-----------------------------------------------------------------------------
(* create_user and update_user *)
BeginCreate(s, u, form) ==
  /\ Begin(s, "create", [Idle EXCEPT !.pc = "check_name", !.op = "create",
                                     !.user = u, !.form = form])
  /\ UNCHANGED <<db, dev, outdated>>

BeginUpdate(s, u, form) ==
  /\ db[u] # None
  /\ Begin(s, "update", [Idle EXCEPT !.pc = "check_name", !.op = "update",
                                     !.user = u, !.form = form,
                                     !.loaded[u] = db[u], !.mem[u] = db[u]])
  /\ UNCHANGED <<db, dev, outdated>>

(* _ensure_unique_fields: by user_id and name, then, unless it is 0, by    *)
(* card; a row of somebody else with the value is a DuplicateUserFieldError.*)
NameTaken(u, name) == \E w \in UserIds : w # u /\ db[w] # None /\ db[w].name = name
CardTaken(u, card) == \E w \in UserIds : w # u /\ db[w] # None /\ db[w].card = card

CheckName(s) ==
  LET q == req[s] IN
  /\ At(s, "check_name")
  /\ IF \/ q.op = "create" /\ db[q.user] # None
        \/ NameTaken(q.user, q.form.name)
     THEN Finish(s)
     ELSE Goto(s, [q EXCEPT !.pc = "check_card"])
  /\ UNCHANGED <<db, dev, started, outdated>>

CheckCard(s) ==
  LET q == req[s] IN
  /\ At(s, "check_card")
  /\ IF q.form.card # NoCard /\ CardTaken(q.user, q.form.card)
     THEN Finish(s)
     ELSE Goto(s, IF q.op = "create"
                  THEN [q EXCEPT !.pc = "max_uid"]
                  ELSE [q EXCEPT !.pc = "commit",
                                 !.mem[q.user] = UpdatedRow(@, q.form)])
  /\ UNCHANGED <<db, dev, started, outdated>>

(* get_max_uid, and the row built with the next uid; one that the column    *)
(* cannot hold fails the INSERT.                                           *)
NextUid == Max({db[u].uid : u \in {w \in UserIds : db[w] # None}} \cup {0}) + 1

AssignUid(s) ==
  LET q == req[s] IN
  /\ At(s, "max_uid")
  /\ IF NextUid \in Uids
     THEN Goto(s, [q EXCEPT !.pc = "commit", !.mem[q.user] = NewRow(NextUid, q.form)])
     ELSE Finish(s)
  /\ UNCHANGED <<db, dev, started, outdated>>

(* delete_user *)
BeginDelete(s, u) ==
  /\ db[u] # None
  /\ Begin(s, "delete", [Idle EXCEPT !.pc = "commit", !.op = "delete", !.user = u,
                                     !.loaded[u] = db[u], !.mem[u] = DismissedRow(db[u])])
  /\ UNCHANGED <<db, dev, outdated>>

(* get_users: one page of rows, put in the state their cards imply; the    *)
(* request commits only if that changed a row.                             *)
Page(rows, page) == [u \in UserIds |-> IF u \in page THEN rows[u] ELSE None]

BeginList(s, page) ==
  LET shown == [u \in UserIds |->
                  IF db[u] = None THEN None ELSE ApplySyncedCardState(db[u], FALSE)]
  IN /\ Page(shown, page) # Page(db, page)
     /\ Begin(s, "list", [Idle EXCEPT !.pc = "commit", !.op = "list",
                                      !.loaded = Page(db, page), !.mem = Page(shown, page)])
     /\ UNCHANGED <<db, dev, outdated>>

-----------------------------------------------------------------------------
(* sync_user_to_device and sync_pending_users.  Only a row that was loaded *)
(* as pending or pending_disable does anything; `queue` holds the users of *)
(* a batch still to be sent, from the rows loaded when the batch began.    *)
IsPending_RetriesFailed(r) ==   \* mutated form
  r.sync_status \in {"pending", "pending_disable", "failed"}

IsPending(r) == r.sync_status \in {"pending", "pending_disable"}

BeginSync(s, u, d) ==
  /\ db[u] # None /\ IsPending(db[u])
  /\ Begin(s, "sync", [Idle EXCEPT !.pc = "sync_next", !.op = "sync", !.device = d,
                                   !.queue = {u}, !.loaded[u] = db[u], !.mem[u] = db[u]])
  /\ UNCHANGED <<db, dev, outdated>>

BeginBatch(s, d) ==
  LET pending == {u \in UserIds : db[u] # None /\ IsPending(db[u])} IN
  /\ pending # {}
  /\ Begin(s, "batch", [Idle EXCEPT !.pc = "sync_next", !.op = "batch", !.device = d,
                                    !.queue = pending,
                                    !.loaded = Page(db, pending), !.mem = Page(db, pending)])
  /\ UNCHANGED <<db, dev, outdated>>

SyncNext_Requeues(s) ==   \* mutated form: the user stays in the queue
  LET q == req[s] IN
  /\ At(s, "sync_next")
  /\ \/ q.queue = {} /\ Finish(s)
     \/ \E u \in q.queue :
          IF q.loaded[u] = None THEN Goto(s, [q EXCEPT !.loaded[u] = db[u], !.mem[u] = db[u]])
                                ELSE Goto(s, [q EXCEPT !.pc = "sync_save", !.user = u])
  /\ UNCHANGED <<db, dev, started, outdated>>

SyncNext(s) ==
  LET q == req[s] IN
  /\ At(s, "sync_next")
  /\ \/ q.queue = {} /\ Finish(s)
     \/ \E u \in q.queue :
          Goto(s, [q EXCEPT !.pc = "sync_save", !.user = u, !.queue = @ \ {u}])
  /\ UNCHANGED <<db, dev, started, outdated>>

SavedEntry(u, r) == IF r.sync_status = "pending" THEN FullEntry(u, r) ELSE BlankEntry(u, r)

(* client.save_user in a worker thread.  The device may take the entry, or *)
(* refuse it, or take it and its answer be lost; an exception leaves the   *)
(* row to be committed as failed.                                          *)
SyncSave(s) ==
  LET q == req[s]  u == q.user  r == q.mem[u]
      touched == {u} \cup {w \in UserIds : db[w] # None /\ db[w].uid = r.uid}
  IN
  /\ At(s, "sync_save")
  /\ \E taken, answered \in BOOLEAN :
       /\ answered => taken
       /\ dev' = IF taken THEN [dev EXCEPT ![q.device][r.uid] = SavedEntry(u, r)] ELSE dev
       /\ outdated' = IF taken /\ u \in behind[s] THEN outdated \cup touched ELSE outdated
       /\ Goto(s, IF answered
                  THEN [q EXCEPT !.pc = "sync_verify"]
                  ELSE [q EXCEPT !.pc = "sync_commit", !.mem[u].sync_status = "failed"])
  /\ UNCHANGED <<db, started>>

(* The read-back looks at the first entry with this user_id: the whole row *)
(* must be there for `pending`, card and password be gone for              *)
(* `pending_disable`.  A device error, a missing or a different entry fail.*)
ReadBackOk(q, u, i) ==
  LET r == q.mem[u]  e == dev[q.device][i] IN
  /\ e # None /\ e.user_id = u
  /\ IF r.sync_status = "pending" THEN SameOnDevice(u, r, i, e) ELSE IsBlank(e)

SyncedRow_KeepsCard(r) ==   \* mutated form
  IF r.sync_status = "pending"
  THEN [r EXCEPT !.sync_status = "synced"]
  ELSE [r EXCEPT !.sync_status = "synced_disabled", !.password = NoPassword]

SyncedRow(r) ==
  IF r.sync_status = "pending"
  THEN [r EXCEPT !.sync_status = "synced"]
  ELSE [r EXCEPT !.sync_status = "synced_disabled", !.password = NoPassword, !.card = NoCard]

SyncVerify(s) ==
  LET q == req[s]  u == q.user IN
  /\ At(s, "sync_verify")
  /\ \/ /\ \E i \in Uids : ReadBackOk(q, u, i)
        /\ Goto(s, [q EXCEPT !.pc = "sync_commit", !.mem[u] = SyncedRow(@)])
     \/ Goto(s, [q EXCEPT !.pc = "sync_commit", !.mem[u].sync_status = "failed"])
  /\ UNCHANGED <<db, dev, started, outdated>>

SyncCommit_WholeRow(s) ==   \* mutated form: every column is written
  LET q == req[s]  u == q.user  row == q.mem[u] IN
  /\ At(s, "sync_commit")
  /\ db' = [db EXCEPT ![u] = row]
  /\ outdated' = outdated \cup ({u} \cap behind[s])
  /\ Move(s, [q EXCEPT !.pc = "sync_next", !.user = None, !.loaded[u] = None, !.mem[u] = None],
          IF row = db[u] THEN {} ELSE {u})
  /\ UNCHANGED <<dev, started>>

(* The commit of one user; the session forgets the row, nothing reads it   *)
(* again in this request.                                                  *)
SyncCommit(s) ==
  LET q == req[s]  u == q.user  row == Flushed(db[u], q.loaded[u], q.mem[u]) IN
  /\ At(s, "sync_commit")
  /\ db' = [db EXCEPT ![u] = row]
  /\ outdated' = outdated \cup ({u} \cap behind[s])
  /\ Move(s, [q EXCEPT !.pc = "sync_next", !.user = None, !.loaded[u] = None, !.mem[u] = None],
          IF row = db[u] THEN {} ELSE {u})
  /\ UNCHANGED <<dev, started>>

-----------------------------------------------------------------------------
(* sync_users_from_device: get_users of the device, SELECT of every row,   *)
(* one pass over the device's list, and a commit unless it is a preview.   *)
BeginImport(s, mode, d) ==
  /\ mode \in ImportModes
  /\ Begin(s, mode, [Idle EXCEPT !.pc = "import_read", !.op = mode, !.device = d,
                                 !.snapshot = dev[d],
                                 !.todo = {i \in Uids : dev[d][i] # None}])
  /\ UNCHANGED <<db, dev, outdated>>

ImportRead(s) ==
  /\ At(s, "import_read")
  /\ Goto(s, [req[s] EXCEPT !.pc = "import", !.loaded = db, !.mem = db])
  /\ UNCHANGED <<db, dev, started, outdated>>

(* local_by_uid: the uids as loaded, and those of the rows inserted since. *)
UidOwners(q, i) ==
  {w \in UserIds : /\ q.mem[w] # None
                   /\ i = IF q.loaded[w] = None THEN q.mem[w].uid ELSE q.loaded[w].uid}

(* One iteration of the loop, on the session's own objects.  A conflicting *)
(* or different row is serialised for the answer, which applies the card   *)
(* rule to it in every mode.                                               *)
ImportEntry(s, i) ==
  LET q == req[s]  e == q.snapshot[i]  u == e.user_id  r == q.mem[u]
      next(mem) == Goto(s, [q EXCEPT !.mem = mem, !.todo = @ \ {i}])
  IN
  /\ At(s, "import") /\ i \in q.todo
  /\ \/ /\ r = None /\ UidOwners(q, i) # {}
        /\ next([w \in UserIds |-> IF w \in UidOwners(q, i)
                                   THEN ApplySyncedCardState(q.mem[w], FALSE) ELSE q.mem[w]])
     \/ /\ r = None /\ UidOwners(q, i) = {}
        /\ next(IF q.op = "preview" THEN q.mem ELSE [q.mem EXCEPT ![u] = ImportedRow(i, e)])
     \/ /\ r # None /\ SameOnDevice(u, r, i, e)
        /\ next(q.mem)
     \/ /\ r # None /\ ~SameOnDevice(u, r, i, e)
        /\ LET shown == ApplySyncedCardState(r, FALSE)
           IN next([q.mem EXCEPT ![u] = IF q.op = "overwrite_local"
                                        THEN OverwrittenRow(shown, i, e) ELSE shown])
  /\ UNCHANGED <<db, dev, started, outdated>>

ImportDone_Commits(s) ==   \* mutated form: a preview is committed too
  /\ At(s, "import") /\ req[s].todo = {}
  /\ Goto(s, [req[s] EXCEPT !.pc = "commit"])
  /\ UNCHANGED <<db, dev, started, outdated>>

ImportDone(s) ==
  /\ At(s, "import") /\ req[s].todo = {}
  /\ IF req[s].op = "preview" THEN Finish(s) ELSE Goto(s, [req[s] EXCEPT !.pc = "commit"])
  /\ UNCHANGED <<db, dev, started, outdated>>

-----------------------------------------------------------------------------
(* The process is restarted: requests in flight and their uncommitted      *)
(* changes are gone, what a device took stays.                             *)
Restart ==
  /\ \E s \in Sessions : req[s] # Idle
  /\ req' = [s \in Sessions |-> Idle]
  /\ behind' = [s \in Sessions |-> {}]
  /\ UNCHANGED <<db, dev, started, outdated>>

Call(s) ==
  \/ \E u \in UserIds, form \in Forms : BeginCreate(s, u, form) \/ BeginUpdate(s, u, form)
  \/ \E u \in UserIds : BeginDelete(s, u)
  \/ \E page \in SUBSET UserIds : BeginList(s, page)
  \/ \E d \in Devices : \/ \E u \in UserIds : BeginSync(s, u, d)
                        \/ BeginBatch(s, d)
                        \/ \E mode \in ImportModes : BeginImport(s, mode, d)

Step(s) ==
  \/ CheckName(s) \/ CheckCard(s) \/ AssignUid(s) \/ Commit(s)
  \/ SyncNext(s) \/ SyncSave(s) \/ SyncVerify(s) \/ SyncCommit(s)
  \/ ImportRead(s) \/ (\E i \in Uids : ImportEntry(s, i)) \/ ImportDone(s)

Next == Restart \/ \E s \in Sessions : Call(s) \/ Step(s)

Spec == Init /\ [][Next]_vars

(* A request that has been accepted goes on: the event loop resumes every  *)
(* coroutine whose await is over, database and device calls have timeouts. *)
FairSpec == Spec /\ \A s \in Sessions : WF_vars(Step(s))

-----------------------------------------------------------------------------
(* Properties *)

(* A user shown as synced has exactly this row on some device, unless a    *)
(* request acted on an outdated copy of it: the read-back check, the       *)
(* column-wise commits, restarts between device write and commit, lost     *)
(* answers and imports together never announce what is not there.          *)
SyncedMatchesDevice ==
  \A u \in UserIds \ outdated :
    db[u] # None /\ db[u].sync_status = "synced"
      => \E d \in Devices : dev[d][db[u].uid] = FullEntry(u, db[u])

(* A user shown as synced_disabled has no card and no password in the      *)
(* table and no card on some device, with the same exception.              *)
DisabledIsBlank ==
  \A u \in UserIds \ outdated :
    db[u] # None /\ db[u].sync_status = "synced_disabled"
      => /\ IsBlank(db[u])
         /\ \E d \in Devices : /\ dev[d][db[u].uid] # None
                              /\ dev[d][db[u].uid].user_id = u
                              /\ dev[d][db[u].uid].card = NoCard

(* What an operator enters. *)
Entered(r) == <<r.name, r.card, r.password>>

(* Session s commits an update or an overwriting import, and writes to u   *)
(* only the columns that this request itself has changed.                  *)
Enters(s, u) ==
  /\ At(s, "commit") /\ req[s].op \in {"update", "overwrite_local"}
  /\ \A c \in {"name", "card", "password"} :
       db'[u][c] # db[u][c] => /\ db'[u][c] = req[s].mem[u][c]
                               /\ req[s].mem[u][c] # req[s].loaded[u][c]

(* Session s clears what the row it has read says has to go: card and       *)
(* password of a dismissed user whom a device was told to forget, and the  *)
(* password of a user without a card.                                      *)
Clears(s, u) ==
  LET read == req[s].loaded[u] IN
  /\ db'[u].name = db[u].name
  /\ \/ /\ At(s, "sync_commit") /\ read.sync_status = "pending_disable"
        /\ db'[u].card \in {db[u].card, NoCard}
        /\ db'[u].password \in {db[u].password, NoPassword}
     \/ /\ At(s, "commit") /\ req[s].op \in {"list", "write_missing"} /\ read.card = NoCard
        /\ db'[u].card = db[u].card
        /\ db'[u].password = NoPassword
  /\ read # db[u] => u \in outdated'

(* What an operator entered survives the requests that work on an older    *)
(* copy of it, except that they may clear it.  A name, card or password     *)
(* changes only in the step of a session that enters it or clears it; no   *)
(* request writes back a value that another has replaced, and nothing is    *)
(* cleared but for the two reasons above.  The exemption: the reason is     *)
(* looked for in the row as it was read, so the card and the password of an *)
(* update that commits before the clearing does are lost (user.py:161-165,  *)
(* 397).  Such a row counts as outdated; UpdatesWait shows the loss.        *)
EditsSurvive ==
  [][\A u \in UserIds :
       db[u] # None /\ Entered(db'[u]) # Entered(db[u])
       => \E s \in Sessions : req'[s] # req[s] /\ (Enters(s, u) \/ Clears(s, u))]_vars

(* A failed user is not retried: no synchronisation and no listing takes a *)
(* row out of `failed`, only an edit, a dismissal or an overwriting import *)
(* does (again unless a request acted on an outdated copy of the row).     *)
FailedNeedsEdit ==
  [][\A u \in UserIds \ outdated' :
       db[u] # None /\ db[u].sync_status = "failed" /\ db'[u].sync_status # "failed"
       => \E s \in Sessions : /\ req'[s] # req[s] /\ At(s, "commit")
                              /\ req[s].op \in {"update", "delete", "overwrite_local"}]_vars

(* A preview changes neither the table nor a device, though it changes the *)
(* rows its session holds (API-Reference: "preview").                      *)
PreviewIsReadOnly ==
  [][\A s \in Sessions : req[s].op = "preview" /\ req'[s] # req[s] => UNCHANGED <<db, dev>>]_vars

(* Every accepted request ends, whatever the device answers. *)
RequestsEnd == \A s \in Sessions : req[s] # Idle ~> req[s] = Idle

-----------------------------------------------------------------------------
(* The inductive invariant behind SyncedMatchesDevice and DisabledIsBlank *)

(* What a request has at hand at each point of its handler. *)
RequestOK(q, table) ==
  /\ \A u \in UserIds : q.loaded[u] # None => table[u] # None /\ q.mem[u] # None
  /\ \A u \in q.queue : q.loaded[u] # None /\ q.mem[u] = q.loaded[u] /\ IsPending(q.mem[u])
  /\ \A i \in q.todo : q.snapshot[i] # None
  /\ q.pc = "idle" => q = Idle
  /\ q.pc \in {"check_name", "check_card", "max_uid"} =>
       /\ q.user # None /\ q.form # None
       /\ q.op \in {"create", "update"}
       /\ q.op = "update" => q.loaded[q.user] # None
  /\ IF q.pc \in {"sync_next", "sync_save", "sync_verify", "sync_commit"}
     THEN q.device # None /\ q.op \in {"sync", "batch"}
     ELSE q.queue = {}
  /\ q.pc \in {"sync_save", "sync_verify", "sync_commit"} =>
       q.user # None /\ q.loaded[q.user] # None /\ q.user \notin q.queue
  /\ q.op \in ImportModes => q.device # None
  /\ q.pc \in {"import_read", "import"} => q.op \in ImportModes
  /\ q.pc = "commit" => q.op \notin {"sync", "batch", "none"}

RequestsOK == \A s \in Sessions : RequestOK(req[s], db)

(* A session that is not behind on a row has the current one. *)
Fresh ==
  \A s \in Sessions, u \in UserIds :
    req[s].loaded[u] # None /\ u \notin behind[s] => req[s].loaded[u] = db[u]

(* What a request is about to write: nothing, the card rule applied to     *)
(* what it loaded, a row that asks for synchronisation, or a row taken     *)
(* from its device snapshot.                                               *)
TakenFrom(r, u, i, e) ==
  /\ e # None /\ e.user_id = u /\ r.uid = i /\ r.name = e.name /\ r.card = e.card
  /\ IF r.card = NoCard
     THEN r.password = NoPassword /\ r.sync_status = "synced_disabled"
     ELSE r.password = e.password /\ r.sync_status = "synced"

Justified(q, u) ==
  \/ q.mem[u] = q.loaded[u]
  \/ q.loaded[u] # None /\ q.mem[u] = ApplySyncedCardState(q.loaded[u], FALSE)
  \/ IsPending(q.mem[u])
  \/ q.op \in ImportModes /\ \E i \in Uids : TakenFrom(q.mem[u], u, i, q.snapshot[i])

WritesJustified ==
  \A s \in Sessions, u \in UserIds :
    req[s].op \notin {"sync", "batch"} => Justified(req[s], u)

(* Where a synchronisation is: what it has saved, and what it announces,   *)
(* given the users b it is behind on, the outdated ones and the devices.   *)
SyncOK(q, b, out, devs) ==
  LET u == q.user  r == q.loaded[u]
      current == u \notin b /\ u \notin out
      saved == devs[q.device][r.uid] = SavedEntry(u, r)
  IN
  /\ q.pc \in {"sync_save", "sync_verify"} => q.mem[u] = r
  /\ q.pc \in {"sync_save", "sync_verify", "sync_commit"} => IsPending(r)
  /\ q.pc = "sync_verify" /\ current => saved
  /\ q.pc = "sync_commit" =>
       \/ q.mem[u] = [r EXCEPT !.sync_status = "failed"]
       \/ q.mem[u] = SyncedRow(r) /\ (current => saved)

SyncsOK == \A s \in Sessions : SyncOK(req[s], behind[s], outdated, dev)

IInv ==
  /\ TypeOK /\ RequestsOK
  /\ UniqueUids(db)
  /\ Fresh
  /\ WritesJustified
  /\ SyncsOK
  /\ SyncedMatchesDevice
  /\ DisabledIsBlank

(* What a request may do to the rows it loaded, by operation: the          *)
(* invariant that EditsSurvive, FailedNeedsEdit and PreviewIsReadOnly need *)
(* besides IInv.                                                           *)
KeepsToOp(q) ==
  /\ q.op = "create" => \A u \in UserIds : q.loaded[u] = None
  /\ q.op = "preview" => q.pc # "commit"
  /\ \A u \in UserIds :
       q.loaded[u] # None /\ q.mem[u] # q.loaded[u] =>
         /\ q.op = "delete" => q.mem[u] = DismissedRow(q.loaded[u])
         /\ q.op \in {"list", "write_missing"} => q.mem[u] = ApplySyncedCardState(q.loaded[u], FALSE)

RequestsKeepToOp == \A s \in Sessions : KeepsToOp(req[s])

-----------------------------------------------------------------------------
(* What the documentation says and the code does not do. *)

(* `synced` means synchronised to a device (wiki/API-Reference.md:114). *)
SyncedMeansOnDevice ==
  \A u \in UserIds :
    db[u] # None /\ db[u].sync_status = "synced"
      => \E d \in Devices : dev[d][db[u].uid] = FullEntry(u, db[u])

(* An update leaves the user waiting to be synchronised                    *)
(* (wiki/API-Reference.md:94): until then, what it entered for a user with *)
(* a card changes only by another update or an overwriting import.         *)
UpdatesWait ==
  [][\A u \in UserIds :
       /\ db[u] # None /\ db[u].sync_status = "pending" /\ db[u].card # NoCard
       /\ Entered(db'[u]) # Entered(db[u])
       => \E s \in Sessions : req'[s] # req[s] /\ req[s].op \in {"update", "overwrite_local"}]_vars

(* A dismissed user waiting for synchronisation is disabled                *)
(* (tests/test_users.py:132).                                              *)
DismissedIsDisabled ==
  \A u \in UserIds :
    db[u] # None /\ db[u].sync_status = "pending_disable" => db[u].status = "disabled"

(* write_missing only inserts (wiki/API-Reference.md:106). *)
WriteMissingOnlyInserts ==
  [][\A s \in Sessions :
       At(s, "commit") /\ req[s].op = "write_missing" /\ req'[s] # req[s]
       => \A u \in UserIds : db[u] # None => db'[u] = db[u]]_vars
=============================================================================
