--------------------------- MODULE AccountsProofs ---------------------------
(***************************************************************************)
(* Theorems about ExportSettings and the accounts it extends, for any      *)
(* number of accounts, secrets and overlapping requests.  IInv joins what  *)
(* a request knows at each point of its way (ReqOK), that rows once seen   *)
(* stay (Known), the bound of the secrets, and what is known of the row of *)
(* the report's columns (ExportInv).                                       *)
(***************************************************************************)
EXTENDS ExportSettings, FiniteSetTheorems, TLAPS

TablesOK ==
  /\ users \in [Names -> UserRow \cup {None}]
  /\ secrets \in [SecretIds -> SecretRow \cup {None}]
  /\ tokens \subseteq Token

SignedOps == AdminOps \cup {"change"}

\* What a request knows.
ReqOK(q) ==
  /\ q.pc # "idle" => q.name \in Names
  /\ q.op \in {"create", "edit", "change"} => q.body \in Bodies
  /\ q.op \in SignedOps \ {"list"} => q.target \in Names
  /\ q.op = "change" => q.target = q.name
  /\ q.op = "revoke" => q.id \in SecretIds
  /\ q.actor = q.standing /\ (q.actor # None => q.name \in Names)
  /\ q.pc \in {"auth", "stamp"} => q.op \in SignedOps
  /\ q.pc = "stamp" => q.standing \in UserRow /\ q.standing.active
  /\ q.pc \in {"load", "count", "secret", "commit"} =>
       /\ q.op \in SignedOps \ {"list"}
       /\ q.standing \in UserRow /\ q.standing.active
       /\ q.op # "change" => q.standing.role = "admin"
  /\ q.pc = "count" => q.op = "create_secret"
  /\ q.pc = "secret" => q.op = "revoke"
  /\ q.pc \in {"load", "count", "secret"} => q.op # "change"
  /\ q.pc = "commit" /\ q.op \in {"edit", "change"} => q.loaded \in UserRow

\* Rows that it has seen are still there.
Known(q) ==
  /\ q.actor # None => users[q.name] # None
  /\ q.pc = "ensure" /\ q.loaded # None => users[BootstrapName] # None
  /\ q.pc = "commit" /\ q.op \in {"edit", "change"} => users[q.target] # None
  /\ q.pc \in {"commit"} /\ q.op = "revoke" => secrets[q.id] # None

ReqsOK == reqs \in [Reqs -> Req] /\ \A x \in Reqs : ReqOK(reqs[x])
ReqsKnown == \A x \in Reqs : Known(reqs[x])
ReqsInv == TablesOK /\ ReqsOK /\ ReqsKnown

\* Rows stay, and no secret becomes active.
UsersStay == \A n \in Names : users[n] # None => users'[n] # None
SecretsStay == \A s \in SecretIds : secrets[s] # None => secrets'[s] # None
NoneActivated ==
  \A s \in SecretIds : Active(s)' => Active(s) /\ secrets'[s].owner = secrets[s].owner

\* A request that is about to insert a secret.
Inserting(q) == q.pc = "commit" /\ q.op = "create_secret"

-----------------------------------------------------------------------------
(* Requests *)

LEMMA NoReqOK == NoReq \in Req /\ ReqOK(NoReq) /\ Known(NoReq) /\ Known(NoReq)' /\ ~Inserting(NoReq)
  BY DEF NoReq, Req, ReqOK, Known, Inserting, AdminOps, SignedOps

LEMMA BootstrapRowTyped == BootstrapRow \in UserRow
  BY AccountsAssumption DEF BootstrapRow, UserRow, Roles

LEMMA NewUserTyped ==
  ASSUME NEW b \in Bodies
  PROVE  NewUser(b) \in UserRow
  BY AccountsAssumption, BootstrapRowTyped DEF NewUser

LEMMA SavedTyped ==
  ASSUME NEW b \in Bodies, NEW loaded, NEW row \in UserRow
  PROVE  Saved(b, loaded, row) \in UserRow
<1> DEFINE all == [c \in DOMAIN row |-> IF c \in DOMAIN b THEN b[c] ELSE row[c]]
<1>1. all \in UserRow /\ DOMAIN row = {"role", "active", "pw"}
  BY AccountsAssumption DEF UserRow
<1>2. \A c \in DOMAIN row : Saved(b, loaded, row)[c] \in {all[c], row[c]}
  BY DEF Saved
<1>3. /\ DOMAIN Saved(b, loaded, row) = DOMAIN row
      /\ Saved(b, loaded, row) = [c \in DOMAIN row |-> Saved(b, loaded, row)[c]]
  BY DEF Saved
<1> HIDE DEF all
<1>4. /\ Saved(b, loaded, row)["role"] \in Roles
      /\ Saved(b, loaded, row)["active"] \in BOOLEAN
      /\ Saved(b, loaded, row)["pw"] \in Passwords
  BY <1>1, <1>2 DEF UserRow
<1> QED
  BY <1>1, <1>3, <1>4 DEF UserRow

LEMMA EnsuredTyped ==
  ASSUME NEW loaded \in UserRow, NEW row \in UserRow
  PROVE  Ensured(loaded, row) \in UserRow
  BY DEF Ensured, Saved, UserRow, Roles

(* What holds of a request that only moves on holds of all. *)
LEMMA ReqMoves ==
  ASSUME ReqsOK, ReqsKnown, UsersStay, SecretsStay, NEW x \in Reqs, NEW r \in Req, Put(x, r),
         ReqOK(r), Known(r)'
  PROVE  ReqsOK' /\ ReqsKnown'
<1>1. reqs' = [reqs EXCEPT ![x] = r] /\ reqs \in [Reqs -> Req]
  BY DEF Put, ReqsOK
<1>2. \A y \in Reqs : reqs'[y] = IF y = x THEN r ELSE reqs[y]
  BY <1>1
<1>3. reqs' \in [Reqs -> Req]
  BY <1>1
<1>4. ASSUME NEW y \in Reqs PROVE ReqOK(reqs'[y]) /\ Known(reqs[y])'
  <2>1. CASE y = x
    BY <2>1, <1>2 DEF Known
  <2>2. CASE y # x
    <3> DEFINE q == reqs[y]
    <3>1. q \in Req /\ ReqOK(q) /\ Known(q) /\ reqs'[y] = q
      BY <1>2, <2>2 DEF ReqsOK, ReqsKnown
    <3>2. q.name \in Names \cup {None} /\ q.target \in Names \cup {None} /\ q.id \in SecretIds \cup {None}
      BY <3>1 DEF Req
    <3>3. Known(reqs[y])'
      BY <3>1, <3>2, AccountsAssumption DEF Known, UsersStay, SecretsStay, ReqOK, SignedOps, AdminOps
    <3> QED BY <3>1, <3>3
  <2> QED BY <2>1, <2>2
<1> QED
  BY <1>3, <1>4 DEF ReqsOK, ReqsKnown

-----------------------------------------------------------------------------
(* Actions *)

\* A request moves on, knowing what it has to know; one that is about to
\* insert a secret has just counted them.
Moved(x) ==
  \E r \in Req : Put(x, r) /\ ReqOK(r) /\ Known(r)' /\ (Inserting(r) => CountSecrets(x))

TablesSame == UNCHANGED <<users, secrets, tokens>>

LEMMA MovedTo ==
  ASSUME NEW x, NEW r \in Req, Put(x, r), ReqOK(r), Known(r), TablesSame,
         Inserting(r) => CountSecrets(x)
  PROVE  Moved(x) /\ TablesSame
<1>1. Known(r)'
  BY DEF Known, TablesSame
<1> QED
  BY <1>1 DEF Moved

LEMMA OverMoves ==
  ASSUME NEW x, Over(x), TablesSame
  PROVE  Moved(x) /\ TablesSame
  BY NoReqOK, MovedTo DEF Over

LEMMA LoginAsked ==
  ASSUME ReqsInv, NEW x \in Reqs, NEW name \in Names, NEW pw \in Passwords, AskLogin(x, name, pw)
  PROVE  Moved(x) /\ TablesSame
<1> DEFINE r == [NoReq EXCEPT !.pc = "bootstrap", !.name = name, !.body = [pw |-> pw]]
<1>1. r \in Req /\ ReqOK(r) /\ Known(r) /\ ~Inserting(r)
  BY DEF NoReq, Req, ReqOK, Known, Inserting, AdminOps, SignedOps
<1>2. Put(x, r) /\ TablesSame
  BY DEF AskLogin, Ask, TablesSame
<1> QED
  BY <1>1, <1>2, MovedTo

LEMMA RefreshAsked ==
  ASSUME ReqsInv, NEW x \in Reqs, NEW token \in tokens, AskRefresh(x, token)
  PROVE  Moved(x) /\ TablesSame
<1> DEFINE r == [NoReq EXCEPT !.pc = "account", !.op = "refresh", !.name = token.sub]
<1>1. token.sub \in Names
  BY DEF ReqsInv, TablesOK, Token
<1>2. r \in Req /\ ReqOK(r) /\ Known(r) /\ ~Inserting(r)
  BY <1>1 DEF NoReq, Req, ReqOK, Known, Inserting, AdminOps, SignedOps
<1>3. Put(x, r) /\ TablesSame
  BY DEF AskRefresh, Ask, TablesSame
<1> QED
  BY <1>2, <1>3, MovedTo

LEMMA SignedAsked ==
  ASSUME ReqsInv, NEW x \in Reqs, NEW name \in Names, NEW with \in SecretIds \cup {None},
         AskSigned(x, name, with)
  PROVE  Moved(x) /\ TablesSame
<1> DEFINE List == Signed("list", name, with)
           Create(target) == [Signed("create_secret", name, with) EXCEPT !.target = target]
           Revoke(target, id) == [Signed("revoke", name, with) EXCEPT !.target = target, !.id = id]
           OfBody(op, target, body) == [Signed(op, name, with) EXCEPT !.target = target, !.body = body]
           Right(r) == r \in Req /\ ReqOK(r) /\ Known(r) /\ ~Inserting(r)
<1>1. Right(List)
  BY DEF Signed, NoReq, Req, ReqOK, Known, Inserting, AdminOps, SignedOps
<1>2. \A target \in Names : Right(Create(target))
  BY DEF Signed, NoReq, Req, ReqOK, Known, Inserting, AdminOps, SignedOps
<1>3. ASSUME NEW target \in Names, NEW id \in SecretIds PROVE Right(Revoke(target, id))
  <2> DEFINE r == Revoke(target, id)
  <2>1. r = [NoReq EXCEPT !.pc = "auth", !.op = "revoke", !.name = name, !.with = with, !.target = target, !.id = id]
    BY DEF Signed, NoReq
  <2>2. r \in Req
    BY <2>1, <1>3 DEF NoReq, Req, AdminOps
  <2>3. ReqOK(r) /\ Known(r) /\ ~Inserting(r)
    BY <2>1, <1>3 DEF NoReq, ReqOK, Known, Inserting, AdminOps, SignedOps
  <2> QED BY <2>2, <2>3
<1>4. ASSUME NEW op \in {"edit", "create"}, NEW target \in Names, NEW body \in Bodies
      PROVE  Right(OfBody(op, target, body))
  <2> DEFINE r == OfBody(op, target, body)
  <2>1. r = [NoReq EXCEPT !.pc = "auth", !.op = op, !.name = name, !.with = with, !.target = target, !.body = body]
    BY DEF Signed, NoReq
  <2>2. r \in Req
    BY <2>1, <1>4 DEF NoReq, Req, AdminOps
  <2>3. ReqOK(r) /\ Known(r) /\ ~Inserting(r)
    BY <2>1, <1>4 DEF NoReq, ReqOK, Known, Inserting, AdminOps, SignedOps
  <2> QED BY <2>2, <2>3
<1>5. \A body \in Bodies : Right(OfBody("change", name, body))
  BY DEF Signed, NoReq, Req, ReqOK, Known, Inserting, AdminOps, SignedOps
<1>6. \E r : Ask(x, r) /\ Right(r)
  <2> HIDE DEF Right, List, Create, Revoke, OfBody
  <2>1. \/ Ask(x, List)
        \/ \E target \in Names : Ask(x, Create(target))
        \/ \E target \in Names, id \in SecretIds : Ask(x, Revoke(target, id))
        \/ \E op \in {"edit", "create"}, target \in Names, body \in Bodies : Ask(x, OfBody(op, target, body))
        \/ \E body \in Bodies : Ask(x, OfBody("change", name, body))
    <3> USE DEF List, Create, Revoke, OfBody
    <3> QED BY DEF AskSigned
  <2> QED
    BY <2>1, <1>1, <1>2, <1>3, <1>4, <1>5
<1>7. PICK r : Ask(x, r) /\ Right(r)
  BY <1>6
<1>8. Put(x, r) /\ TablesSame
  BY <1>7 DEF Ask, TablesSame
<1> QED
  BY <1>7, <1>8, MovedTo

LEMMA SomethingAsked ==
  ASSUME ReqsInv, NEW x \in Reqs,
         (\E name \in Names, pw \in Passwords : AskLogin(x, name, pw)) \/ AskWithToken(x) \/ AskWithSecret(x)
  PROVE  Moved(x) /\ TablesSame
<1>1. CASE AskWithToken(x)
  <2>1. PICK token \in tokens : AskRefresh(x, token) \/ AskSigned(x, token.sub, None)
    BY <1>1 DEF AskWithToken
  <2>2. token.sub \in Names
    BY DEF ReqsInv, TablesOK, Token
  <2> QED BY <2>1, <2>2, RefreshAsked, SignedAsked
<1>2. CASE AskWithSecret(x)
  <2>1. PICK s \in SecretIds : secrets[s] # None /\ AskSigned(x, secrets[s].owner, s)
    BY <1>2 DEF AskWithSecret
  <2>2. secrets[s].owner \in Names
    BY <2>1 DEF ReqsInv, TablesOK, SecretRow
  <2> QED BY <2>1, <2>2, SignedAsked
<1> QED
  BY <1>1, <1>2, LoginAsked

(* A request that is entered is about to do what it may. *)
LEMMA Enters ==
  ASSUME NEW x \in Reqs, NEW q \in Req, ReqOK(q), Known(q), Enter(x, q), TablesSame,
         q.op \in SignedOps, q.name \in Names, q.standing \in UserRow, q.standing.active
  PROVE  Moved(x) /\ TablesSame
<1>1. PICK r \in Entered(q) : Put(x, r)
  BY DEF Enter
<1>2. \/ r = NoReq
      \/ q.op = "list" /\ r = [q EXCEPT !.pc = "bootstrap"]
      \/ q.op \in AdminOps \ {"list"} /\ q.actor.role = "admin" /\ r = [q EXCEPT !.pc = "load"]
      \/ q.op = "change" /\ r = [q EXCEPT !.pc = "commit", !.loaded = q.actor]
  <2>1. CASE q.op = "change"
    BY <1>1, <2>1 DEF Entered, AdminOps
  <2>2. CASE q.op # "change" /\ q.actor.role # "admin"
    BY <1>1, <2>2 DEF Entered, AdminOps, SignedOps
  <2>3. CASE q.op # "change" /\ q.actor.role = "admin"
    BY <1>1, <2>3 DEF Entered, AdminOps, SignedOps
  <2> QED BY <2>1, <2>2, <2>3
<1>3. CASE q.op = "list" /\ r = [q EXCEPT !.pc = "bootstrap"]
  <2>1. r \in Req /\ ReqOK(r) /\ Known(r) /\ ~Inserting(r)
    BY <1>3 DEF Req, ReqOK, Known, Inserting, AdminOps, SignedOps
  <2> QED BY <2>1, <1>1, MovedTo
<1>4. CASE q.op \in AdminOps \ {"list"} /\ q.actor.role = "admin" /\ r = [q EXCEPT !.pc = "load"]
  <2>1. r \in Req /\ ReqOK(r) /\ Known(r) /\ ~Inserting(r)
    BY <1>4 DEF Req, ReqOK, Known, Inserting, AdminOps, SignedOps
  <2> QED BY <2>1, <1>1, MovedTo
<1>5. CASE q.op = "change" /\ r = [q EXCEPT !.pc = "commit", !.loaded = q.actor]
  <2>1. q.actor \in UserRow /\ q.actor # None /\ q.target = q.name
    BY <1>5, AccountsAssumption DEF ReqOK
  <2>2. r \in Req /\ ReqOK(r) /\ Known(r) /\ ~Inserting(r)
    BY <1>5, <2>1 DEF Req, ReqOK, Known, Inserting, AdminOps, SignedOps
  <2> QED BY <2>2, <1>1, MovedTo
<1> QED
  BY <1>1, <1>2, <1>3, <1>4, <1>5, OverMoves DEF Over

LEMMA AuthenticateMoves ==
  ASSUME ReqsInv, NEW x \in Reqs, Authenticate(x)
  PROVE  Moved(x) /\ TablesSame
<1> DEFINE q == reqs[x]
           row == users[q.name]
           known == [q EXCEPT !.actor = row, !.standing = row]
           stamp == [known EXCEPT !.pc = "stamp"]
<1>1. q \in Req /\ ReqOK(q) /\ Known(q) /\ q.pc = "auth" /\ TablesSame
  BY DEF ReqsInv, ReqsOK, ReqsKnown, Authenticate, TablesSame
<1>2. q.name \in Names /\ q.op \in SignedOps /\ row \in UserRow \cup {None}
  BY <1>1 DEF ReqOK, ReqsInv, TablesOK
<1>3. CASE Over(x)
  BY <1>1, <1>3, OverMoves
<1>4. CASE row # None /\ row.active /\ (Put(x, stamp) \/ Enter(x, known))
  <2>1. row \in UserRow
    BY <1>2, <1>4
  <2>2. known \in Req /\ ReqOK(known) /\ Known(known) /\ known.op = q.op /\ known.name = q.name /\ known.standing = row
    <3> HIDE DEF row
    <3>1. known \in Req
      BY <1>1, <2>1 DEF Req
    <3>2. known.pc = "auth" /\ known.op = q.op /\ known.name = q.name /\ known.actor = row /\ known.standing = row
            /\ known.body = q.body /\ known.target = q.target /\ known.id = q.id
      BY <1>1 DEF Req
    <3>3. ReqOK(known)
      <4> HIDE DEF known, q
      <4> QED BY <1>1, <1>2, <2>1, <3>2 DEF ReqOK
    <3>4. Known(known)
      <4>1. users[q.name] # None
        BY <1>4 DEF row
      <4> HIDE DEF known, q
      <4> QED BY <1>1, <1>2, <2>1, <3>2, <4>1 DEF Known
    <3> QED BY <3>1, <3>2, <3>3, <3>4
  <2>3. stamp \in Req /\ ReqOK(stamp) /\ Known(stamp) /\ ~Inserting(stamp)
    <3> HIDE DEF known, row
    <3>1. stamp \in Req /\ stamp.pc = "stamp"
      BY <2>2 DEF Req
    <3>2. /\ stamp.op = known.op /\ stamp.name = known.name /\ stamp.actor = known.actor /\ stamp.standing = known.standing
          /\ stamp.body = known.body /\ stamp.target = known.target /\ stamp.id = known.id
      BY <2>2 DEF Req
    <3> HIDE DEF stamp
    <3> QED BY <3>1, <3>2, <2>1, <2>2, <1>2, <1>4 DEF ReqOK, Known, Inserting
  <2>4. CASE Put(x, stamp)
    BY <2>3, <2>4, <1>1, MovedTo
  <2>5. CASE Enter(x, known)
    <3>1. known.op \in SignedOps /\ known.name \in Names /\ known.standing \in UserRow /\ known.standing.active
      BY <2>1, <2>2, <1>2, <1>4
    <3> HIDE DEF known
    <3> QED BY <2>2, <2>5, <3>1, <1>1, Enters
  <2> QED BY <1>4, <2>4, <2>5
<1> QED
  BY <1>3, <1>4 DEF Authenticate

LEMMA StampMoves ==
  ASSUME ReqsInv, NEW x \in Reqs, StampSecret(x)
  PROVE  Moved(x) /\ TablesSame
<1>1. reqs[x] \in Req /\ ReqOK(reqs[x]) /\ Known(reqs[x]) /\ reqs[x].pc = "stamp" /\ TablesSame
  BY DEF ReqsInv, ReqsOK, ReqsKnown, StampSecret, TablesSame
<1>2. reqs[x].op \in SignedOps /\ reqs[x].name \in Names /\ reqs[x].standing \in UserRow /\ reqs[x].standing.active
  BY <1>1 DEF ReqOK
<1> QED
  BY <1>1, <1>2, Enters DEF StampSecret

LEMMA FindBootstrapMoves ==
  ASSUME ReqsInv, NEW x \in Reqs, FindBootstrap(x)
  PROVE  Moved(x) /\ TablesSame
<1> DEFINE q == reqs[x]
           found == IF q.name = BootstrapName /\ q.actor # None THEN q.actor ELSE users[BootstrapName]
           r == [q EXCEPT !.pc = "ensure", !.loaded = found]
<1>1. q \in Req /\ ReqOK(q) /\ Known(q) /\ q.pc = "bootstrap" /\ TablesSame
  BY DEF ReqsInv, ReqsOK, ReqsKnown, FindBootstrap, TablesSame
<1>2. q.actor \in UserRow \cup {None}
  BY <1>1 DEF Req
<1>3. found \in UserRow \cup {None} /\ (found # None => users[BootstrapName] # None)
  BY <1>1, <1>2, AccountsAssumption DEF ReqsInv, TablesOK, Known
<1> HIDE DEF found
<1>4. r \in Req
  BY <1>1, <1>3 DEF Req
<1>5. /\ r.pc = "ensure" /\ r.loaded = found /\ r.op = q.op /\ r.name = q.name /\ r.actor = q.actor
      /\ r.standing = q.standing /\ r.body = q.body /\ r.target = q.target /\ r.id = q.id
  BY <1>1 DEF Req
<1>6. Put(x, r)
  BY DEF FindBootstrap, found
<1> HIDE DEF r, q
<1>7. ReqOK(r) /\ Known(r) /\ ~Inserting(r)
  BY <1>1, <1>3, <1>5 DEF ReqOK, Known, Inserting
<1> QED
  BY <1>1, <1>4, <1>6, <1>7, MovedTo

LEMMA LoadMoves ==
  ASSUME ReqsInv, NEW x \in Reqs, LoadUser(x)
  PROVE  Moved(x) /\ TablesSame
<1> DEFINE q == reqs[x]
           row == IF q.target = q.name THEN q.actor ELSE users[q.target]
           To(pc) == [q EXCEPT !.pc = pc]
           With == [q EXCEPT !.pc = "commit", !.loaded = row]
<1>1. q \in Req /\ ReqOK(q) /\ Known(q) /\ q.pc = "load" /\ TablesSame
  BY DEF ReqsInv, ReqsOK, ReqsKnown, LoadUser, TablesSame
<1>2. /\ q.op \in {"create", "edit", "create_secret", "revoke"} /\ q.target \in Names
      /\ q.actor \in UserRow \cup {None}
  BY <1>1 DEF Req, ReqOK, SignedOps, AdminOps
<1>3. row \in UserRow \cup {None} /\ (row # None => users[q.target] # None)
  BY <1>1, <1>2 DEF ReqsInv, TablesOK, Known
<1> HIDE DEF row
<1>4. \/ Over(x)
      \/ q.op = "create" /\ Put(x, To("commit"))
      \/ row # None /\ q.op = "edit" /\ Put(x, With)
      \/ q.op = "create_secret" /\ Put(x, To("count"))
      \/ q.op = "revoke" /\ Put(x, To("secret"))
  <2>1. CASE (row = None) # (q.op = "create")
    BY <1>2, <2>1 DEF LoadUser, row
  <2>2. CASE row = None /\ q.op = "create"
    BY <1>2, <2>2 DEF LoadUser, row
  <2>3. CASE row # None /\ q.op = "edit"
    BY <1>2, <2>3 DEF LoadUser, row
  <2>4. CASE row # None /\ q.op = "create_secret"
    BY <1>2, <2>4 DEF LoadUser, row
  <2>5. CASE row # None /\ q.op = "revoke"
    BY <1>2, <2>5 DEF LoadUser, row
  <2> QED BY <2>1, <2>2, <2>3, <2>4, <2>5, <1>2
<1>5. ASSUME NEW pc \in {"commit", "count", "secret"}, Put(x, To(pc)),
             \/ pc = "commit" /\ q.op = "create"
             \/ pc = "count" /\ q.op = "create_secret"
             \/ pc = "secret" /\ q.op = "revoke"
      PROVE  Moved(x) /\ TablesSame
  <2> DEFINE r == To(pc)
  <2>1. r \in Req
    BY <1>1, <1>5 DEF Req
  <2>2. /\ r.pc = pc /\ r.loaded = q.loaded /\ r.op = q.op /\ r.name = q.name /\ r.actor = q.actor
        /\ r.standing = q.standing /\ r.body = q.body /\ r.target = q.target /\ r.id = q.id
    BY <1>1 DEF Req
  <2>3. Put(x, r)
    BY <1>5
  <2> HIDE DEF r, q
  <2>4. ReqOK(r) /\ Known(r) /\ ~Inserting(r)
    BY <1>1, <1>2, <1>5, <2>2 DEF ReqOK, Known, Inserting, SignedOps
  <2> QED BY <1>1, <2>1, <2>3, <2>4, MovedTo
<1>6. ASSUME row # None, q.op = "edit", Put(x, With) PROVE Moved(x) /\ TablesSame
  <2> DEFINE r == With
  <2>1. r \in Req
    BY <1>1, <1>3, <1>6 DEF Req
  <2>2. /\ r.pc = "commit" /\ r.loaded = row /\ r.op = q.op /\ r.name = q.name /\ r.actor = q.actor
        /\ r.standing = q.standing /\ r.body = q.body /\ r.target = q.target /\ r.id = q.id
    BY <1>1 DEF Req
  <2>3. Put(x, r)
    BY <1>6
  <2> HIDE DEF r, q
  <2>4. ReqOK(r) /\ Known(r) /\ ~Inserting(r)
    BY <1>1, <1>2, <1>3, <1>6, <2>2 DEF ReqOK, Known, Inserting, SignedOps
  <2> QED BY <1>1, <2>1, <2>3, <2>4, MovedTo
<1> HIDE DEF To, With, q
<1> QED
  BY <1>1, <1>4, <1>5, <1>6, OverMoves

LEMMA CountMoves ==
  ASSUME ReqsInv, NEW x \in Reqs, CountSecrets(x)
  PROVE  Moved(x) /\ TablesSame
<1> DEFINE q == reqs[x]
           r == [q EXCEPT !.pc = "commit"]
<1>1. q \in Req /\ ReqOK(q) /\ Known(q) /\ q.pc = "count" /\ TablesSame
  BY DEF ReqsInv, ReqsOK, ReqsKnown, CountSecrets, TablesSame
<1>2. CASE Over(x)
  BY <1>1, <1>2, OverMoves
<1>3. CASE Put(x, r)
  <2>1. r \in Req
    BY <1>1 DEF Req
  <2>2. /\ r.pc = "commit" /\ r.loaded = q.loaded /\ r.op = q.op /\ r.name = q.name /\ r.actor = q.actor
        /\ r.standing = q.standing /\ r.body = q.body /\ r.target = q.target /\ r.id = q.id
    BY <1>1 DEF Req
  <2> HIDE DEF r, q
  <2>3. ReqOK(r) /\ Known(r)
    BY <1>1, <2>2 DEF ReqOK, Known
  <2> QED BY <1>1, <1>3, <2>1, <2>3, MovedTo
<1> QED
  BY <1>2, <1>3 DEF CountSecrets

LEMMA FindSecretMoves ==
  ASSUME ReqsInv, NEW x \in Reqs, FindSecret(x)
  PROVE  Moved(x) /\ TablesSame
<1> DEFINE q == reqs[x]
           r == [q EXCEPT !.pc = "commit"]
<1>1. q \in Req /\ ReqOK(q) /\ Known(q) /\ q.pc = "secret" /\ TablesSame
  BY DEF ReqsInv, ReqsOK, ReqsKnown, FindSecret, TablesSame
<1>2. CASE Over(x)
  BY <1>1, <1>2, OverMoves
<1>3. CASE Put(x, r) /\ secrets[q.id] # None
  <2>1. r \in Req
    BY <1>1 DEF Req
  <2>2. /\ r.pc = "commit" /\ r.loaded = q.loaded /\ r.op = q.op /\ r.name = q.name /\ r.actor = q.actor
        /\ r.standing = q.standing /\ r.body = q.body /\ r.target = q.target /\ r.id = q.id
    BY <1>1 DEF Req
  <2> HIDE DEF r, q
  <2>3. ReqOK(r) /\ Known(r) /\ ~Inserting(r)
    BY <1>1, <1>3, <2>2 DEF ReqOK, Known, Inserting
  <2> QED BY <1>1, <1>3, <2>1, <2>3, MovedTo
<1> QED
  BY <1>2, <1>3 DEF FindSecret

-----------------------------------------------------------------------------
(* Actions that write *)

LEMMA EnsureMoves ==
  ASSUME ReqsInv, NEW x \in Reqs, EnsureBootstrap(x)
  PROVE  Moved(x) /\ TablesOK' /\ UsersStay /\ UNCHANGED <<secrets, tokens>>
<1> DEFINE q == reqs[x]
           row == IF q.loaded = None THEN BootstrapRow ELSE Ensured(q.loaded, users[BootstrapName])
           r == [q EXCEPT !.pc = "account", !.loaded = None]
<1>1. q \in Req /\ ReqOK(q) /\ Known(q) /\ q.pc = "ensure" /\ UNCHANGED <<secrets, tokens>>
  BY DEF ReqsInv, ReqsOK, ReqsKnown, EnsureBootstrap
<1>2. BootstrapName \in Names /\ None \notin UserRow
  BY AccountsAssumption
<1>3. row \in UserRow
  <2>1. q.loaded \in UserRow \cup {None}
    BY <1>1 DEF Req
  <2>2. CASE q.loaded = None
    BY <2>2, BootstrapRowTyped
  <2>3. CASE q.loaded # None
    <3>1. users[BootstrapName] \in UserRow
      BY <1>1, <1>2, <2>3 DEF Known, ReqsInv, TablesOK
    <3> QED BY <3>1, <2>1, <2>3, EnsuredTyped
  <2> QED BY <2>2, <2>3
<1>4. UNCHANGED users \/ users' = [users EXCEPT ![BootstrapName] = row]
  BY DEF EnsureBootstrap
<1>5. TablesOK' /\ UsersStay
  <2> HIDE DEF row
  <2> QED BY <1>1, <1>2, <1>3, <1>4 DEF ReqsInv, TablesOK, UsersStay
<1>6. Put(x, NoReq) \/ (q.op = "login" /\ Put(x, r))
  BY DEF EnsureBootstrap, Over
<1>7. CASE Put(x, NoReq)
  BY <1>5, <1>1, <1>7, NoReqOK DEF Moved
<1>8. CASE q.op = "login" /\ Put(x, r)
  <2> HIDE DEF row
  <2>1. r \in Req
    BY <1>1, <1>3 DEF Req
  <2>2. /\ r.pc = "account" /\ r.op = q.op /\ r.name = q.name /\ r.actor = q.actor
        /\ r.standing = q.standing /\ r.body = q.body /\ r.target = q.target /\ r.id = q.id
    BY <1>1 DEF Req
  <2>3. PICK v : v = r
    OBVIOUS
  <2> HIDE DEF r, q
  <2>4. ReqOK(v) /\ ~Inserting(v)
    BY <1>1, <2>2, <2>3 DEF ReqOK, Inserting
  <2>5. v.actor # None => users[v.name] # None /\ v.name \in Names
    BY <1>1, <2>2, <2>3 DEF ReqOK, Known
  <2>6. Known(v)'
    BY <2>2, <2>3, <2>5, <1>5 DEF Known, UsersStay
  <2> QED BY <1>1, <1>5, <1>8, <2>1, <2>3, <2>4, <2>6 DEF Moved
<1> QED
  BY <1>1, <1>5, <1>6, <1>7, <1>8

LEMMA IssueMoves ==
  ASSUME ReqsInv, NEW x \in Reqs, IssueTokens(x)
  PROVE  Moved(x) /\ TablesOK' /\ UNCHANGED <<users, secrets>>
<1> DEFINE q == reqs[x]
           row == users[q.name]
           types == IF q.op = "login" THEN {"access", "refresh"} ELSE {"access"}
<1>1. q \in Req /\ ReqOK(q) /\ q.pc = "account" /\ UNCHANGED <<users, secrets>> /\ Put(x, NoReq)
  BY DEF ReqsInv, ReqsOK, IssueTokens, Over
<1>2. q.name \in Names
  BY <1>1 DEF ReqOK
<1>3. row \in UserRow \cup {None}
  BY <1>1, <1>2 DEF Req, ReqsInv, TablesOK
<1>4. UNCHANGED tokens \/ (row # None /\ tokens' = tokens \cup {[type |-> type, sub |-> q.name, role |-> row.role] : type \in types})
  BY DEF IssueTokens
<1>5. tokens' \subseteq Token
  <2> HIDE DEF q, row
  <2> QED BY <1>2, <1>3, <1>4 DEF ReqsInv, TablesOK, Token, UserRow
<1> QED
  BY <1>1, <1>5, NoReqOK DEF ReqsInv, TablesOK, Moved

LEMMA CommitMoves ==
  ASSUME ReqsInv, NEW x \in Reqs, CommitStep(x)
  PROVE  Moved(x) /\ TablesOK' /\ UsersStay /\ SecretsStay
<1> DEFINE q == reqs[x]
<1>1. q \in Req /\ ReqOK(q) /\ Known(q) /\ q.pc = "commit" /\ Put(x, NoReq) /\ UNCHANGED tokens
  BY DEF ReqsInv, ReqsOK, ReqsKnown, CommitStep, CommitNewUser, CommitEdit, CommitNewSecret, CommitRevocation, Over
<1>2. q.target \in Names /\ None \notin UserRow /\ None \notin SecretRow
  BY <1>1, AccountsAssumption DEF ReqOK
<1>3. Moved(x)
  BY <1>1, NoReqOK DEF Moved
<1>4. CASE CommitNewUser(x)
  <2>1. NewUser(q.body) \in UserRow
    BY <1>1, <1>4, NewUserTyped DEF CommitNewUser, ReqOK
  <2> QED BY <2>1, <1>1, <1>2, <1>3, <1>4 DEF CommitNewUser, ReqsInv, TablesOK, UsersStay, SecretsStay
<1>5. CASE CommitEdit(x)
  <2> DEFINE row == Saved(q.body, q.loaded, users[q.target])
  <2>1. users[q.target] \in UserRow
    BY <1>1, <1>2, <1>5 DEF CommitEdit, Known, ReqsInv, TablesOK
  <2>2. row \in UserRow
    <3>1. q.body \in Bodies
      BY <1>1, <1>5 DEF CommitEdit, ReqOK
    <3> QED BY <2>1, <3>1, SavedTyped
  <2>3. users' = [users EXCEPT ![q.target] = row] /\ UNCHANGED secrets
    BY <1>5 DEF CommitEdit
  <2> HIDE DEF row
  <2> QED BY <2>2, <2>3, <1>1, <1>2, <1>3 DEF ReqsInv, TablesOK, UsersStay, SecretsStay
<1>6. CASE CommitNewSecret(x)
  <2>1. PICK s \in SecretIds :
          secrets' = [secrets EXCEPT ![s] = [owner |-> q.target, revoked |-> FALSE, expired |-> FALSE]]
    BY <1>6 DEF CommitNewSecret
  <2>2. UNCHANGED users
    BY <1>6 DEF CommitNewSecret
  <2>3. [owner |-> q.target, revoked |-> FALSE, expired |-> FALSE] \in SecretRow
    BY <1>2 DEF SecretRow
  <2> QED BY <2>1, <2>2, <2>3, <1>1, <1>2, <1>3 DEF ReqsInv, TablesOK, UsersStay, SecretsStay
<1>7. CASE CommitRevocation(x)
  <2>1. q.id \in SecretIds /\ secrets[q.id] \in SecretRow
    BY <1>1, <1>7 DEF CommitRevocation, ReqOK, Known, ReqsInv, TablesOK
  <2>2. [secrets[q.id] EXCEPT !.revoked = TRUE] \in SecretRow
    BY <2>1 DEF SecretRow
  <2>3. secrets' = [secrets EXCEPT ![q.id] = [secrets[q.id] EXCEPT !.revoked = TRUE]] /\ UNCHANGED users
    BY <1>7 DEF CommitRevocation
  <2> QED BY <2>1, <2>2, <2>3, <1>1, <1>2, <1>3 DEF ReqsInv, TablesOK, UsersStay, SecretsStay
<1> QED
  BY <1>4, <1>5, <1>6, <1>7 DEF CommitStep

(* What holds of the requests after a step that moves one of them. *)
LEMMA MovedKeeps ==
  ASSUME ReqsInv, NEW x \in Reqs, Moved(x), TablesOK', UsersStay, SecretsStay
  PROVE  ReqsInv'
<1>1. PICK r \in Req : Put(x, r) /\ ReqOK(r) /\ Known(r)'
  BY DEF Moved
<1> QED
  BY <1>1, ReqMoves DEF ReqsInv

LEMMA SameStays ==
  /\ UNCHANGED users => UsersStay
  /\ UNCHANGED secrets => SecretsStay
  /\ (TablesSame /\ TablesOK => TablesOK' /\ UsersStay /\ SecretsStay)
  BY DEF UsersStay, SecretsStay, TablesSame, TablesOK

LEMMA RequestStepMoves ==
  ASSUME ReqsInv, NEW x \in Reqs, RequestStep(x)
  PROVE  Moved(x) /\ TablesOK' /\ UsersStay /\ SecretsStay
<1>1. TablesOK
  BY DEF ReqsInv
<1>2. CASE Authenticate(x) \/ StampSecret(x) \/ FindBootstrap(x) \/ LoadUser(x) \/ CountSecrets(x) \/ FindSecret(x)
  <2>1. Moved(x) /\ TablesSame
    BY <1>2, AuthenticateMoves, StampMoves, FindBootstrapMoves, LoadMoves, CountMoves, FindSecretMoves
  <2> QED BY <1>1, <2>1, SameStays
<1>3. CASE EnsureBootstrap(x)
  BY <1>3, EnsureMoves, SameStays
<1>4. CASE IssueTokens(x)
  BY <1>4, IssueMoves, SameStays
<1>5. CASE CommitStep(x)
  BY <1>5, CommitMoves
<1> QED
  BY <1>2, <1>3, <1>4, <1>5 DEF RequestStep

\* A step of the accounts: a request moves, a secret expires, or all begin anew.
RequestMoves(x) ==
  \/ (\E name \in Names, pw \in Passwords : AskLogin(x, name, pw)) \/ AskWithToken(x) \/ AskWithSecret(x)
  \/ RequestStep(x) \/ RequestFails(x)

LEMMA RequestMovesOn ==
  ASSUME ReqsInv, NEW x \in Reqs, RequestMoves(x)
  PROVE  Moved(x) /\ TablesOK' /\ UsersStay /\ SecretsStay
<1>1. TablesOK
  BY DEF ReqsInv
<1>2. CASE RequestStep(x)
  BY <1>2, RequestStepMoves
<1>3. CASE RequestFails(x)
  <2>1. Over(x) /\ TablesSame
    BY <1>3 DEF RequestFails, TablesSame
  <2> QED BY <1>1, <2>1, OverMoves, SameStays
<1>4. CASE (\E name \in Names, pw \in Passwords : AskLogin(x, name, pw)) \/ AskWithToken(x) \/ AskWithSecret(x)
  BY <1>1, <1>4, SomethingAsked, SameStays
<1> QED
  BY <1>2, <1>3, <1>4 DEF RequestMoves

LEMMA ExpiryKeeps ==
  ASSUME ReqsInv, NEW s \in SecretIds, SecretExpires(s)
  PROVE  ReqsInv'
<1>1. secrets' = [secrets EXCEPT ![s] = [secrets[s] EXCEPT !.expired = TRUE]] /\ UNCHANGED <<users, tokens, reqs>>
  BY DEF SecretExpires
<1>2. secrets[s] \in SecretRow /\ None \notin SecretRow
  BY AccountsAssumption DEF SecretExpires, ReqsInv, TablesOK
<1>3. [secrets[s] EXCEPT !.expired = TRUE] \in SecretRow
  BY <1>2 DEF SecretRow
<1>4. TablesOK' /\ SecretsStay
  BY <1>1, <1>2, <1>3 DEF ReqsInv, TablesOK, SecretsStay
<1>5. ASSUME NEW x \in Reqs PROVE Known(reqs[x])'
  <2>1. Known(reqs[x]) /\ ReqOK(reqs[x])
    BY DEF ReqsInv, ReqsKnown, ReqsOK
  <2> QED BY <1>1, <1>4, <2>1 DEF Known, ReqOK, SecretsStay
<1> QED
  BY <1>1, <1>4, <1>5 DEF ReqsInv, ReqsOK, ReqsKnown

LEMMA RestartKeeps ==
  ASSUME ReqsInv, Restart
  PROVE  ReqsInv'
<1> DEFINE old == users[BootstrapName]
           row == IF old = None THEN BootstrapRow ELSE Ensured(old, old)
<1>1. /\ reqs' = [x \in Reqs |-> NoReq] /\ UNCHANGED <<secrets, tokens>>
      /\ users' = [users EXCEPT ![BootstrapName] = row]
  BY DEF Restart
<1>2. old \in UserRow \cup {None}
  BY AccountsAssumption DEF ReqsInv, TablesOK
<1>3. row \in UserRow
  BY <1>2, BootstrapRowTyped, EnsuredTyped
<1>4. TablesOK'
  <2> HIDE DEF row
  <2> QED BY <1>1, <1>3 DEF ReqsInv, TablesOK
<1>5. \A x \in Reqs : reqs'[x] = NoReq
  BY <1>1
<1>6. ASSUME NEW x \in Reqs PROVE Known(reqs[x])'
  BY <1>5 DEF Known, NoReq
<1> QED
  BY <1>1, <1>4, <1>5, <1>6, NoReqOK DEF ReqsInv, ReqsOK, ReqsKnown

LEMMA AccountsNextKeeps ==
  ASSUME ReqsInv, AccountsNext
  PROVE  ReqsInv'
<1>1. \/ \E x \in Reqs : RequestMoves(x)
      \/ \E s \in SecretIds : SecretExpires(s)
      \/ Restart
  BY DEF AccountsNext, RequestMoves
<1> QED
  BY <1>1, RequestMovesOn, MovedKeeps, ExpiryKeeps, RestartKeeps

LEMMA InitReqs ==
  ASSUME AccountsInit
  PROVE  ReqsInv
<1>1. TablesOK
  BY AccountsAssumption DEF AccountsInit, TablesOK
<1>2. reqs = [x \in Reqs |-> NoReq]
  BY DEF AccountsInit
<1>3. \A x \in Reqs : reqs[x] = NoReq
  BY <1>2
<1> QED
  BY <1>1, <1>2, <1>3, NoReqOK DEF ReqsInv, ReqsOK, ReqsKnown

-----------------------------------------------------------------------------
(* The bound of the secrets *)

Bound(name) == Cardinality(ActiveOf(name)) + Cardinality(Counted(name)) <= Limit + Cardinality(Reqs) - 1

LEMMA FiniteParts ==
  ASSUME NEW name
  PROVE  /\ IsFiniteSet(ActiveOf(name)) /\ Cardinality(ActiveOf(name)) \in Nat
         /\ IsFiniteSet(Counted(name)) /\ Cardinality(Counted(name)) \in Nat
         /\ Cardinality(Counted(name)) <= Cardinality(Reqs) /\ Cardinality(Reqs) \in Nat /\ Cardinality(Reqs) > 0
<1>1. ActiveOf(name) \subseteq SecretIds /\ Counted(name) \subseteq Reqs
  BY DEF ActiveOf, Counted
<1>2. IsFiniteSet(Reqs) /\ Reqs # {} /\ IsFiniteSet(SecretIds)
  BY AccountsAssumption
<1>3. Cardinality(Reqs) \in Nat /\ Cardinality(Reqs) > 0
  BY <1>2, FS_EmptySet, FS_CardinalityType
<1>4. IsFiniteSet(ActiveOf(name)) /\ IsFiniteSet(Counted(name)) /\ Cardinality(Counted(name)) <= Cardinality(Reqs)
  BY <1>1, <1>2, FS_Subset
<1> QED
  BY <1>3, <1>4, FS_CardinalityType

LEMMA BoundShrinks ==
  ASSUME NEW name, Bound(name), ActiveOf(name)' \subseteq ActiveOf(name), Counted(name)' \subseteq Counted(name)
  PROVE  Bound(name)'
<1> DEFINE A == ActiveOf(name)
           C == Counted(name)
           B == ActiveOf(name)'
           D == Counted(name)'
<1>1. /\ IsFiniteSet(A) /\ Cardinality(A) \in Nat /\ IsFiniteSet(C) /\ Cardinality(C) \in Nat
      /\ Cardinality(Reqs) \in Nat /\ Limit \in Nat
  BY FiniteParts, AccountsAssumption
<1>2. B \subseteq A /\ D \subseteq C /\ Cardinality(A) + Cardinality(C) <= Limit + Cardinality(Reqs) - 1
  BY DEF Bound
<1>3. Bound(name)' <=> Cardinality(B) + Cardinality(D) <= Limit + Cardinality(Reqs) - 1
  BY DEF Bound
<1> HIDE DEF A, B, C, D
<1>4. Cardinality(B) <= Cardinality(A) /\ Cardinality(B) \in Nat
  BY <1>1, <1>2, FS_Subset, FS_CardinalityType
<1>5. Cardinality(D) <= Cardinality(C) /\ Cardinality(D) \in Nat
  BY <1>1, <1>2, FS_Subset, FS_CardinalityType
<1> QED
  BY <1>1, <1>2, <1>3, <1>4, <1>5

LEMMA CountedShrinks ==
  ASSUME ReqsInv, NEW x \in Reqs, Moved(x), ~CountSecrets(x), NEW name
  PROVE  Counted(name)' \subseteq Counted(name) \ {x}
<1>1. PICK r \in Req : Put(x, r) /\ ~Inserting(r)
  BY DEF Moved
<1>2. \A y \in Reqs : reqs'[y] = IF y = x THEN r ELSE reqs[y]
  BY <1>1 DEF Put, ReqsInv, ReqsOK
<1> QED
  BY <1>1, <1>2 DEF Counted, Inserting

LEMMA ActiveShrinks ==
  ASSUME NoneActivated, NEW name
  PROVE  ActiveOf(name)' \subseteq ActiveOf(name)
  BY DEF NoneActivated, ActiveOf

LEMMA NothingActivated ==
  ASSUME UNCHANGED secrets
  PROVE  NoneActivated
  BY DEF NoneActivated, Active

LEMMA CountKeeps ==
  ASSUME ReqsInv, NEW x \in Reqs, CountSecrets(x), NEW name \in Names, Bound(name), Limit > 0
  PROVE  Bound(name)'
<1>1. UNCHANGED secrets
  BY DEF CountSecrets
<1>2. ActiveOf(name)' = ActiveOf(name)
  BY <1>1 DEF ActiveOf, Active
<1>3. /\ reqs \in [Reqs -> Req] /\ reqs[x] \in Req /\ ReqOK(reqs[x]) /\ reqs[x].pc = "count"
  BY DEF ReqsInv, ReqsOK, CountSecrets
<1>4. CASE Over(x)
  <2>1. Counted(name)' \subseteq Counted(name)
    BY <1>3, <1>4 DEF Over, Put, NoReq, Counted
  <2> QED BY <1>2, <2>1, BoundShrinks
<1>5. CASE Cardinality(ActiveOf(reqs[x].target)) < Limit /\ Put(x, [reqs[x] EXCEPT !.pc = "commit"])
  <2>1. CASE name = reqs[x].target
    <3>1. /\ Cardinality(ActiveOf(name)) \in Nat /\ Cardinality(ActiveOf(name)) <= Limit - 1
          /\ Cardinality(Reqs) \in Nat /\ Limit \in Nat
      BY <1>5, <2>1, FiniteParts, AccountsAssumption
    <3>2. Counted(name)' \subseteq Reqs /\ IsFiniteSet(Reqs)
      BY AccountsAssumption DEF Counted
    <3>3. Cardinality(Counted(name)') <= Cardinality(Reqs) /\ Cardinality(Counted(name)') \in Nat
      BY <3>2, FS_Subset, FS_CardinalityType
    <3>4. Cardinality(ActiveOf(name)') = Cardinality(ActiveOf(name))
      BY <1>2
    <3>5. Bound(name)' <=> Cardinality(ActiveOf(name)') + Cardinality(Counted(name)') <= Limit + Cardinality(Reqs) - 1
      BY DEF Bound
    <3> QED BY <3>1, <3>3, <3>4, <3>5
  <2>2. CASE name # reqs[x].target
    <3>1. \A y \in Reqs : reqs'[y].pc = "commit" /\ reqs'[y].op = "create_secret" /\ reqs'[y].target = name
                            => reqs'[y] = reqs[y]
      <4> SUFFICES ASSUME NEW y \in Reqs, reqs'[y].target = name PROVE reqs'[y] = reqs[y]
        OBVIOUS
      <4>1. y # x
        BY <1>3, <1>5, <2>2 DEF Put, Req
      <4> QED BY <4>1, <1>3, <1>5 DEF Put
    <3>2. Counted(name)' \subseteq Counted(name)
      BY <3>1 DEF Counted
    <3> QED BY <1>2, <3>2, BoundShrinks
  <2> QED BY <2>1, <2>2
<1>6. Cardinality(ActiveOf(reqs[x].target)) \in Nat /\ Limit \in Nat
  BY FiniteParts, AccountsAssumption
<1> QED
  BY <1>4, <1>5, <1>6 DEF CountSecrets

LEMMA NewSecretKeeps ==
  ASSUME ReqsInv, NEW x \in Reqs, CommitNewSecret(x), NEW name \in Names, Bound(name)
  PROVE  Bound(name)'
<1>1. reqs[x].pc = "commit" /\ reqs[x].op = "create_secret" /\ ~CountSecrets(x) /\ Moved(x)
  BY CommitMoves DEF CommitNewSecret, CommitStep, CountSecrets
<1>2. PICK s \in SecretIds :
        secrets' = [secrets EXCEPT ![s] = [owner |-> reqs[x].target, revoked |-> FALSE, expired |-> FALSE]]
  BY DEF CommitNewSecret
<1>3. Counted(name)' \subseteq Counted(name) \ {x}
  BY <1>1, CountedShrinks
<1>4. secrets \in [SecretIds -> SecretRow \cup {None}]
  BY DEF ReqsInv, TablesOK
<1>5. CASE name = reqs[x].target
  <2> DEFINE A == ActiveOf(name)
             C == Counted(name)
             B == ActiveOf(name)'
             D == Counted(name)'
  <2>1. B \subseteq A \cup {s}
    BY <1>2, <1>4 DEF ActiveOf, Active
  <2>2. x \in C /\ D \subseteq C \ {x}
    BY <1>1, <1>3, <1>5 DEF Counted
  <2>3. /\ IsFiniteSet(A) /\ Cardinality(A) \in Nat /\ IsFiniteSet(C) /\ Cardinality(C) \in Nat
        /\ Cardinality(Reqs) \in Nat /\ Limit \in Nat
    BY FiniteParts, AccountsAssumption
  <2>4. Cardinality(A) + Cardinality(C) <= Limit + Cardinality(Reqs) - 1
    BY DEF Bound
  <2>5. Bound(name)' <=> Cardinality(B) + Cardinality(D) <= Limit + Cardinality(Reqs) - 1
    BY DEF Bound
  <2> HIDE DEF A, B, C, D
  <2>6. IsFiniteSet(A \cup {s}) /\ Cardinality(A \cup {s}) <= Cardinality(A) + 1 /\ Cardinality(A \cup {s}) \in Nat
    <3>1. /\ IsFiniteSet(A \cup {s})
          /\ Cardinality(A \cup {s}) = IF s \in A THEN Cardinality(A) ELSE Cardinality(A) + 1
      BY <2>3, FS_AddElement
    <3> QED BY <3>1, <2>3
  <2>7. IsFiniteSet(C \ {x}) /\ Cardinality(C \ {x}) = Cardinality(C) - 1 /\ Cardinality(C \ {x}) \in Nat
    BY <2>2, <2>3, FS_RemoveElement, FS_CardinalityType
  <2>8. Cardinality(B) <= Cardinality(A \cup {s}) /\ Cardinality(B) \in Nat
    BY <2>1, <2>6, FS_Subset, FS_CardinalityType
  <2>9. Cardinality(D) <= Cardinality(C \ {x}) /\ Cardinality(D) \in Nat
    BY <2>2, <2>7, FS_Subset, FS_CardinalityType
  <2> QED BY <2>3, <2>4, <2>5, <2>6, <2>7, <2>8, <2>9
<1>6. CASE name # reqs[x].target
  <2>1. ActiveOf(name)' \subseteq ActiveOf(name)
    BY <1>2, <1>4, <1>6 DEF ActiveOf, Active
  <2> QED BY <1>3, <2>1, BoundShrinks
<1> QED
  BY <1>5, <1>6

LEMMA RevocationActivatesNone ==
  ASSUME ReqsInv, NEW x \in Reqs, CommitRevocation(x)
  PROVE  NoneActivated
<1>1. secrets \in [SecretIds -> SecretRow \cup {None}] /\ reqs[x].id \in SecretIds /\ secrets[reqs[x].id] \in SecretRow
  BY DEF ReqsInv, TablesOK, ReqsOK, ReqsKnown, ReqOK, Known, CommitRevocation
<1>2. secrets' = [secrets EXCEPT ![reqs[x].id] = [secrets[reqs[x].id] EXCEPT !.revoked = TRUE]]
  BY DEF CommitRevocation
<1> QED
  BY <1>1, <1>2 DEF NoneActivated, Active, SecretRow

LEMMA ExpiryActivatesNone ==
  ASSUME ReqsInv, NEW s \in SecretIds, SecretExpires(s)
  PROVE  NoneActivated
<1>1. secrets \in [SecretIds -> SecretRow \cup {None}] /\ secrets[s] \in SecretRow
  BY DEF ReqsInv, TablesOK, SecretExpires
<1>2. secrets' = [secrets EXCEPT ![s] = [secrets[s] EXCEPT !.expired = TRUE]]
  BY DEF SecretExpires
<1> QED
  BY <1>1, <1>2 DEF NoneActivated, Active, SecretRow

(* What all other steps do to the secrets and to those about to insert.    *)
LEMMA OthersActivateNone ==
  ASSUME ReqsInv, NEW x \in Reqs, RequestMoves(x), ~CommitNewSecret(x), ~CountSecrets(x)
  PROVE  NoneActivated
<1>1. CASE RequestStep(x)
  <2>1. CASE CommitStep(x)
    <3>1. CASE CommitRevocation(x)
      BY <3>1, RevocationActivatesNone
    <3>2. CASE CommitNewUser(x) \/ CommitEdit(x)
      BY <3>2, NothingActivated DEF CommitNewUser, CommitEdit
    <3> QED BY <2>1, <3>1, <3>2 DEF CommitStep
  <2>2. CASE ~CommitStep(x)
    <3>1. UNCHANGED secrets
      BY <1>1, <2>2 DEF RequestStep, Authenticate, StampSecret, FindBootstrap, EnsureBootstrap, IssueTokens,
                        LoadUser, CountSecrets, FindSecret
    <3> QED BY <3>1, NothingActivated
  <2> QED BY <2>1, <2>2
<1>2. CASE RequestFails(x)
  BY <1>2, NothingActivated DEF RequestFails
<1>3. CASE (\E name \in Names, pw \in Passwords : AskLogin(x, name, pw)) \/ AskWithToken(x) \/ AskWithSecret(x)
  BY <1>3, SomethingAsked, NothingActivated DEF TablesSame
<1> QED
  BY <1>1, <1>2, <1>3 DEF RequestMoves

LEMMA BoundKept ==
  ASSUME ReqsInv, AccountsNext, Limit > 0, NEW name \in Names, Bound(name)
  PROVE  Bound(name)'
<1>1. ASSUME NEW x \in Reqs, RequestMoves(x) PROVE Bound(name)'
  <2>1. CASE CountSecrets(x)
    BY <2>1, CountKeeps
  <2>2. CASE CommitNewSecret(x)
    BY <2>2, NewSecretKeeps
  <2>3. CASE ~CountSecrets(x) /\ ~CommitNewSecret(x)
    <3>1. Moved(x) /\ NoneActivated
      BY <1>1, <2>3, RequestMovesOn, OthersActivateNone
    <3>2. ActiveOf(name)' \subseteq ActiveOf(name) /\ Counted(name)' \subseteq Counted(name)
      BY <2>3, <3>1, CountedShrinks, ActiveShrinks
    <3> QED BY <3>2, BoundShrinks
  <2> QED BY <2>1, <2>2, <2>3
<1>2. ASSUME NEW s \in SecretIds, SecretExpires(s) PROVE Bound(name)'
  <2>1. ActiveOf(name)' \subseteq ActiveOf(name)
    BY <1>2, ExpiryActivatesNone, ActiveShrinks
  <2>2. Counted(name)' = Counted(name)
    BY <1>2 DEF SecretExpires, Counted
  <2> QED BY <2>1, <2>2, BoundShrinks
<1>3. ASSUME Restart PROVE Bound(name)'
  <2>1. Counted(name)' = {}
    BY <1>3 DEF Restart, Counted, NoReq
  <2>2. UNCHANGED secrets
    BY <1>3 DEF Restart
  <2>3. ActiveOf(name)' = ActiveOf(name)
    BY <2>2 DEF ActiveOf, Active
  <2> QED BY <2>1, <2>3, BoundShrinks
<1> QED
  BY <1>1, <1>2, <1>3 DEF AccountsNext, RequestMoves

LEMMA BoundFirst ==
  ASSUME AccountsInit, NEW name \in Names
  PROVE  Bound(name)
<1> DEFINE Own == {s \in SecretIds : FirstSecrets[s] # None /\ FirstSecrets[s].owner = name}
<1>1. ActiveOf(name) \subseteq Own
  BY DEF AccountsInit, ActiveOf, Active
<1>2. Counted(name) = {}
  <2>1. \A x \in Reqs : reqs[x].pc = "idle"
    BY DEF AccountsInit, NoReq
  <2> QED BY <2>1 DEF Counted
<1>3. Cardinality(Own) <= Limit /\ Own \subseteq SecretIds /\ IsFiniteSet(SecretIds) /\ Limit \in Nat
  BY AccountsAssumption
<1> HIDE DEF Own
<1>4. IsFiniteSet(Own) /\ Cardinality(Own) \in Nat /\ Cardinality(ActiveOf(name)) <= Cardinality(Own)
  BY <1>1, <1>3, FS_Subset, FS_CardinalityType
<1>5. Cardinality(Counted(name)) = 0
  BY <1>2, FS_EmptySet
<1>6. Cardinality(Reqs) \in Nat /\ Cardinality(Reqs) > 0 /\ Cardinality(ActiveOf(name)) \in Nat
  BY FiniteParts
<1> QED
  BY <1>3, <1>4, <1>5, <1>6 DEF Bound

-----------------------------------------------------------------------------
(* The columns of the report *)

(* Places and their ranks correspond, so each key is there once.           *)
LEMMA Normalized ==
  ASSUME NEW selected \in Selections, Acceptable(selected)
  PROVE  NormalizeExportFields(selected) \in Fields
<1> DEFINE F == FirstPlaces(selected)
           n == Cardinality(F)
           Upto(i) == {j \in F : j <= i}
           rank == [i \in F |-> Cardinality(Upto(i))]
           result == [k \in 1 .. n |-> selected[CHOOSE i \in F : rank[i] = k]]
           Key == ToSet(ExportFields)
<1>1. result = NormalizeExportFields(selected)
  BY DEF NormalizeExportFields
<1>2. selected \in Seq(ToSet(selected)) /\ ExportFields \in Seq(Key)
  BY ExportSettingsAssumption
<1>3. F \subseteq 1 .. Len(selected) /\ Len(selected) \in Nat
  BY <1>2 DEF FirstPlaces
<1>4. IsFiniteSet(F) /\ n \in Nat
  <2>1. IsFiniteSet(1 .. Len(selected))
    BY <1>3, FS_Interval
  <2> HIDE DEF F
  <2>2. IsFiniteSet(F)
    BY <2>1, <1>3, FS_Subset
  <2> QED BY <2>2, FS_CardinalityType
<1>5. \A i \in F : selected[i] \in Key
  <2>1. \A i \in F : selected[i] \in ToSet(selected)
    BY DEF FirstPlaces, ToSet
  <2> HIDE DEF F, Key
  <2>2. ToSet(selected) \subseteq Key
    BY DEF Acceptable, Key
  <2> QED BY <2>1, <2>2
<1>6. \A i, j \in F : selected[i] = selected[j] => i = j
  <2> SUFFICES ASSUME NEW i \in F, NEW j \in F, selected[i] = selected[j], i # j PROVE FALSE
    OBVIOUS
  <2>1. i \in Nat /\ j \in Nat /\ i \in DOMAIN selected /\ j \in DOMAIN selected
    BY <1>3 DEF FirstPlaces
  <2> QED BY <2>1 DEF FirstPlaces
<1> HIDE DEF F
<1>7. ASSUME NEW i \in F PROVE IsFiniteSet(Upto(i)) /\ Cardinality(Upto(i)) \in 1 .. n
  <2>1. Upto(i) \subseteq F /\ i \in Upto(i)
    BY <1>3
  <2>2. IsFiniteSet(Upto(i)) /\ Cardinality(Upto(i)) <= n
    BY <2>1, <1>4, FS_Subset
  <2>3. Cardinality(Upto(i)) \in Nat /\ Cardinality(Upto(i)) # 0
    BY <2>1, <2>2, FS_EmptySet, FS_CardinalityType
  <2> QED BY <2>2, <2>3, <1>4
<1>8. ASSUME NEW i \in F, NEW j \in F, i < j PROVE Cardinality(Upto(i)) # Cardinality(Upto(j))
  <2>1. Upto(i) \subseteq Upto(j) /\ j \in Upto(j) /\ j \notin Upto(i)
    <3>1. \A k \in F : k \in Int
      BY <1>3
    <3> QED BY <3>1, <1>8
  <2> HIDE DEF Upto
  <2> QED BY <2>1, <1>7, FS_Subset
<1>9. rank \in [F -> 1 .. n]
  <2> HIDE DEF Upto, n
  <2> QED BY <1>7
<1>10. \A i, j \in F : rank[i] = rank[j] => i = j
  <2> HIDE DEF Upto, n
  <2> SUFFICES ASSUME NEW i \in F, NEW j \in F, rank[i] = rank[j], i # j PROVE FALSE
    OBVIOUS
  <2>1. i < j \/ j < i
    BY <1>3
  <2> QED BY <2>1, <1>8
<1> HIDE DEF rank
<1>11. rank \in Injection(F, 1 .. n)
  BY <1>9, <1>10 DEF Injection, IsInjective
<1>12. IsFiniteSet(1 .. n) /\ Cardinality(1 .. n) = n
  BY <1>4, FS_Interval
<1>13. rank \in Surjection(F, 1 .. n)
  BY <1>4, <1>11, <1>12, FS_Injection
<1>14. \A k \in 1 .. n : \E i \in F : rank[i] = k
  BY <1>13 DEF Surjection
<1> DEFINE place == [k \in 1 .. n |-> CHOOSE i \in F : rank[i] = k]
<1>15. \A k \in 1 .. n : place[k] \in F /\ rank[place[k]] = k
  BY <1>14
<1>16. result = [k \in 1 .. n |-> selected[place[k]]]
  OBVIOUS
<1> HIDE DEF place, result
<1>17. result \in [1 .. n -> Key]
  BY <1>5, <1>15, <1>16
<1>18. IsInjective(result)
  <2> SUFFICES ASSUME NEW k \in 1 .. n, NEW l \in 1 .. n, result[k] = result[l] PROVE k = l
    BY <1>17 DEF IsInjective
  <2>1. selected[place[k]] = selected[place[l]]
    BY <1>16
  <2>2. place[k] = place[l]
    BY <2>1, <1>6, <1>15
  <2> QED BY <2>2, <1>15
<1>19. n <= Len(ExportFields)
  <2> DEFINE m == Len(ExportFields)
  <2>1. m \in Nat /\ ExportFields \in [1 .. m -> Key] /\ \A key \in Key : \E i \in 1 .. m : ExportFields[i] = key
    BY <1>2 DEF ToSet
  <2> HIDE DEF m, Key
  <2>2. ExportFields \in Surjection(1 .. m, Key)
    BY <2>1 DEF Surjection
  <2>3. IsFiniteSet(1 .. m) /\ Cardinality(1 .. m) = m
    BY <2>1, FS_Interval
  <2>4. IsFiniteSet(Key) /\ Cardinality(Key) <= m
    BY <2>2, <2>3, FS_Surjection
  <2>5. result \in Injection(1 .. n, Key)
    BY <1>17, <1>18 DEF Injection
  <2>6. Cardinality(1 .. n) <= Cardinality(Key)
    BY <2>4, <2>5, FS_Injection
  <2>7. Cardinality(Key) \in Nat
    BY <2>4, FS_CardinalityType
  <2> QED BY <2>1, <2>4, <2>6, <2>7, <1>4, <1>12 DEF m
<1>20. n \in 0 .. Len(ExportFields)
  BY <1>4, <1>19, <1>2
<1> HIDE DEF n
<1>21. result \in Fields
  BY <1>17, <1>18, <1>20 DEF Fields
<1> QED
  BY <1>1, <1>21

LEMMA NoFields == <<>> \in Fields
<1>1. Len(ExportFields) \in Nat
  BY ExportSettingsAssumption
<1>2. <<>> \in [1 .. 0 -> ToSet(ExportFields)] /\ IsInjective(<<>>)
  BY DEF IsInjective
<1> QED
  BY <1>1, <1>2 DEF Fields

\* Of the row, and of a request that is about to change it.
RequestOK(q) ==
  /\ q.pc # "idle" => q.name \in Names /\ q.fields \in Fields
  /\ q.pc = "save" =>
       /\ export_row # None /\ export_row.owner = q.name
       /\ q.loaded # None
       /\ chosen[q.name] = {} => q.loaded = export_row

ChosenOK(name) ==
  /\ chosen[name] # {} => export_row # None /\ export_row.owner = name /\ export_row.fields \in chosen[name]
  /\ chosen[name] = {} /\ export_row # None /\ export_row.owner = name => export_row.fields = <<>>

ExportInv ==
  /\ export_row \in ExportRow \cup {None}
  /\ exporting \in [Reqs -> Exporting]
  /\ chosen \in [Names -> SUBSET Fields]
  /\ \A x \in Reqs : RequestOK(exporting[x])
  /\ \A name \in Names : ChosenOK(name)

LEMMA NotExportingOK == NotExporting \in Exporting /\ RequestOK(NotExporting) /\ RequestOK(NotExporting)'
  BY DEF NotExporting, Exporting, RequestOK

(* A request moves on while the row and the choices stay.                  *)
LEMMA ExportMoves ==
  ASSUME ExportInv, NEW x \in Reqs, NEW r \in Exporting, PutExport(x, r), RequestOK(r),
         UNCHANGED <<export_row, chosen>>
  PROVE  ExportInv'
<1>1. exporting' = [exporting EXCEPT ![x] = r] /\ exporting \in [Reqs -> Exporting]
  BY DEF PutExport, ExportInv
<1>2. exporting' \in [Reqs -> Exporting]
  BY <1>1
<1>3. ASSUME NEW y \in Reqs PROVE RequestOK(exporting[y])'
  <2>1. RequestOK(exporting'[y])
    BY <1>1 DEF ExportInv
  <2> QED BY <2>1 DEF RequestOK
<1>4. ASSUME NEW name \in Names PROVE ChosenOK(name)'
  BY DEF ExportInv, ChosenOK
<1> QED
  BY <1>2, <1>3, <1>4 DEF ExportInv

LEMMA ExportRequests ==
  ASSUME ExportInv, NEW x \in Reqs
  PROVE  LET q == exporting[x] IN
         /\ q \in Exporting /\ RequestOK(q)
         /\ q.name \in Names \cup {None} /\ q.fields \in Fields \cup {None}
  BY DEF ExportInv, Exporting

LEMMA AskExportKeeps ==
  ASSUME ExportInv, NEW x \in Reqs, NEW name \in Names, NEW selected \in Selections, AskExport(x, name, selected)
  PROVE  ExportInv'
<1> DEFINE fields == NormalizeExportFields(selected)
           r == [NotExporting EXCEPT !.pc = "auth", !.name = name, !.fields = fields]
<1>1. fields \in Fields
  BY Normalized DEF AskExport
<1>2. PutExport(x, r) /\ UNCHANGED <<export_row, chosen>>
  BY DEF AskExport
<1> HIDE DEF fields
<1>3. r \in Exporting /\ RequestOK(r)
  BY <1>1 DEF NotExporting, Exporting, RequestOK
<1> QED
  BY <1>2, <1>3, ExportMoves

LEMMA ExportGivenUp ==
  ASSUME ExportInv, NEW x \in Reqs, PutExport(x, NotExporting), UNCHANGED <<export_row, chosen>>
  PROVE  ExportInv'
  BY NotExportingOK, ExportMoves

LEMMA AuthenticateExportKeeps ==
  ASSUME ExportInv, NEW x \in Reqs, AuthenticateExport(x)
  PROVE  ExportInv'
<1> DEFINE q == exporting[x]
           r == [q EXCEPT !.pc = "find"]
<1>1. q \in Exporting /\ RequestOK(q) /\ q.pc = "auth" /\ UNCHANGED <<export_row, chosen>>
  BY ExportRequests DEF AuthenticateExport
<1>2. r \in Exporting /\ RequestOK(r)
  BY <1>1 DEF Exporting, RequestOK
<1>3. PutExport(x, r) \/ PutExport(x, NotExporting)
  BY DEF AuthenticateExport
<1> QED
  BY <1>1, <1>2, <1>3, ExportMoves, ExportGivenUp

LEMMA FindExportRowKeeps ==
  ASSUME ExportInv, NEW x \in Reqs, FindExportRow(x)
  PROVE  ExportInv'
<1> DEFINE q == exporting[x]
           save == [q EXCEPT !.pc = "save", !.loaded = export_row]
           insert == [q EXCEPT !.pc = "insert"]
<1>1. q \in Exporting /\ RequestOK(q) /\ q.pc = "find" /\ UNCHANGED <<export_row, chosen>>
  BY ExportRequests DEF FindExportRow
<1>2. (export_row # None /\ export_row.owner = q.name /\ PutExport(x, save)) \/ PutExport(x, insert)
  BY DEF FindExportRow
<1>3. export_row \in ExportRow \cup {None}
  BY DEF ExportInv
<1>4. CASE export_row # None /\ export_row.owner = q.name /\ PutExport(x, save)
  <2>1. save \in Exporting /\ RequestOK(save)
    BY <1>1, <1>3, <1>4 DEF Exporting, RequestOK
  <2> QED BY <1>1, <1>4, <2>1, ExportMoves
<1>5. CASE PutExport(x, insert)
  <2>1. insert \in Exporting /\ RequestOK(insert)
    BY <1>1 DEF Exporting, RequestOK
  <2> QED BY <1>1, <1>5, <2>1, ExportMoves
<1> QED
  BY <1>2, <1>4, <1>5

LEMMA InsertExportRowKeeps ==
  ASSUME ExportInv, NEW x \in Reqs, InsertExportRow(x)
  PROVE  ExportInv'
<1> DEFINE q == exporting[x]
           row == [owner |-> q.name, fields |-> <<>>]
           r == [q EXCEPT !.pc = "save", !.loaded = row]
<1>1. q \in Exporting /\ RequestOK(q) /\ q.pc = "insert" /\ UNCHANGED chosen /\ q.name \in Names
  BY ExportRequests DEF InsertExportRow, RequestOK
<1>2. CASE export_row # None
  BY <1>2, ExportGivenUp DEF InsertExportRow
<1>3. CASE export_row = None
  <2>1. export_row' = row /\ PutExport(x, r)
    BY <1>3 DEF InsertExportRow
  <2>2. row \in ExportRow /\ row # None /\ row.owner = q.name /\ row.fields = <<>>
    BY <1>1, NoFields, ExportSettingsAssumption DEF ExportRow
  <2> HIDE DEF row
  <2>3. r \in Exporting /\ r.name = q.name /\ r.fields = q.fields /\ r.loaded = row /\ r.pc = "save"
    BY <1>1, <2>2 DEF Exporting
  <2> HIDE DEF r, q
  <2>4. exporting' = [exporting EXCEPT ![x] = r] /\ exporting \in [Reqs -> Exporting]
    BY <2>1 DEF PutExport, ExportInv
  <2>5. ASSUME NEW y \in Reqs PROVE RequestOK(exporting[y])'
    <3>1. CASE y = x
      BY <1>1, <2>1, <2>2, <2>3, <2>4, <3>1 DEF RequestOK
    <3>2. CASE y # x
      <4>1. RequestOK(exporting[y]) /\ exporting'[y] = exporting[y]
        BY <2>4, <3>2 DEF ExportInv
      <4> QED BY <4>1, <1>1, <1>3 DEF RequestOK
    <3> QED BY <3>1, <3>2
  <2>6. ASSUME NEW name \in Names PROVE ChosenOK(name)'
    BY <1>1, <1>3, <2>1, <2>2 DEF ExportInv, ChosenOK
  <2>7. exporting' \in [Reqs -> Exporting]
    BY <2>3, <2>4
  <2> QED BY <1>1, <2>1, <2>2, <2>5, <2>6, <2>7 DEF ExportInv
<1> QED
  BY <1>2, <1>3

LEMMA SaveExportFieldsKeeps ==
  ASSUME ExportInv, NEW x \in Reqs, SaveExportFields(x)
  PROVE  ExportInv'
<1> DEFINE q == exporting[x]
           row == IF q.fields = q.loaded.fields THEN export_row ELSE [export_row EXCEPT !.fields = q.fields]
<1>1. q \in Exporting /\ RequestOK(q) /\ q.pc = "save" /\ q.name \in Names /\ q.fields \in Fields
  BY ExportRequests DEF SaveExportFields, RequestOK
<1>2. export_row \in ExportRow /\ export_row.owner = q.name
  BY <1>1 DEF ExportInv, RequestOK
<1>3. /\ export_row' = row /\ exporting' = [exporting EXCEPT ![x] = NotExporting]
      /\ chosen' = [chosen EXCEPT ![q.name] = chosen[q.name] \cup {q.fields}]
  BY DEF SaveExportFields, PutExport
<1>4. row \in ExportRow /\ row # None /\ row.owner = q.name
  BY <1>1, <1>2, ExportSettingsAssumption DEF ExportRow
<1>5. row.fields = q.fields \/ (row = export_row /\ q.fields = q.loaded.fields)
  BY <1>1, <1>2 DEF ExportRow
<1>6. row.fields = q.fields \/ (row = export_row /\ chosen[q.name] # {})
  <2>1. CASE chosen[q.name] = {}
    <3>1. q.loaded = export_row
      BY <1>1, <2>1 DEF RequestOK
    <3> QED BY <1>5, <3>1
  <2> QED BY <1>5, <2>1
<1> HIDE DEF row
<1>7. row.fields \in chosen[q.name] \cup {q.fields}
  BY <1>1, <1>6 DEF ExportInv, ChosenOK
<1> HIDE DEF q
<1>8. chosen' \in [Names -> SUBSET Fields] /\ exporting' \in [Reqs -> Exporting]
  BY <1>1, <1>3, NotExportingOK DEF ExportInv
<1>9. /\ \A name \in Names : chosen'[name] = IF name = q.name THEN chosen[name] \cup {q.fields} ELSE chosen[name]
      /\ \A y \in Reqs : exporting'[y] = IF y = x THEN NotExporting ELSE exporting[y]
  BY <1>1, <1>3 DEF ExportInv
<1>10. ASSUME NEW name \in Names PROVE ChosenOK(name)'
  <2>1. CASE name = q.name
    BY <1>3, <1>4, <1>7, <1>9, <2>1 DEF ChosenOK
  <2>2. CASE name # q.name
    <3>1. ChosenOK(name)
      BY DEF ExportInv
    <3> QED BY <3>1, <1>2, <1>3, <1>4, <1>9, <2>2, ExportSettingsAssumption DEF ChosenOK
  <2> QED BY <2>1, <2>2
<1>11. ASSUME NEW y \in Reqs PROVE RequestOK(exporting[y])'
  <2>1. CASE y = x
    <3>1. exporting'[y] = NotExporting
      BY <1>9, <2>1
    <3> QED BY <3>1 DEF RequestOK, NotExporting
  <2>2. CASE y # x
    <3> DEFINE p == exporting[y]
    <3>1. RequestOK(p) /\ exporting'[y] = p
      BY <1>9, <2>2 DEF ExportInv
    <3>2. CASE p.pc # "save"
      BY <3>1, <3>2 DEF RequestOK
    <3>3. CASE p.pc = "save"
      <4>1. p.name = q.name /\ p.name \in Names
        BY <3>1, <3>3, <1>2 DEF RequestOK
      <4>2. chosen'[p.name] # {}
        BY <4>1, <1>9
      <4> QED BY <3>1, <3>3, <4>1, <4>2, <1>3, <1>4 DEF RequestOK
    <3> QED BY <3>2, <3>3
  <2> QED BY <2>1, <2>2
<1> QED
  BY <1>3, <1>4, <1>8, <1>10, <1>11 DEF ExportInv

LEMMA ExportStepKeeps ==
  ASSUME ExportInv, NEW x \in Reqs, ExportStep(x)
  PROVE  ExportInv'
<1>1. CASE ExportFails(x)
  BY <1>1, ExportGivenUp DEF ExportFails
<1> QED
  BY <1>1, AuthenticateExportKeeps, FindExportRowKeeps, InsertExportRowKeeps, SaveExportFieldsKeeps DEF ExportStep

-----------------------------------------------------------------------------
(* The invariant *)

IInv ==
  /\ ReqsInv
  /\ asked \in 0 .. MaxRequests
  /\ Limit > 0 => \A name \in Names : Bound(name)
  /\ ExportInv

LEMMA AskedBounded ==
  ASSUME asked \in 0 .. MaxRequests, [Next]_vars
  PROVE  asked' \in 0 .. MaxRequests
<1>1. MaxRequests \in Nat
  BY AccountsAssumption
<1>2. UNCHANGED asked \/ (asked < MaxRequests /\ asked' = asked + 1)
  <2>1. CASE \E x \in Reqs : RequestMoves(x)
    <3> PICK x \in Reqs : RequestMoves(x)
      BY <2>1
    <3>1. CASE (\E name \in Names, pw \in Passwords : AskLogin(x, name, pw)) \/ AskWithToken(x) \/ AskWithSecret(x)
      BY <3>1 DEF AskLogin, AskWithToken, AskWithSecret, AskRefresh, AskSigned, Ask
    <3>2. CASE RequestStep(x) \/ RequestFails(x)
      BY <3>2 DEF RequestStep, RequestFails, Authenticate, StampSecret, FindBootstrap, EnsureBootstrap, IssueTokens,
                  LoadUser, CountSecrets, FindSecret, CommitStep, CommitNewUser, CommitEdit, CommitNewSecret,
                  CommitRevocation
    <3> QED BY <3>1, <3>2 DEF RequestMoves
  <2>2. CASE (\E s \in SecretIds : SecretExpires(s)) \/ Restart
    BY <2>2 DEF SecretExpires, Restart
  <2>3. CASE \E x \in Reqs, name \in Names, selected \in Selections : AskExport(x, name, selected)
    BY <2>3 DEF AskExport
  <2>4. CASE \E x \in Reqs : ExportStep(x)
    BY <2>4 DEF ExportStep, AuthenticateExport, FindExportRow, InsertExportRow, SaveExportFields, ExportFails, accountVars
  <2>5. CASE UNCHANGED vars
    BY <2>5 DEF vars, accountVars
  <2> QED BY <2>1, <2>2, <2>3, <2>4, <2>5 DEF Next, AccountsNext, RequestMoves
<1> QED
  BY <1>1, <1>2

(* A step that leaves users, secrets, tokens and requests alone.           *)
LEMMA AccountsAlone ==
  ASSUME ReqsInv, UNCHANGED <<users, secrets, tokens, reqs>>
  PROVE  ReqsInv' /\ \A name \in Names : Bound(name) => Bound(name)'
<1>1. TablesOK' /\ ReqsOK'
  BY DEF ReqsInv, TablesOK, ReqsOK
<1>2. ASSUME NEW x \in Reqs PROVE Known(reqs[x])'
  BY DEF ReqsInv, ReqsKnown, Known
<1>3. ASSUME NEW name \in Names, Bound(name) PROVE Bound(name)'
  BY <1>3 DEF Bound, ActiveOf, Active, Counted
<1> QED
  BY <1>1, <1>2, <1>3 DEF ReqsInv, ReqsKnown

LEMMA ExportsAlone ==
  ASSUME ExportInv, UNCHANGED exportVars
  PROVE  ExportInv'
<1>1. UNCHANGED <<export_row, exporting, chosen>>
  BY DEF exportVars
<1>2. ASSUME NEW x \in Reqs PROVE RequestOK(exporting[x])'
  BY <1>1 DEF ExportInv, RequestOK
<1>3. ASSUME NEW name \in Names PROVE ChosenOK(name)'
  BY <1>1 DEF ExportInv, ChosenOK
<1> QED
  BY <1>1, <1>2, <1>3 DEF ExportInv

LEMMA InitSafe ==
  ASSUME Init
  PROVE  IInv
<1>1. ReqsInv /\ \A name \in Names : Bound(name)
  BY InitReqs, BoundFirst DEF Init
<1>2. asked \in 0 .. MaxRequests
  BY AccountsAssumption DEF Init, AccountsInit
<1>3. ExportInv
  BY NotExportingOK DEF Init, ExportInv, ChosenOK
<1> QED
  BY <1>1, <1>2, <1>3 DEF IInv

LEMMA NextSafe ==
  ASSUME IInv, [Next]_vars
  PROVE  IInv'
<1>1. asked' \in 0 .. MaxRequests
  BY AskedBounded DEF IInv
<1>2. CASE AccountsNext /\ UNCHANGED exportVars
  BY <1>1, <1>2, AccountsNextKeeps, BoundKept, ExportsAlone DEF IInv
<1>3. CASE UNCHANGED <<users, secrets, tokens, reqs>> /\ ExportInv'
  BY <1>1, <1>3, AccountsAlone DEF IInv
<1>4. CASE UNCHANGED vars
  BY <1>3, <1>4, ExportsAlone DEF IInv, vars, accountVars, exportVars
<1>5. ASSUME NEW x \in Reqs, NEW name \in Names, NEW selected \in Selections, AskExport(x, name, selected) PROVE IInv'
  BY <1>3, <1>5, AskExportKeeps DEF IInv, AskExport
<1>6. ASSUME NEW x \in Reqs, ExportStep(x) PROVE IInv'
  <2>1. UNCHANGED <<users, secrets, tokens, reqs>>
    BY <1>6 DEF ExportStep, AuthenticateExport, FindExportRow, InsertExportRow, SaveExportFields, ExportFails, accountVars
  <2> QED BY <1>3, <1>6, <2>1, ExportStepKeeps DEF IInv
<1> QED
  BY <1>2, <1>4, <1>5, <1>6 DEF Next

LEMMA Invariance == Spec => []IInv
<1>1. Init => IInv
  BY InitSafe
<1>2. IInv /\ [Next]_vars => IInv'
  BY NextSafe
<1> QED
  BY <1>1, <1>2, PTL DEF Spec

-----------------------------------------------------------------------------
(* Theorems *)

(* Every variable stays in its set; the fields of the report's row are     *)
(* keys without a double, whatever requests send.                          *)
THEOREM TypesKept == Spec => []TypeOK
<1>1. IInv => TypeOK
  BY DEF IInv, ReqsInv, TablesOK, ReqsOK, ExportInv, TypeOK, AccountsTypeOK
<1> QED
  BY <1>1, Invariance, PTL

(* system_user.py:100-113: however many requests count before any of them  *)
(* inserts, and however long that goes on, an account has no more than     *)
(* their number less one above the limit.                                  *)
THEOREM SecretsStayBounded == Spec => []SecretsBounded
<1>1. IInv => SecretsBounded
  BY DEF IInv, SecretsBounded, Bound
<1> QED
  BY <1>1, Invariance, PTL

(* attendance_record.py:360-418: a choice of columns that was saved is     *)
(* only replaced by another of the same account.                           *)
THEOREM ChoiceStays == Spec => []ChoiceKept
<1>1. IInv => ChoiceKept
  <2> SUFFICES ASSUME IInv, NEW name \in Names, chosen[name] # {}
               PROVE  \E fields \in chosen[name] :
                        ExportedFields(name) = SelectSeq(ExportFields, LAMBDA key : key \in ToSet(fields))
    BY DEF ChoiceKept
  <2>1. export_row # None /\ export_row.owner = name /\ export_row.fields \in chosen[name]
    BY DEF IInv, ExportInv, ChosenOK
  <2>2. ExportedFields(name) = SelectSeq(ExportFields, LAMBDA key : key \in ToSet(export_row.fields))
    BY <2>1 DEF ExportedFields
  <2> QED BY <2>1, <2>2
<1> QED
  BY <1>1, Invariance, PTL

(* security.py:78-169: what administrators may do is done for requests     *)
(* whose account was an active administrator when they were let in.        *)
THEOREM AdministratorsAlone == Spec => ByAdministrators
<1> DEFINE A == \A x \in Reqs : CommitStep(x) /\ reqs[x].op \in AdminOps =>
                  reqs[x].standing.active /\ reqs[x].standing.role = "admin"
<1>1. ASSUME IInv PROVE A
  <2> SUFFICES ASSUME NEW x \in Reqs, CommitStep(x), reqs[x].op \in AdminOps
               PROVE  reqs[x].standing.active /\ reqs[x].standing.role = "admin"
    OBVIOUS
  <2>1. reqs[x].pc = "commit" /\ ReqOK(reqs[x])
    BY <1>1 DEF IInv, ReqsInv, ReqsOK, CommitStep, CommitNewUser, CommitEdit, CommitNewSecret, CommitRevocation
  <2> QED BY <2>1 DEF ReqOK, AdminOps
<1>2. IInv /\ [Next]_vars => [A]_accountVars
  BY <1>1
<1> HIDE DEF A
<1>3. Spec => [][A]_accountVars
  BY <1>2, Invariance, PTL DEF Spec
<1> QED
  BY <1>3 DEF ByAdministrators, A

(* A flush writes no column that the request did not set.                  *)
LEMMA SavedElsewhere ==
  ASSUME NEW body, NEW loaded, NEW row \in UserRow, NEW c \in DOMAIN row, c \notin DOMAIN body
  PROVE  Saved(body, loaded, row)[c] = row[c]
  BY DEF Saved

LEMMA EnsuredElsewhere ==
  ASSUME NEW loaded \in UserRow, NEW row \in UserRow
  PROVE  Ensured(loaded, row)["pw"] = row["pw"]
<1> DEFINE body == [role |-> "admin", active |-> TRUE]
<1>1. "pw" \in DOMAIN row /\ "pw" \notin DOMAIN body
  BY DEF UserRow
<1>2. Ensured(loaded, row) = Saved(body, loaded, row)
  BY DEF Ensured
<1> HIDE DEF body
<1> QED
  BY <1>1, <1>2, SavedElsewhere

LEMMA ColumnsChange ==
  ASSUME ReqsInv, AccountsNext, NEW name \in Names, users[name] # None, NEW c \in DOMAIN users[name],
         users'[name][c] # users[name][c]
  PROVE  \/ \E x \in Reqs : CommitEdit(x) /\ reqs[x].target = name /\ c \in DOMAIN reqs[x].body
         \/ name = BootstrapName /\ c # "pw"
<1>1. /\ users[name] \in UserRow /\ BootstrapName \in Names /\ users' # users
      /\ users \in [Names -> UserRow \cup {None}]
  BY AccountsAssumption DEF ReqsInv, TablesOK
<1>2. ASSUME NEW x \in Reqs, CommitEdit(x)
      PROVE  reqs[x].target = name /\ c \in DOMAIN reqs[x].body
  <2> DEFINE q == reqs[x]
  <2>1. q.pc = "commit" /\ q.op \in {"edit", "change"} /\ ReqOK(q)
    BY <1>2 DEF CommitEdit, ReqsInv, ReqsOK
  <2>2. q.target \in Names
    BY <2>1 DEF ReqOK, SignedOps, AdminOps
  <2>3. users' = [users EXCEPT ![q.target] = Saved(q.body, q.loaded, users[q.target])]
    BY <1>2 DEF CommitEdit
  <2>4. q.target = name /\ users'[name] = Saved(q.body, q.loaded, users[name])
    BY <1>1, <2>2, <2>3
  <2>5. c \in DOMAIN q.body
    BY <1>1, <2>4, SavedElsewhere
  <2> QED BY <2>4, <2>5
<1>3. ASSUME users' = [users EXCEPT ![BootstrapName] = users'[BootstrapName]],
             \E loaded \in UserRow : users'[BootstrapName] = Ensured(loaded, users[BootstrapName])
      PROVE  name = BootstrapName /\ c # "pw"
  <2>1. name = BootstrapName
    BY <1>1, <1>3
  <2>2. users'[name]["pw"] = users[name]["pw"]
    BY <1>1, <1>3, <2>1, EnsuredElsewhere
  <2> QED BY <2>1, <2>2
<1>4. ASSUME NEW x \in Reqs, EnsureBootstrap(x) PROVE name = BootstrapName /\ c # "pw"
  <2> DEFINE q == reqs[x]
             row == IF q.loaded = None THEN BootstrapRow ELSE Ensured(q.loaded, users[BootstrapName])
  <2>1. users' = [users EXCEPT ![BootstrapName] = row] /\ (q.loaded = None => users[BootstrapName] = None)
    BY <1>1, <1>4 DEF EnsureBootstrap
  <2>2. name = BootstrapName
    BY <1>1, <2>1
  <2>3. q.loaded \in UserRow
    <3>1. q.loaded \in UserRow \cup {None}
      BY DEF ReqsInv, ReqsOK, Req
    <3> QED BY <3>1, <2>1, <2>2
  <2>4. users'[BootstrapName] = Ensured(q.loaded, users[BootstrapName]) /\ q.loaded # None
    BY <1>1, <2>1, <2>2
  <2> QED BY <1>1, <1>3, <2>1, <2>3, <2>4
<1>5. ASSUME Restart PROVE name = BootstrapName /\ c # "pw"
  <2> DEFINE old == users[BootstrapName]
             row == IF old = None THEN BootstrapRow ELSE Ensured(old, old)
  <2>1. users' = [users EXCEPT ![BootstrapName] = row]
    BY <1>5 DEF Restart
  <2>2. name = BootstrapName
    BY <1>1, <2>1
  <2>3. old \in UserRow /\ old # None
    BY <1>1, <2>2
  <2>4. users'[BootstrapName] = Ensured(old, old)
    BY <1>1, <2>1, <2>3
  <2> QED BY <1>1, <1>3, <2>1, <2>3, <2>4
<1>6. ASSUME NEW x \in Reqs, CommitNewUser(x) PROVE FALSE
  <2>1. reqs[x].target \in Names
    BY <1>6 DEF CommitNewUser, ReqsInv, ReqsOK, ReqOK, SignedOps, AdminOps
  <2> QED BY <1>1, <1>6, <2>1 DEF CommitNewUser
<1>7. ASSUME NEW x \in Reqs, RequestMoves(x), ~CommitEdit(x), ~EnsureBootstrap(x), ~CommitNewUser(x)
      PROVE  UNCHANGED users
  <2>1. CASE (\E n \in Names, pw \in Passwords : AskLogin(x, n, pw)) \/ AskWithToken(x) \/ AskWithSecret(x)
    BY <2>1, SomethingAsked DEF TablesSame
  <2>2. CASE RequestStep(x) \/ RequestFails(x)
    BY <1>7, <2>2 DEF RequestStep, RequestFails, Authenticate, StampSecret, FindBootstrap, IssueTokens,
                      LoadUser, CountSecrets, FindSecret, CommitStep, CommitNewSecret, CommitRevocation
  <2> QED BY <1>7, <2>1, <2>2 DEF RequestMoves
<1>8. ASSUME NEW s \in SecretIds, SecretExpires(s) PROVE UNCHANGED users
  BY <1>8 DEF SecretExpires
<1> QED
  BY <1>1, <1>2, <1>4, <1>5, <1>6, <1>7, <1>8 DEF AccountsNext, RequestMoves

(* system_user.py:30-86, security.py:54-65: no edit of an account brings   *)
(* back a column that another has changed, however many overlap.           *)
THEOREM NoColumnLost == Spec => ColumnsKept
<1> DEFINE A == \A name \in Names : users[name] # None =>
                  \A c \in DOMAIN users[name] : users'[name][c] # users[name][c] =>
                    \/ \E x \in Reqs : CommitEdit(x) /\ reqs[x].target = name /\ c \in DOMAIN reqs[x].body
                    \/ name = BootstrapName /\ c # "pw"
<1>1. ASSUME IInv, [Next]_vars PROVE A
  <2>1. CASE AccountsNext
    BY <1>1, <2>1, ColumnsChange DEF IInv
  <2>2. CASE UNCHANGED users
    BY <2>2
  <2>3. AccountsNext \/ UNCHANGED users
    BY <1>1 DEF Next, vars, accountVars, AskExport, ExportStep, AuthenticateExport, FindExportRow, InsertExportRow,
                SaveExportFields, ExportFails
  <2> QED BY <2>1, <2>2, <2>3
<1>2. IInv /\ [Next]_vars => [A]_accountVars
  BY <1>1
<1> HIDE DEF A
<1>3. Spec => [][A]_accountVars
  BY <1>2, Invariance, PTL DEF Spec
<1> QED
  BY <1>3 DEF ColumnsKept, A
=============================================================================
