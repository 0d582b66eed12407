------------------------------ MODULE Accounts ------------------------------
(***************************************************************************)
(* System accounts: logging in (app/api/v1/auth.py), who a request comes   *)
(* from (app/core/security.py), and SystemUserService with its routes      *)
(* (app/services/system_user.py, app/api/v1/system_users.py).  A request   *)
(* has one database session: it loads an account once, keeps what it       *)
(* loaded over its commits, and writes the columns it has changed.  A      *)
(* token says who somebody is, and nothing of it is kept by the server.    *)
(***************************************************************************)
EXTENDS Naturals, FiniteSets

CONSTANTS Names,          \* usernames
          BootstrapName,  \* BOOTSTRAP_ADMIN_USERNAME
          DefaultPassword,
          Passwords,
          SecretIds,      \* ids of rows of api_secrets
          Limit,          \* MAX_API_SECRETS_PER_USER
          Reqs,           \* database sessions of requests
          Bodies,         \* the columns that a request to edit an account sets
          FirstUsers,     \* system_users when the application starts
          FirstSecrets,   \* and api_secrets
          FirstTokens,    \* tokens that are about
          MaxRequests,    \* bound: requests
          None

Roles == {"admin", "user"}
UserRow == [role : Roles, active : BOOLEAN, pw : Passwords]
SecretRow == [owner : Names, revoked : BOOLEAN, expired : BOOLEAN]
Token == [type : {"access", "refresh"}, sub : Names, role : Roles]

ASSUME AccountsAssumption ==
  /\ IsFiniteSet(Reqs) /\ Reqs # {} /\ IsFiniteSet(SecretIds)
  /\ BootstrapName \in Names /\ DefaultPassword \in Passwords
  /\ Limit \in Nat /\ MaxRequests \in Nat
  /\ \A b \in Bodies, row \in UserRow : [c \in DOMAIN row |-> IF c \in DOMAIN b THEN b[c] ELSE row[c]] \in UserRow
  /\ FirstUsers \in [Names -> UserRow \cup {None}]
  /\ FirstSecrets \in [SecretIds -> SecretRow \cup {None}]
  /\ \A name \in Names :
       Cardinality({s \in SecretIds : FirstSecrets[s] # None /\ FirstSecrets[s].owner = name}) <= Limit
  /\ FirstTokens \subseteq Token
  /\ None \notin Names /\ None \notin SecretIds /\ None \notin UserRow /\ None \notin SecretRow

VARIABLES users,       \* system_users: username -> row, or None
          secrets,     \* api_secrets: id -> row, or None
          tokens,      \* the tokens that were issued
          reqs,        \* request -> what it holds at an await
          asked        \* number of requests
accountVars == <<users, secrets, tokens, reqs, asked>>

AdminOps == {"list", "create", "edit", "create_secret", "revoke"}

Req == [pc : {"idle", "auth", "stamp", "bootstrap", "ensure", "account", "load", "count", "secret", "commit"},
        op : AdminOps \cup {"login", "refresh", "change"},
        name : Names \cup {None},           \* who it comes from
        with : SecretIds \cup {None},       \* the API secret it comes with
        target : Names \cup {None},         \* the account it is about
        body : Bodies \cup [pw : Passwords] \cup {None},
        id : SecretIds \cup {None},         \* the secret it is about
        actor : UserRow \cup {None},        \* current_user
        standing : UserRow \cup {None},     \* history: the row of who it comes from at that time
        loaded : UserRow \cup {None}]       \* the account it loaded
NoReq == [pc |-> "idle", op |-> "login", name |-> None, with |-> None, target |-> None, body |-> None,
          id |-> None, actor |-> None, standing |-> None, loaded |-> None]

AccountsTypeOK ==
  /\ users \in [Names -> UserRow \cup {None}]
  /\ secrets \in [SecretIds -> SecretRow \cup {None}]
  /\ tokens \subseteq Token
  /\ reqs \in [Reqs -> Req]
  /\ asked \in 0 .. MaxRequests

Active(s) == secrets[s] # None /\ ~secrets[s].revoked /\ ~secrets[s].expired
ActiveOf(name) == {s \in SecretIds : Active(s) /\ secrets[s].owner = name}

AccountsInit ==
  /\ users = FirstUsers /\ secrets = FirstSecrets /\ tokens = FirstTokens
  /\ reqs = [x \in Reqs |-> NoReq]
  /\ asked = 0

Put(x, q) == reqs' = [reqs EXCEPT ![x] = q]
Over(x) == Put(x, NoReq)

(* A session is made as it is needed: any idle one will do. *)
Ask(x, q) ==
  /\ reqs[x].pc = "idle" /\ x = CHOOSE w \in Reqs : reqs[w].pc = "idle"
  /\ asked < MaxRequests /\ asked' = asked + 1
  /\ Put(x, q)
  /\ UNCHANGED <<users, secrets, tokens>>

-----------------------------------------------------------------------------
(* What requests come in *)

AskLogin(x, name, pw) ==
  Ask(x, [NoReq EXCEPT !.pc = "bootstrap", !.name = name, !.body = [pw |-> pw]])

AskRefresh(x, token) ==
  token.type = "refresh" /\ Ask(x, [NoReq EXCEPT !.pc = "account", !.op = "refresh", !.name = token.sub])

\* A request of an account, with a token or a secret of it.
Signed(op, name, with) == [NoReq EXCEPT !.pc = "auth", !.op = op, !.name = name, !.with = with]

AskSigned(x, name, with) ==
  \/ Ask(x, Signed("list", name, with))
  \/ \E target \in Names :
       \/ Ask(x, [Signed("create_secret", name, with) EXCEPT !.target = target])
       \/ \E id \in SecretIds : Ask(x, [Signed("revoke", name, with) EXCEPT !.target = target, !.id = id])
       \/ \E body \in Bodies :
            \/ ("pw" \in DOMAIN body => DOMAIN body = {"pw"})
                 /\ Ask(x, [Signed("edit", name, with) EXCEPT !.target = target, !.body = body])
            \/ DOMAIN body = {"role", "pw"}
                 /\ Ask(x, [Signed("create", name, with) EXCEPT !.target = target, !.body = body])
  \/ \E body \in Bodies :
       DOMAIN body = {"pw"} /\ Ask(x, [Signed("change", name, with) EXCEPT !.target = name, !.body = body])

AskWithToken(x) ==
  \E token \in tokens : AskRefresh(x, token) \/ (token.type = "access" /\ AskSigned(x, token.sub, None))

AskWithSecret(x) == \E s \in SecretIds : secrets[s] # None /\ AskSigned(x, secrets[s].owner, s)

-----------------------------------------------------------------------------
(* get_current_user, require_admin *)

(* The handler is entered, up to its first await.  change_password checks  *)
(* the old password, which may or may not be right, and edits current_user.*)
Entered(q) ==
  CASE q.op \in AdminOps /\ q.actor.role # "admin" -> {NoReq}
    [] q.op = "list" -> {[q EXCEPT !.pc = "bootstrap"]}
    [] q.op \in AdminOps \ {"list"} /\ q.actor.role = "admin" -> {[q EXCEPT !.pc = "load"]}
    [] q.op = "change" -> {NoReq, [q EXCEPT !.pc = "commit", !.loaded = q.actor]}

Enter(x, q) == \E r \in Entered(q) : Put(x, r)

Authenticate_RoleOfToken(x) ==   \* mutated form: the role is the one that the token was issued with
  LET q == reqs[x]
      row == users[q.name]
  IN /\ q.pc = "auth"
     /\ IF row = None \/ ~row.active THEN Over(x)
        ELSE Enter(x, [q EXCEPT !.standing = row,
               !.actor = [row EXCEPT !.role = (CHOOSE t \in tokens : t.sub = q.name).role]])
     /\ UNCHANGED <<users, secrets, tokens, asked>>

(* The account is read from the database, whatever the token says of it.   *)
Authenticate(x) ==
  LET q == reqs[x]
      row == users[q.name]
      known == [q EXCEPT !.actor = row, !.standing = row]
  IN /\ q.pc = "auth"
     /\ IF row = None \/ ~row.active \/ (q.with # None /\ ~Active(q.with)) THEN Over(x)
        ELSE IF q.with # None THEN Put(x, [known EXCEPT !.pc = "stamp"]) ELSE Enter(x, known)
     /\ UNCHANGED <<users, secrets, tokens, asked>>

(* authenticate_api_secret commits last_used_at. *)
StampSecret(x) ==
  /\ reqs[x].pc = "stamp"
  /\ Enter(x, reqs[x])
  /\ UNCHANGED <<users, secrets, tokens, asked>>

-----------------------------------------------------------------------------
(* ensure_bootstrap_admin, login and refresh *)

(* The SELECT; an account that the session holds already is not read again.*)
FindBootstrap(x) ==
  LET q == reqs[x] IN
  /\ q.pc = "bootstrap"
  /\ Put(x, [q EXCEPT !.pc = "ensure",
                      !.loaded = IF q.name = BootstrapName /\ q.actor # None THEN q.actor ELSE users[BootstrapName]])
  /\ UNCHANGED <<users, secrets, tokens, asked>>

BootstrapRow == [role |-> "admin", active |-> TRUE, pw |-> DefaultPassword]

Saved_WholeRow(body, loaded, row) ==   \* mutated form: every column is written
  [c \in DOMAIN row |-> IF c \in DOMAIN body THEN body[c] ELSE loaded[c]]

(* A flush writes the columns whose value is not the one that was loaded;  *)
(* a password always, for its hash has a salt of its own each time.        *)
Saved(body, loaded, row) ==
  [c \in DOMAIN row |-> IF c \in DOMAIN body /\ (c = "pw" \/ body[c] # loaded[c]) THEN body[c] ELSE row[c]]

Ensured(loaded, row) == Saved([role |-> "admin", active |-> TRUE], loaded, row)

(* INSERT or UPDATE, COMMIT and refresh; a name is unique.                 *)
EnsureBootstrap(x) ==
  LET q == reqs[x]
      row == IF q.loaded = None THEN BootstrapRow ELSE Ensured(q.loaded, users[BootstrapName])
  IN /\ q.pc = "ensure"
     /\ IF q.loaded = None /\ users[BootstrapName] # None THEN Over(x) /\ UNCHANGED users
        ELSE /\ users' = [users EXCEPT ![BootstrapName] = row]
             /\ Put(x, IF q.op = "login" THEN [q EXCEPT !.pc = "account", !.loaded = None] ELSE NoReq)
     /\ UNCHANGED <<secrets, tokens, asked>>

(* login, and refresh, which has no password to check.  The account is read*)
(* here: login keeps nothing of what ensure_default_admin returns.         *)
IssueTokens(x) ==
  LET q == reqs[x]
      row == users[q.name]
      types == IF q.op = "login" THEN {"access", "refresh"} ELSE {"access"}
  IN /\ q.pc = "account"
     /\ IF row = None \/ ~row.active \/ (q.op = "login" /\ q.body.pw # row.pw) THEN UNCHANGED tokens
        ELSE tokens' = tokens \cup {[type |-> type, sub |-> q.name, role |-> row.role] : type \in types}
     /\ Over(x)
     /\ UNCHANGED <<users, secrets, asked>>

-----------------------------------------------------------------------------
(* SystemUserService *)

(* get_user: the account the request is about; of create_user, one that is *)
(* in the way.                                                             *)
LoadUser(x) ==
  LET q == reqs[x]
      row == IF q.target = q.name THEN q.actor ELSE users[q.target]
  IN /\ q.pc = "load"
     /\ CASE (row = None) # (q.op = "create") -> Over(x)
          [] row = None /\ q.op = "create" -> Put(x, [q EXCEPT !.pc = "commit"])
          [] row # None /\ q.op = "edit" -> Put(x, [q EXCEPT !.pc = "commit", !.loaded = row])
          [] row # None /\ q.op = "create_secret" -> Put(x, [q EXCEPT !.pc = "count"])
          [] row # None /\ q.op = "revoke" -> Put(x, [q EXCEPT !.pc = "secret"])
     /\ UNCHANGED <<users, secrets, tokens, asked>>

CountSecrets_OneMore(x) ==   \* mutated form: one more than the limit passes
  /\ reqs[x].pc = "count"
  /\ IF Cardinality(ActiveOf(reqs[x].target)) > Limit THEN Over(x) ELSE Put(x, [reqs[x] EXCEPT !.pc = "commit"])
  /\ UNCHANGED <<users, secrets, tokens, asked>>

(* count_active_by_user; nothing is locked until the INSERT.               *)
CountSecrets(x) ==
  /\ reqs[x].pc = "count"
  /\ IF Cardinality(ActiveOf(reqs[x].target)) >= Limit THEN Over(x) ELSE Put(x, [reqs[x] EXCEPT !.pc = "commit"])
  /\ UNCHANGED <<users, secrets, tokens, asked>>

(* get_by_id_for_user; a secret that is revoked is left as it is.          *)
FindSecret(x) ==
  LET q == reqs[x]
      row == secrets[q.id]
  IN /\ q.pc = "secret"
     /\ IF row # None /\ row.owner = q.target /\ ~row.revoked THEN Put(x, [q EXCEPT !.pc = "commit"]) ELSE Over(x)
     /\ UNCHANGED <<users, secrets, tokens, asked>>

NewUser(body) == [c \in DOMAIN BootstrapRow |-> IF c \in DOMAIN body THEN body[c] ELSE BootstrapRow[c]]

(* create_user: a name that was taken since violates the unique key.       *)
CommitNewUser(x) ==
  LET q == reqs[x] IN
  /\ q.pc = "commit" /\ q.op = "create"
  /\ users' = IF users[q.target] # None THEN users
              ELSE [users EXCEPT ![q.target] = NewUser(q.body)]
  /\ Over(x)
  /\ UNCHANGED <<secrets, tokens, asked>>

(* update_user, reset_password, change_password. *)
CommitEdit(x) ==
  LET q == reqs[x] IN
  /\ q.pc = "commit" /\ q.op \in {"edit", "change"}
  /\ users' = [users EXCEPT ![q.target] = Saved(q.body, q.loaded, @)]
  /\ Over(x)
  /\ UNCHANGED <<secrets, tokens, asked>>

CommitNewSecret(x) ==
  /\ reqs[x].pc = "commit" /\ reqs[x].op = "create_secret"
  /\ \E s \in SecretIds :
       /\ secrets[s] = None /\ s = CHOOSE t \in SecretIds : secrets[t] = None
       /\ secrets' = [secrets EXCEPT ![s] = [owner |-> reqs[x].target, revoked |-> FALSE, expired |-> FALSE]]
  /\ Over(x)
  /\ UNCHANGED <<users, tokens, asked>>

CommitRevocation(x) ==
  /\ reqs[x].pc = "commit" /\ reqs[x].op = "revoke"
  /\ secrets' = [secrets EXCEPT ![reqs[x].id].revoked = TRUE]
  /\ Over(x)
  /\ UNCHANGED <<users, tokens, asked>>

(* A statement fails and the request with it. *)
RequestFails(x) ==
  /\ reqs[x].pc # "idle"
  /\ Over(x)
  /\ UNCHANGED <<users, secrets, tokens, asked>>

-----------------------------------------------------------------------------
SecretExpires(s) ==
  /\ secrets[s] # None /\ ~secrets[s].expired
  /\ secrets' = [secrets EXCEPT ![s].expired = TRUE]
  /\ UNCHANGED <<users, tokens, reqs, asked>>

(* The process ends; the lifespan ensures the administrator before it      *)
(* serves again.                                                           *)
Restart ==
  /\ reqs' = [x \in Reqs |-> NoReq]
  /\ users' = [users EXCEPT ![BootstrapName] = IF @ = None THEN BootstrapRow ELSE Ensured(@, @)]
  /\ UNCHANGED <<secrets, tokens, asked>>

CommitStep(x) == CommitNewUser(x) \/ CommitEdit(x) \/ CommitNewSecret(x) \/ CommitRevocation(x)

RequestStep(x) ==
  \/ Authenticate(x) \/ StampSecret(x) \/ FindBootstrap(x) \/ EnsureBootstrap(x) \/ IssueTokens(x)
  \/ LoadUser(x) \/ CountSecrets(x) \/ FindSecret(x) \/ CommitStep(x)

AccountsNext ==
  \/ \E x \in Reqs :
       \/ \E name \in Names, pw \in Passwords : AskLogin(x, name, pw)
       \/ AskWithToken(x) \/ AskWithSecret(x)
       \/ RequestStep(x) \/ RequestFails(x)
  \/ \E s \in SecretIds : SecretExpires(s)
  \/ Restart

-----------------------------------------------------------------------------
(* Properties *)

(* Requests that count before any of them inserts exceed the limit, but by *)
(* no more than their number less one, however long that goes on           *)
(* (system_user.py:100-113).                                               *)
Counted(name) == {x \in Reqs : reqs[x].pc = "commit" /\ reqs[x].op = "create_secret" /\ reqs[x].target = name}
SecretsBounded ==
  Limit > 0 => \A name \in Names :
    Cardinality(ActiveOf(name)) + Cardinality(Counted(name)) <= Limit + Cardinality(Reqs) - 1

(* What only administrators may do takes effect for requests alone whose   *)
(* account was an active administrator when the request was let in: not    *)
(* with a token that was issued before the account lost that role, or      *)
(* after it was disabled (security.py:78-169).                             *)
ByAdministrators ==
  [][\A x \in Reqs : CommitStep(x) /\ reqs[x].op \in AdminOps =>
       reqs[x].standing.active /\ reqs[x].standing.role = "admin"]_accountVars

(* A column of an account changes only through a request that asks for     *)
(* that, however requests about the account overlap; no change of password *)
(* or role brings back an older state of the other.  The role and state of *)
(* the bootstrap administrator are restored besides (system_user.py:55-83, *)
(* security.py:54-65).                                                     *)
ColumnsKept ==
  [][\A name \in Names : users[name] # None =>
       \A c \in DOMAIN users[name] : users'[name][c] # users[name][c] =>
         \/ \E x \in Reqs : CommitEdit(x) /\ reqs[x].target = name /\ c \in DOMAIN reqs[x].body
         \/ name = BootstrapName /\ c # "pw"]_accountVars
=============================================================================
