------------------------------ MODULE UserRows ------------------------------
(***************************************************************************)
(* The values that door users are made of: a row of the table `users`, an  *)
(* entry of a ZKTeco device, a request body, and the pure functions of     *)
(* UserService on them.  `name` stands for the three descriptive columns   *)
(* name, privilege and group_id, which the code always moves together.     *)
(* A card or password is a model value; NoCard is card 0 and NoPassword    *)
(* the empty string.                                                       *)
(***************************************************************************)
EXTENDS Naturals

CONSTANTS UserIds,      \* the values of the unique column user_id
          Names,        \* descriptive data of a person
          Cards,        \* card numbers other than 0
          Passwords,    \* passwords other than ""
          NoCard, NoPassword,
          MaxUid,       \* the largest uid the column holds; uids are the device's keys
          None          \* no row, no entry, no value

Uids == 1 .. MaxUid

SyncStatuses == {"pending", "pending_disable", "synced", "synced_disabled", "failed"}

Row == [uid : Uids,
        name : Names,
        password : Passwords \cup {NoPassword},
        card : Cards \cup {NoCard},
        status : {"active", "disabled"},
        sync_status : SyncStatuses]

\* The body of a create or update request.
Form == [name : Names,
         password : Passwords \cup {NoPassword},
         card : Cards \cup {NoCard}]

\* What a device stores under a uid.
Entry == [user_id : UserIds,
          name : Names,
          password : Passwords \cup {NoPassword},
          card : Cards \cup {NoCard}]

ASSUME UserRowsAssumption ==
  /\ MaxUid \in Nat
  /\ NoCard \notin Cards
  /\ NoPassword \notin Passwords
  /\ None \notin Row \cup Entry \cup Form \cup UserIds

-----------------------------------------------------------------------------
(* The row create_user inserts. *)
NewRow(uid, form) ==
  [uid |-> uid, name |-> form.name, password |-> form.password, card |-> form.card,
   status |-> "active", sync_status |-> "pending"]

(* Mutated form: the update forgets to ask for a new synchronisation. *)
UpdatedRow_NoReset(r, form) ==
  [r EXCEPT !.name = form.name, !.password = form.password, !.card = form.card]

(* update_user: the status column is not touched. *)
UpdatedRow(r, form) ==
  [r EXCEPT !.name = form.name, !.password = form.password, !.card = form.card,
            !.sync_status = "pending"]

(* Mutated form: a status the synchronisation does not know. *)
DismissedRow_UnknownStatus(r) == [r EXCEPT !.status = "disabled", !.sync_status = "disabled"]

(* delete_user: a dismissal, the row and its credentials stay. *)
DismissedRow(r) == [r EXCEPT !.status = "disabled", !.sync_status = "pending_disable"]

(* _apply_synced_card_state, for rows whose status is active or disabled. *)
ApplySyncedCardState(r, mark_synced) ==
  LET marked(from, to) == IF mark_synced \/ r.sync_status = from THEN to ELSE r.sync_status
  IN IF r.card = NoCard
     THEN [r EXCEPT !.password = NoPassword, !.status = "disabled",
                    !.sync_status = marked("synced", "synced_disabled")]
     ELSE [r EXCEPT !.status = "active",
                    !.sync_status = marked("synced_disabled", "synced")]

(* The entry a `pending` row is saved as, and what the read-back expects. *)
FullEntry(u, r) ==
  [user_id |-> u, name |-> r.name, password |-> r.password, card |-> r.card]

(* The entry a `pending_disable` row is saved as. *)
BlankEntry(u, r) ==
  [user_id |-> u, name |-> r.name, password |-> NoPassword, card |-> NoCard]

IsBlank(e) == e.password = NoPassword /\ e.card = NoCard

(* A row for a person found on a device (write_missing, overwrite_local). *)
ImportedRow(uid, e) ==
  ApplySyncedCardState(
    [uid |-> uid, name |-> e.name, password |-> e.password, card |-> e.card,
     status |-> "active", sync_status |-> "synced"], TRUE)

(* Mutated form: the uid is not taken over from the device. *)
OverwrittenRow_KeepsUid(r, uid, e) ==
  ApplySyncedCardState(
    [r EXCEPT !.name = e.name, !.password = e.password, !.card = e.card], TRUE)

(* overwrite_local: every syncable field from the device, then the card rule. *)
OverwrittenRow(r, uid, e) ==
  ApplySyncedCardState(
    [r EXCEPT !.uid = uid, !.name = e.name, !.password = e.password, !.card = e.card], TRUE)

(* _diff_local_and_device is empty. *)
SameOnDevice(u, r, uid, e) == r.uid = uid /\ FullEntry(u, r) = e

-----------------------------------------------------------------------------
(* SQLAlchemy's unit of work: a flush writes only the columns whose value   *)
(* in memory differs from the value the session loaded, over whatever the   *)
(* table holds by then.  mem = None is an object the session does not      *)
(* hold, loaded = None an object it is about to insert.                    *)
Column(current, loaded, mem) == IF mem # loaded THEN mem ELSE current

Flushed(current, loaded, mem) ==
  IF mem = None THEN current
  ELSE IF loaded = None THEN mem
  ELSE [uid         |-> Column(current.uid, loaded.uid, mem.uid),
        name        |-> Column(current.name, loaded.name, mem.name),
        password    |-> Column(current.password, loaded.password, mem.password),
        card        |-> Column(current.card, loaded.card, mem.card),
        status      |-> Column(current.status, loaded.status, mem.status),
        sync_status |-> Column(current.sync_status, loaded.sync_status, mem.sync_status)]
=============================================================================
