----------------------------- MODULE MCAccounts -----------------------------
(* A small instance of ExportSettings, with the accounts it extends. *)
EXTENDS ExportSettings, TLC

Admin == [role |-> "admin", active |-> TRUE, pw |-> "old"]
MCUsers == [name \in Names |-> IF name = "bob" THEN None ELSE Admin]
MCSecrets == [s \in SecretIds |-> IF s = 1 THEN [owner |-> "ann", revoked |-> FALSE, expired |-> FALSE] ELSE None]
MCTokens == {[type |-> "access", sub |-> "ann", role |-> "admin"],
             [type |-> "refresh", sub |-> "admin", role |-> "admin"]}
MCBodies == {"role" :> "user", "active" :> FALSE, "active" :> TRUE, "pw" :> "new",
             "role" :> "user" @@ "pw" :> "new"}
MCExportFields == <<"user_name", "status">>
MCSelections == {<<"status", "user_name", "status">>, <<"status">>, <<"colour">>}
=============================================================================
