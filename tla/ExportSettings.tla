--------------------------- MODULE ExportSettings ---------------------------
(***************************************************************************)
(* The columns of the monthly report, which each account chooses for       *)
(* itself: the export settings of AttendanceRecordService                  *)
(* (app/services/attendance_record.py), beside what happens to the         *)
(* accounts.  The id of a row of attendance_monthly_export_settings has    *)
(* the default 1 in the model, so the table never has a second row.        *)
(***************************************************************************)
EXTENDS Accounts, SequencesExt

CONSTANTS ExportFields,   \* keys of EXPORT_FIELDS, in order
          Selections         \* what requests send: keys, and texts that are none

NormalizeExportFields_KeepsDoubles(selected) == selected   \* mutated form: a key may come twice

\* Each key once, where it comes first; a text that is no key is refused.
FirstPlaces(selected) == {i \in DOMAIN selected : \A j \in DOMAIN selected : j < i => selected[j] # selected[i]}
NormalizeExportFields(selected) ==
  LET rank == [i \in FirstPlaces(selected) |-> Cardinality({j \in FirstPlaces(selected) : j <= i})] IN
  [k \in 1 .. Cardinality(FirstPlaces(selected)) |-> selected[CHOOSE i \in FirstPlaces(selected) : rank[i] = k]]
Acceptable(selected) == ToSet(selected) \subseteq ToSet(ExportFields)

\* Keys without a double.
Fields == UNION {{s \in [1 .. n -> ToSet(ExportFields)] : IsInjective(s)} : n \in 0 .. Len(ExportFields)}

VARIABLES export_row,    \* the row with id 1: its account and fields, or None
          exporting,     \* request -> what it holds at an await
          chosen         \* history: account -> what its requests have saved
exportVars == <<export_row, exporting, chosen>>
vars == <<accountVars, exportVars>>

ExportRow == [owner : Names, fields : Fields]

ASSUME ExportSettingsAssumption ==
  /\ ExportFields \in Seq(ToSet(ExportFields))
  /\ \A selected \in Selections : selected \in Seq(ToSet(selected))
  /\ None \notin ExportRow /\ None \notin Fields

Exporting == [pc : {"idle", "auth", "find", "insert", "save"}, name : Names \cup {None},
              fields : Fields \cup {None}, loaded : ExportRow \cup {None}]
NotExporting == [pc |-> "idle", name |-> None, fields |-> None, loaded |-> None]

TypeOK ==
  /\ AccountsTypeOK
  /\ export_row \in ExportRow \cup {None}
  /\ exporting \in [Reqs -> Exporting]
  /\ chosen \in [Names -> SUBSET Fields]

Init ==
  /\ AccountsInit
  /\ export_row = None
  /\ exporting = [x \in Reqs |-> NotExporting]
  /\ chosen = [name \in Names |-> {}]

PutExport(x, q) == exporting' = [exporting EXCEPT ![x] = q]

-----------------------------------------------------------------------------
(* Saving a choice: PUT .../export/monthly/settings, or an export that     *)
(* sends fields.                                                           *)
AskExport(x, name, selected) ==
  /\ exporting[x].pc = "idle"
  /\ asked < MaxRequests /\ asked' = asked + 1
  /\ Acceptable(selected)
  /\ PutExport(x, [NotExporting EXCEPT !.pc = "auth", !.name = name, !.fields = NormalizeExportFields(selected)])
  /\ UNCHANGED <<users, secrets, tokens, reqs, export_row, chosen>>

AuthenticateExport(x) ==
  LET q == exporting[x] IN
  /\ q.pc = "auth"
  /\ PutExport(x, IF users[q.name] # None /\ users[q.name].active THEN [q EXCEPT !.pc = "find"] ELSE NotExporting)
  /\ UNCHANGED <<accountVars, export_row, chosen>>

FindExportRow_ById(x) ==   \* mutated form: the row with id 1 is taken for everybody's
  LET q == exporting[x] IN
  /\ q.pc = "find"
  /\ PutExport(x, IF export_row # None THEN [q EXCEPT !.pc = "save", !.loaded = export_row] ELSE [q EXCEPT !.pc = "insert"])
  /\ UNCHANGED <<accountVars, export_row, chosen>>

(* get_or_create: the row of the account, or a new one. *)
FindExportRow(x) ==
  LET q == exporting[x]
      own == export_row # None /\ export_row.owner = q.name
  IN /\ q.pc = "find"
     /\ PutExport(x, IF own THEN [q EXCEPT !.pc = "save", !.loaded = export_row] ELSE [q EXCEPT !.pc = "insert"])
     /\ UNCHANGED <<accountVars, export_row, chosen>>

(* INSERT with id 1, COMMIT and refresh; the id may be taken.              *)
InsertExportRow(x) ==
  LET q == exporting[x]
      row == [owner |-> q.name, fields |-> <<>>]
  IN /\ q.pc = "insert"
     /\ IF export_row = None
        THEN export_row' = row /\ PutExport(x, [q EXCEPT !.pc = "save", !.loaded = row])
        ELSE PutExport(x, NotExporting) /\ UNCHANGED export_row
     /\ UNCHANGED <<accountVars, chosen>>

(* UPDATE if the fields are others than those loaded, and COMMIT.          *)
SaveExportFields(x) ==
  LET q == exporting[x] IN
  /\ q.pc = "save"
  /\ export_row' = IF q.fields = q.loaded.fields THEN export_row ELSE [export_row EXCEPT !.fields = q.fields]
  /\ chosen' = [chosen EXCEPT ![q.name] = @ \cup {q.fields}]
  /\ PutExport(x, NotExporting)
  /\ UNCHANGED accountVars

ExportFails(x) ==
  /\ exporting[x].pc # "idle"
  /\ PutExport(x, NotExporting)
  /\ UNCHANGED <<accountVars, export_row, chosen>>

(* What a report has: the keys chosen, in the order of EXPORT_FIELDS; all  *)
(* of them for whoever has chosen none.                                    *)
ExportedFields(name) ==
  IF export_row = None \/ export_row.owner # name THEN ExportFields
  ELSE SelectSeq(ExportFields, LAMBDA key : key \in ToSet(export_row.fields))

ExportStep(x) ==
  AuthenticateExport(x) \/ FindExportRow(x) \/ InsertExportRow(x) \/ SaveExportFields(x) \/ ExportFails(x)

Next ==
  \/ AccountsNext /\ UNCHANGED exportVars
  \/ \E x \in Reqs : \/ \E name \in Names, selected \in Selections : AskExport(x, name, selected)
                     \/ ExportStep(x)

Spec == Init /\ [][Next]_vars

-----------------------------------------------------------------------------
(* Properties *)

(* Once a choice was saved, the reports of the account have the columns of *)
(* a choice of its own, whoever else saves theirs meanwhile                *)
(* (attendance_record.py:360-375, 390-418).                                *)
ChoiceKept ==
  \A name \in Names : chosen[name] # {} =>
    \E fields \in chosen[name] :
      ExportedFields(name) = SelectSeq(ExportFields, LAMBDA key : key \in ToSet(fields))
=============================================================================
