\* Requests about accounts, secrets and report columns that overlap; restarts.
CONSTANTS
  None = None
  Names = {"admin", "ann", "bob"}
  BootstrapName = "admin"
  DefaultPassword = "old"
  Passwords = {"old", "new"}
  SecretIds = {1, 2, 3}
  Limit = 1
  Reqs = {1, 2}
  Bodies <- MCBodies
  FirstUsers <- MCUsers
  FirstSecrets <- MCSecrets
  FirstTokens <- MCTokens
  MaxRequests = 2
  ExportFields <- MCExportFields
  Selections <- MCSelections
SPECIFICATION Spec
INVARIANTS
  TypeOK
  SecretsBounded
  ChoiceKept
PROPERTIES
  ByAdministrators
  ColumnsKept
\* The workload is bounded: once MaxRequests are served nothing is left to do.
CHECK_DEADLOCK FALSE
