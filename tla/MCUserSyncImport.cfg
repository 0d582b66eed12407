\* Two user_ids, one of them registered, people enrolled at the device: imports beside
\* creations, updates and batches; every request ends.
CONSTANTS
  u1 = u1
  u2 = u2
  s1 = s1
  s2 = s2
  n1 = n1
  n2 = n2
  c1 = c1
  c2 = c2
  p1 = p1
  None = None
  NoCard = NoCard
  NoPassword = NoPassword
  UserIds = {u1, u2}
  Names = {n1, n2}
  Cards = {c1}
  Passwords = {p1}
  MaxUid = 2
  Sessions = {s1, s2}
  Devices = {d1}
  Registered = {u1}
  Enrolled <- TwoEnrolled
  Ops = {"preview", "write_missing", "overwrite_local", "create", "update", "batch"}
  Forms <- ImportForms
  MaxRequests = 3
SPECIFICATION FairSpec
INVARIANTS
  SyncedMatchesDevice
PROPERTIES
  PreviewIsReadOnly
  RequestsEnd
\* The workload is bounded: once MaxRequests are served nothing is left to do.
CHECK_DEADLOCK FALSE
