\* Tested: a dismissed user is disabled until it is synchronised.
CONSTANTS
  u1 = u1
  u2 = u2
  s1 = s1
  s2 = s2
  n1 = n1
  n2 = n2
  c1 = c1
  c2 = c2
  p1 = p1
  None = None
  NoCard = NoCard
  NoPassword = NoPassword
  UserIds = {u1}
  Names = {n1, n2}
  Cards = {c1}
  Passwords = {p1}
  MaxUid = 1
  Sessions = {s1, s2}
  Devices = {d1}
  Registered = {u1}
  Enrolled <- NoneEnrolled
  Ops = {"delete", "list"}
  Forms <- ThreeForms
  MaxRequests = 2
SPECIFICATION Spec
SYMMETRY SessionSymmetry
INVARIANTS
  DismissedIsDisabled
\* The workload is bounded: once MaxRequests are served nothing is left to do.
CHECK_DEADLOCK FALSE
