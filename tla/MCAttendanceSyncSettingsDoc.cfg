\* Tested: settings that were changed are in the database.
CONSTANTS
  d1 = d1
  d2 = d2
  e1 = e1
  e2 = e2
  e3 = e3
  eight = eight
  nine = nine
  None = None
  Devices = {d1, d2}
  Entries = {e1}
  Punches <- MCPunches
  DeviceOf <- MCDeviceOf
  PunchOf <- MCPunchOf
  Tasks = {"t1"}
  Updates = {"x1", "x2"}
  Bodies <- MCBodies
  Times = {eight, nine}
  MaxRequests = 2
SPECIFICATION Spec
INVARIANTS
  SettingsPersisted
\* The workload is bounded: once MaxRequests are served nothing is left to do.
CHECK_DEADLOCK FALSE
