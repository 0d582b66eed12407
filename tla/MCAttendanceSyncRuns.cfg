\* Manual and scheduled runs over two devices beside changes of the settings.
CONSTANTS
  d1 = d1
  d2 = d2
  e1 = e1
  e2 = e2
  e3 = e3
  eight = eight
  nine = nine
  None = None
  Devices = {d1, d2}
  Entries = {e1, e2, e3}
  Punches <- MCPunches
  DeviceOf <- MCDeviceOf
  PunchOf <- MCPunchOf
  Tasks = {"t1", "t2"}
  Updates = {"x1", "x2"}
  Bodies <- MCBodies
  Times = {eight, nine}
  MaxRequests = 3
SPECIFICATION FairSpec
INVARIANTS
  TypeOK
  CompletedCounts
  ReportedIsRecorded
  ScheduleFollowsSettings
PROPERTIES
  ImplementsRunFlag
  ImplementsPunchTransfer
  IncrementalAddsOnlyNew
  RunEnds
\* The workload is bounded: once MaxRequests are served nothing is left to do.
CHECK_DEADLOCK FALSE
