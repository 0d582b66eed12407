\* Doors opened by requests and by events, devices, log reads; stops, kills and restarts.
CONSTANTS
  None = None
  Devices = {"10.0.0.1", "10.0.0.2"}
  Calls = {"open", "event", "again", "lab", "help", "dev1", "dev2", "log"}
  Openers = {"open", "event", "again", "lab", "help"}
  Opens = {"open"}
  Deliveries = {"event", "again", "lab", "help"}
  DeviceRequests = {"dev1", "dev2"}
  LogReads = {"log"}
  Menu <- MCMenu
  DoorOpenKey = "door_open"
  EventMap <- MCEventMap
  DefaultIp = None
  ConfiguredIps <- MCConfigured
  Allowed = {"ann"}
  DeviceBodies <- MCBodies
  Logs <- MCLogs
  Enrolled <- MCEnrolled
  UpperBound <- MCUpperBound
  MaxRequests = 2
  MaxStarts = 2
SPECIFICATION FairSpec
INVARIANTS
  TypeOK
  DisabledIsAccounted
  UnlockSentOnce
  LogsReadWhole
  OpenedIsLogged
  HandledOnAppLoop
PROPERTIES
  ImplementsDoorLedger
  DeletedStaysDeleted
  RequestsEnd
\* The workload is bounded: once MaxRequests are served nothing is left to do.
CHECK_DEADLOCK FALSE
