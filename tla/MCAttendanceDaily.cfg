\* Listings, recalculations, changes of the rule, refreshes and views of the calendar.
CONSTANTS
  None = None
  Unreadable = Unreadable
  Days <- MCDays
  IsWeekday <- MCIsWeekday
  Answers <- MCAnswers
  Sessions = {"g1", "g2", "r1", "r2", "v1"}
  Refreshes = {"r1", "r2"}
  Views = {"v1"}
  CacheBodies <- MCCacheBodies
  SavedSettings <- Weekly
  MaxRequests = 2
  Users = {1, 2}
  Registered = {1, 2}
  LastDay = 2
  Clock <- MCClock
  Punches = {"p1", "p2", "p3"}
  Earlier = {"p1", "p3"}
  PunchAt <- MCPunchAt
  Generations = {"g1", "g2"}
  RuleRequests = {"x1"}
  RuleBodies <- MCEarlyRule
  DefaultRule <- MCDefaultRule
SPECIFICATION FairSpec
INVARIANTS
  TypeOK
  NoOlderBeneath
  SummaryAddsUp
  JobSurvivesRestart
  NobodyWaitsInVain
PROPERTIES
  RecordsSurvive
  RecalculationsInOrder
  CachedYearStays
  OneRefresh
  RequestsEnd
\* The workload is bounded: once MaxRequests are served nothing is left to do.
CHECK_DEADLOCK FALSE
