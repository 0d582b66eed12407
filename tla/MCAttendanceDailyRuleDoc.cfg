\* Two overlapping changes of the rule.
CONSTANTS
  None = None
  Unreadable = Unreadable
  Days <- MCDays
  IsWeekday <- MCIsWeekday
  Answers <- MCAnswers
  Sessions = {"g1", "r1", "v1"}
  Refreshes = {"r1"}
  Views = {"v1"}
  CacheBodies <- MCCacheBodies
  SavedSettings <- Weekly
  MaxRequests = 2
  Users = {1, 2}
  Registered = {1, 2}
  LastDay = 2
  Clock <- MCClock
  Punches = {"p1", "p2", "p3"}
  Earlier = {"p1", "p3"}
  PunchAt <- MCPunchAt
  Generations = {"g1"}
  RuleRequests = {"x1", "x2"}
  RuleBodies <- MCRuleBodies
  DefaultRule <- MCDefaultRule
SPECIFICATION FairSpec
INVARIANT RuleIsOrdered
\* The workload is bounded: once MaxRequests are served nothing is left to do.
CHECK_DEADLOCK FALSE
