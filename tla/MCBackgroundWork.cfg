SPECIFICATION Spec
CONSTANTS
  Routers = {r1, r2}
  Operators = {o1, o2}
  NoRouter = NoRouter
  MaxRequests = 2
  MaxDeaths = 1
  Jobs <- ThreeJobs
  Kinds <- ThreeKinds
  Passes = {p1, p2}
  Limit = 1
  MaxCrashes = 1
  Fleet = {r1, r2}
  MaxDays = 2
  MaxJobs = 2
  MaxKills = 1
INVARIANTS OneOpenAnalysis VerifiedOnce DayIsBackedUp
PROPERTIES AnalysesAnswered ChangesVerified FleetJobsEnd
CHECK_DEADLOCK FALSE
