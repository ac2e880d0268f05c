SPECIFICATION MCSpec
CONSTANTS
  Requests <- SomeRequests
  Routes <- SomeRoutes
  Answers = {"silent", "prose", "shape", "raises", "suppressed", "low", "stopper", "chip"}
  Exposure = 5
  Clients = {"c1", "c2"}
  LastRun = 2
  MaxRuns = 1
  Steps = 1
INVARIANTS ReportIsWhole VerdictHolds Concluded
PROPERTIES EvictionSpares StreamCloses
CHECK_DEADLOCK FALSE
