SPECIFICATION Spec
CONSTANTS
  Nodes <- ReportNodes
  Edges <- ReportEdges
  Fields <- ReviewFields
  Writes <- ReportWrites
  End = "END_"
  EndName = "END"
  Human = "human"
  Entry = "plan"
  Reduced = {}
  Payload = "none"
  Messages = "none"
  Before = {"file"}
  After = {"check"}
  Agents = {}
  MaxTurns = 4
  Drivers = {"run", "r1", "r2", "r3"}
  Starter = "run"
  Store = "postgres"
  Flaky = TRUE
  Persist = FALSE
  ResumePolicy = "any"
  Cancellable = {"r1"}
  HumanWrites = {{}}
  MaxForks = 0
INVARIANTS SingleDriver ProjectionIsState
CHECK_DEADLOCK FALSE
