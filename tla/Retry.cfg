SPECIFICATION Spec
CONSTANTS
  Nodes <- TriageNodes
  Edges <- TriageEdges
  Fields <- ReviewFields
  Writes <- TriageWrites
  End = "END_"
  EndName = "END"
  Human = "human"
  Entry = "triage"
  Reduced = {"notes"}
  Payload = "text"
  Messages = "notes"
  Before = {"expert"}
  After = {"triage"}
  Agents = {"expert", "mail"}
  MaxTurns = 3
  Drivers = {"run", "r1", "r2", "r3"}
  Starter = "run"
  Store = "sqlite"
  Flaky = FALSE
  Persist = TRUE
  ResumePolicy = "idle"
  Cancellable = {"run", "r1", "r2", "r3"}
  HumanWrites = {{}}
  MaxForks = 1
INVARIANTS NewestCheckpointWins
CHECK_DEADLOCK FALSE
