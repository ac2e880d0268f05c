SPECIFICATION Spec
CONSTANTS
  Nodes <- ReviewNodes
  Edges <- ReviewEdges
  Fields <- ReviewFields
  Writes <- ReviewWrites
  End = "END_"
  EndName = "END"
  Human = "human"
  Entry = "draft"
  Reduced = {"notes"}
  Payload = "none"
  Messages = "none"
  Before = {"polish"}
  After = {"draft"}
  Agents = {}
  MaxTurns = 4
  Drivers = {"run", "r1", "r2", "r3"}
  Starter = "run"
  Store = "sqlite"
  Flaky = FALSE
  Persist = TRUE
  ResumePolicy = "interrupted"
  Cancellable = {}
  HumanWrites = {{}}
  MaxForks = 0
PROPERTIES InterruptsAreTransparent
CHECK_DEADLOCK FALSE
