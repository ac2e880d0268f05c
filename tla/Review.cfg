SPECIFICATION FairSpec
CONSTANTS
  Nodes <- ReviewNodes
  Edges <- ReviewEdges
  Fields <- ReviewFields
  Writes <- ReviewWrites
  End = "END_"
  EndName = "END"
  Human = "human"
  Entry = "draft"
  Reduced = {"notes"}
  Payload = "none"
  Messages = "none"
  Before = {"polish"}
  After = {"publish"}
  Agents = {}
  MaxTurns = 4
  Drivers = {"run", "r1", "r2", "r3", "r4"}
  Starter = "run"
  Store = "sqlite"
  Flaky = TRUE
  Persist = TRUE
  ResumePolicy = "interrupted"
  Cancellable = {}
  HumanWrites = {{}, {"text"}}
  MaxForks = 0
INVARIANTS TypeOK GateHeld LogIsSound
PROPERTIES InterruptsAreTransparent DriverSettles
CHECK_DEADLOCK FALSE
