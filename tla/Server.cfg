SPECIFICATION FairSpec
CONSTANTS
  Cancellers = {"x1"}
  Clients = {"c1"}
  LastTask = 2
  MaxEvents = 3
  MaxAgent = 1
  MaxDrops = 1
  Heartbeats = TRUE
INVARIANTS StreamIsLog EndIsFinal
PROPERTIES StreamEnds
CHECK_DEADLOCK FALSE
