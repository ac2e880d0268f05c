SPECIFICATION Spec
CONSTANTS
  Requests = {"r1", "r2"}
  N = 1
  Threshold = 1
  ResetTimeout = 1
INVARIANTS OneProbe
