SPECIFICATION FairSpec
CONSTANTS
  Requests = {"r1", "r2"}
  N = 2
  Threshold = 2
  ResetTimeout = 2
PROPERTIES FailingProviderRests Recovers
