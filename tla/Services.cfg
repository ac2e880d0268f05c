SPECIFICATION MCSpec
CONSTANTS
  Callers = {"a", "b", "c"}
  Cancels = {"leading", "waiting"}
  LastFlight = 3
  LastCall = 1
  Replicas = {"a", "b"}
  Restarting = {"b"}
  Recipients = {"b"}
  BatchSize = 2
  MaxHistory = 1
  LastKey = 2
  MaxMessages = 2
  MaxOwed = 3
  LastDay = 2
  MemoryKeys = {"k1", "k2", "k3"}
  HotMax = 1
  WarmMax = 1
  HasCold = TRUE
  Tenants = {"org", "team", "u1", "u2"}
  NoParent = "none"
  Parent <- Tree
  Limits = {2, 4}
  Debits <- ThreeDebits
  Finals <- TwoFinals
INVARIANTS Remembered DeliveryHolds LedgerSound
PROPERTIES FetchesOnce LimitHeld AnsweredUnlessAbandoned GateServes
CHECK_DEADLOCK FALSE
