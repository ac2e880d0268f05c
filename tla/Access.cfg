SPECIFICATION MCSpec
CONSTANTS
  Dids = {"p", "w"}
  PeerDids = {"p"}
  Types = {"t", "u"}
  Term = 0
  MaxCards = 2
  LastToken = 3
  LastTime = 1
  LastMoment = 4
  LastVersion = 2
  LastHour = 1
  MaxRetries = 1
  LastRequest = 4
  Identities = {"token", "ip"}
  MaxTokens = 2
  Window = 3
  LastEdit = 3
  Agents = {"A", "B"}
  WebAgents = {"B"}
  JwkAgents = {}
  Revocable = {"B"}
  Claims <- SomeClaims
  Issuances <- EachOther
  Acls <- SomeAcls
  Tools = {"search", "send"}
  Ttl = 1
  ShortTtl = 0
  Runs = {"r1", "r2", "b"}
  Branch = {"b"}
  Checked = {"r2"}
  BlockOnLeak = TRUE
  Sensitive = {"secrets", "tool/write"}
  Harmless = {"search"}
  Chains <- SomeChains
  Hooks <- SomeHooks
  Texts <- SomeTexts
  AgentFiles = {"x", "y"}
  WorkflowFiles = {"v", "w"}
INVARIANTS ChainUnbroken AuthorityNarrows GuardsHold ShieldSticks RateHolds
PROPERTIES CardsOnlyAdvance ServedIsWhole
CHECK_DEADLOCK FALSE
