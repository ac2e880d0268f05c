SPECIFICATION Spec
CONSTANTS
  MaxIterations = 2
  MaxTurns = 2
  MaxDepth = 2
  LastTry = 2
  LastReport = 1
  LastEvent = 2
  LastSave = 2
  MaxEdges = 3
  NodeNames = {"a", "b"}
  ToolNames = {"f", "g"}
  MaxRetries = 1
  Branches = {"b1", "b2"}
  Rival = "rival"
  OwnTools <- SearchTool
  Requests <- SomeRequests
  AuthorizedTools = {"search", "lost"}
  Models <- OneModel
  Prices <- TwoPrices
  Usages = {0, 2}
  HardUsd = 9
  HardTokens = 4
  MostRequests = 1
  Recordings <- SomeRecordings
  Options <- SomeOptions
  Slas <- SomeSlas
  Budgets <- SomeBudgets
INVARIANTS BudgetHolds TrailIsComplete RequestsHold SearchIsSound ReportIsOfKept ChoiceWithinLimits BuiltAsAsked
PROPERTIES ImplementsProtocol
CHECK_DEADLOCK FALSE
