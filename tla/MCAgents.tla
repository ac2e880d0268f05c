------------------------------- MODULE MCAgents -------------------------------
(***************************************************************************)
(* Instances of what works under a node of a graph: the loop of an agent   *)
(* with its tools and budget, the conversation with a model's API, the     *)
(* tree of thoughts, the checks of an output, the choice of a model; the   *)
(* stores that keep the events of a run; and the builder of the graph.     *)
(* They share no state, so they are explored side by side: part says which *)
(* one moves, and the variables of the others stay 0 (or as they are in a  *)
(* store that nobody has used).                                            *)
(***************************************************************************)
EXTENDS Integers, Sequences

CONSTANTS MaxIterations, MaxTurns, MaxDepth, LastTry, LastReport, LastEvent, LastSave, MaxEdges, NodeNames,
          ToolNames, MaxRetries,
          Branches, Rival,
          OwnTools, Requests, AuthorizedTools, Models, Prices, Usages, HardUsd, HardTokens,
          MostRequests, Recordings, Options, Slas, Budgets

VARIABLES
  part,
  pc, turn, answer, records, totals, trail, performed, recording, drawn,
  kind, prompted, typed, file, talk, round, body, posts, posting, error, reply,
  strategy, tree, frontier, best, phase,
  method, retryOnHighRisk, tries, run, retrying, output, selfcheck, factscore, audit,
  options, stats, request, chosen,
  backend, open, counter, made, writer, rows, cps, status, notices, fetch, heard, told,
  style, nodes, edges, handoffs, entry, last, parallel, asked, compiled

-----------------------------------------------------------------------------
(* Branches whose agent has one tool of its own, one from the registry and *)
(* one that is nowhere; a model two of whose prefixes have a price.        *)
Asking(tool, args) == [tool |-> tool, args |-> args]
Event(call, result, error_) == [call |-> call, result |-> result, error |-> error_]
Search == Asking("search", {"q", "x"})
SearchTool == [search |-> {"q"}]
SomeRequests == {Search, Asking("send", {}), Asking("lost", {})}
OneModel == {<<"m", "x", "y">>}
TwoPrices == [r \in {<<"m">>, <<"m", "x">>} |-> Len(r)]
SomeRecordings == {<<>>, <<Event(Search, "was", ""), Event(Search, "", "late")>>}
Loop == INSTANCE AgentLoop

Api == INSTANCE ModelApi WITH
  Kinds <- {"openai", "ollama", "anthropic", "google"}, Names <- ToolNames,
  LastRound <- MaxTurns, phase <- posting

Thoughts == INSTANCE TreeOfThoughts WITH Strategies <- {"bfs", "dfs"}, Breadth <- 2, Beam <- 1

Checks == INSTANCE Reliability WITH
  Methods <- {"llm", "model"}, MaxSentences <- 2, NumSamples <- 2, ModelScores <- {0, 24},
  Low <- 17, High <- 8

Opt(model, input, cost, latency, capability, features) ==
  [model |-> model, input |-> input, cost |-> cost, latency |-> latency, capability |-> capability,
   features |-> features]
Sla(capability, latency, features) ==
  [capability |-> capability, latency |-> latency, features |-> features]
SomeOptions ==
  {<<Opt("mini", 1, 1, 3, 1, {}), Opt("mid", 1, 3, 2, 2, {"tool_calling"}), Opt("max", 2, 6, 1, 3, {})>>,
   <<Opt("mid", 2, 3, 2, 2, {}), Opt("max", 1, 6, 1, 3, {"tool_calling"})>>}
SomeSlas == {Sla(0, 2, {}), Sla(0, 2, {"tool_calling"}), Sla(2, 1, {}), Sla(4, 2, {})}
SomeBudgets == [max : {-1, 0, 2, 4}, remaining : {-1, 3}]
Router == INSTANCE Routing

(* Two branches of one process, and a second process that resumed the run. *)
Stores == INSTANCE EventStores WITH
  kind <- backend, answer <- told

Builder == INSTANCE GraphBuilder WITH
  Names <- NodeNames, MaxEdges <- [fluent |-> MaxEdges, explicit |-> MaxEdges - 1]

ASSUME AgentsAssumption ==
  /\ Stores!StoresAssumption /\ Loop!AgentAssumption /\ Router!RouterAssumption
  /\ Builder!BuilderAssumption /\ Api!ApiAssumption

-----------------------------------------------------------------------------
NoLoop ==
  /\ pc = 0 /\ turn = 0 /\ answer = 0 /\ records = 0 /\ totals = 0 /\ trail = 0 /\ performed = 0
  /\ recording = 0 /\ drawn = 0
NoApi ==
  /\ kind = 0 /\ prompted = 0 /\ typed = 0 /\ file = 0 /\ talk = 0 /\ round = 0 /\ body = 0
  /\ posts = 0 /\ posting = 0 /\ error = 0 /\ reply = 0
NoThoughts == strategy = 0 /\ tree = 0 /\ frontier = 0 /\ best = 0 /\ phase = 0
NoChecks ==
  /\ method = 0 /\ retryOnHighRisk = 0 /\ tries = 0 /\ run = 0 /\ retrying = 0 /\ output = 0
  /\ selfcheck = 0 /\ factscore = 0 /\ audit = 0
NoRouter == options = 0 /\ stats = 0 /\ request = 0 /\ chosen = 0
NoBuilder ==
  /\ style = 0 /\ nodes = 0 /\ edges = 0 /\ handoffs = 0 /\ entry = 0 /\ last = 0 /\ parallel = 0
  /\ asked = 0 /\ compiled = 0

Init ==
  /\ part \in {"loop", "api", "thoughts", "checks", "router", "graphs", "stores"}
  /\ IF part = "loop" THEN Loop!Init ELSE NoLoop
  /\ IF part = "api" THEN Api!Init ELSE NoApi
  /\ IF part = "thoughts" THEN Thoughts!Init ELSE NoThoughts
  /\ IF part = "checks" THEN Checks!Init ELSE NoChecks
  /\ IF part = "router" THEN Router!Init ELSE NoRouter
  /\ IF part = "graphs" THEN Builder!Init ELSE NoBuilder
  /\ Stores!Init /\ (part # "stores" => backend = "memory")

loop == <<pc, turn, answer, records, totals, trail, performed, recording, drawn>>
api == <<kind, prompted, typed, file, talk, round, body, posts, posting, error, reply>>
thoughts == <<strategy, tree, frontier, best, phase>>
checks == <<method, retryOnHighRisk, tries, run, retrying, output, selfcheck, factscore, audit>>
router == <<options, stats, request, chosen>>
graphs == <<style, nodes, edges, handoffs, entry, last, parallel, asked, compiled>>
stores == <<backend, open, counter, made, writer, rows, cps, status, notices, fetch, heard, told>>
vars == <<part, loop, api, thoughts, checks, router, graphs, stores>>

Next ==
  /\ UNCHANGED part
  /\ \/ part = "loop" /\ Loop!Next /\ UNCHANGED <<api, thoughts, checks, router, graphs, stores>>
     \/ part = "api" /\ Api!Next /\ UNCHANGED <<loop, thoughts, checks, router, graphs, stores>>
     \/ part = "thoughts" /\ Thoughts!Next /\ UNCHANGED <<loop, api, checks, router, graphs, stores>>
     \/ part = "checks" /\ Checks!Next /\ UNCHANGED <<loop, api, thoughts, router, graphs, stores>>
     \/ part = "router" /\ Router!Next /\ UNCHANGED <<loop, api, thoughts, checks, graphs, stores>>
     \/ part = "graphs" /\ Builder!Next /\ UNCHANGED <<loop, api, thoughts, checks, router, stores>>
     \/ part = "stores" /\ Stores!Next /\ UNCHANGED <<loop, api, thoughts, checks, router, graphs>>
Spec == Init /\ [][Next]_vars

-----------------------------------------------------------------------------
(* The properties of the parts, stated in their modules: the budget and    *)
(* the trail of an agent, the requests to an API, the search in a tree,    *)
(* the report of a checked output, the limits of a chosen model, the       *)
(* protocol that every store implements (and what its listener hears), and *)
(* the graph that is built.                                                *)
BudgetHolds == part = "loop" => Loop!BudgetHolds
TrailIsComplete == part = "loop" => Loop!TrailIsComplete
RequestsHold == part = "api" => Api!RequestsHold
SearchIsSound == part = "thoughts" => Thoughts!SearchIsSound
ReportIsOfKept == part = "checks" => Checks!ReportIsOfKept
ChoiceWithinLimits == part = "router" => Router!ChoiceWithinLimits
ImplementsProtocol == Stores!ImplementsProtocol
BuiltAsAsked == part = "graphs" => Builder!BuiltAsAsked
=============================================================================
