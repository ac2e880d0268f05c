# A TLA+ model of Orchestra

Orchestra is a Python framework for multi-agent workflows: an execution engine
for graphs of agents with an event log, checkpoints and human gates; an HTTP
server around it; services next to it (model providers, budgets, memory,
messaging, access control, guards); and an application built on it that assesses
vendors and acquisitions. This directory models the parts whose correctness
depends on the order of steps, checks them with TLC on small instances, and
proves theorems about some of them with TLAPS.

Paths below are relative to `src/orchestra/` of the repository unless they begin
with `orchestra_tprm/`, which stands next to it. `PROJECT.json` gives, for every
definition, the lines it translates.

1. Inventory, 2. Modules, 3. Runs, 4. Proofs, 5. Plan, 6. Where code and
documentation disagree, 7. Not modelled.

## 1. Inventory

Everything runs on asyncio: inside one process code is atomic between two
`await`s, several processes share the stores.

### Execution engine: `core/compiled.py`, `core/graph.py`, `core/edges.py`, `core/state.py`, `core/nodes.py`

* State: the workflow state (a pydantic model whose fields may have reducers),
  the current node, the turn counter, the loop counters, the execution order,
  and the `EventBus` with its next sequence number.
* The builder: `then`, `parallel`, `join`, `branch`, `if_then`, `loop`, or
  `add_node` and the edges by name, then `compile`; between calls it keeps a last
  node and an open fan-out. Correct when a graph that compiles has the edges that
  were asked for.
* Operations: `run`, `resume`, `fork`; in the loop: interrupt before a node,
  execute it, resolve the next one (edge, condition, loop, handoff, fan-out,
  sends), interrupt after it, save a checkpoint; finish and fail.
* Interactions: writes events, checkpoints and the run status to the event
  store; calls agents, which emit events to the same bus; the server and the
  command line start drivers (a `run()` or `resume()` call) for it.
* Hard: two drivers of one run, a driver that is lost between two writes, the
  numbering of events across drivers, what an interrupt saves, the order in
  which branches end.
* Correct when: the log is ordered and ends once; a gated node runs only after
  an approval of that gate; checkpoints agree with the log and with the state,
  so that an interrupted run does what an uninterrupted one does; loops are
  bounded; every driver ends.

### Agents: `core/agent.py`, `core/context.py`, `cost/`, `tools/`

* State: the messages of one call, its tool records; shared with the other
  branches of a fan-out: the event bus, the totals of the cost aggregator, the
  budget, the recording that a replay answers from.
* Operations: check the budget, ask the model, report the call, execute, refuse
  or replay each tool, report it.
* Hard: branches check one budget before calls whose cost is known after them; a
  tool has had its effect when its report fails.
* Correct when: a fan-out exceeds its budget by one call of each branch at most;
  what was executed is in the log, and what was recorded is not executed again.

### Event stores: `storage/store.py`, `storage/sqlite.py`, `storage/postgres.py`, `storage/checkpoint.py`, `storage/events.py`

* State: events and checkpoints per run, the run table, the listeners.
* Operations: append, get events, save and load the latest checkpoint, update
  the run status, list runs, subscribe (Postgres), replay a log to a state
  (`project_state`).
* Hard: an event is numbered before the transaction that stores it begins;
  `UNIQUE(run_id, sequence)` exists on Postgres only; notifications tell that
  something happened, not what, and are handled by tasks that share one
  connection; in memory, the status is derived from the last event.
* Correct when: each backend does what the protocol says, whichever processes
  write; a listener is given no older event after a newer one, and the newest one
  as far as notifications are not lost.

### HTTP server: `server/lifecycle.py`, `server/routes/runs.py`, `server/routes/streams.py`, `server/app.py`, `server/middleware.py`

* State: per run its status, its task and the event queue; per stream the
  client's last event id; a token bucket per caller.
* Operations: start, resume, cancel, stream with replay, shutdown; the
  middleware that refuses large bodies and frequent requests.
* Interactions: a task runs the engine; a wrapper of the store feeds the queue;
  streams take from it.
* Hard: routes and tasks write one status with awaits in between; connections
  are lost with an event, or the end mark, on the wire; the events of agents carry
  the number 0; resumes replace a task that still runs;
  shutdown at any moment.
* Correct when: numbered events arrive in order and none is missed; `done` names a final
  status; streams end; nothing is listed as running that is not; the store is
  closed after the last write; no caller exceeds its rate.

### Model providers: `providers/`, `security/circuit_breaker.py`

* State: per provider a breaker (state, failures, time of the last failure); per
  conversation the messages; per command-line call a process, and for gemini one
  gate for all of them.
* Operations: `complete` along a chain of providers; conversion of a
  conversation to each API and of the answer back, retries, uploads, streams;
  start, time out, kill and reap a process.
* Hard: answers that arrive after the breaker changed state, several callers in
  a half-open breaker, probes that are cancelled; the pairing of calls and
  results, which every API does in its own way; cancellation between kill and
  wait.
* Correct when: a failing provider is left alone for the reset timeout, one that
  is well again is used again; a result reaches the call it answers; retries
  end and happen only for what may pass; no process outlives its call and no
  place in the gate is lost.

### Budgets: `cost/persistent_budget.py`, `cost/tenant.py`

* State: accounts in a hierarchy, a ledger, a balance per tenant and period.
* Operations: create or change an account, `check_and_debit`, `adjust_actual`.
* Hard: retries with one idempotency key, refusal by an ancestor, settlement
  after the period has rolled over, a run with two reservations.
* Correct when: balances are what the ledger says, nothing is charged twice, no
  debit passes a limit.

### Memory: `memory/singleflight.py`, `memory/tiers.py`

* State: the futures in flight; the hot and warm segments of the SLRU policy
  and the warm and cold backends.
* Operations: `do`; `store`, `retrieve`, `demote`.
* Hard: cancellation of a leader or a waiter; operations of two clients between
  the backend calls of one.
* Correct when: a function runs once at a time and every caller is answered; the
  value stored last is the value found.

### Messaging: `messaging/`

* State: a durable stream with its deliveries; per replica its session keys with
  a short history, its batch.
* Operations: publish, fetch, decrypt, handle, ack, nak, rotate, restart.
* Hard: redelivery, crashes before the ack, batches whose deadline passes,
  rotation while messages are in flight.
* Correct when: a task leaves the broker only when it was handled, is repeated
  only after a fault, is readable after a rotation.

### Access control: `security/acl.py`, `security/attenuation.py`, `identity/`

* State: issued tokens with their proofs, the revocation list, access lists,
  call counts; the registered agent cards.
* Operations: issue, delegate, attenuate, revoke, verify a chain, authorize and
  count a call; register, gossip, look up and validate cards.
* Hard: chains of proofs with alternatives, wildcards, expiry and unreachable
  documents; two forms of proofs, of which `ToolACL` reads one; cards that arrive in
  any order.
* Correct when: deny wins, a chain opens exactly when an unbroken one exists, a
  token claims nothing that its proofs do not cover, a known card never goes back.

### Guards: `security/guard.py`, `security/rebuff.py`, `security/guardrails.py`, `security/validators.py`

* State: restricted mode and capabilities of a context; the text and the
  position in a chain of guardrails.
* Operations: scan, narrow, announce, redact; canaries; pass, fix, retry, raise,
  block.
* Hard: runs that share a context scan at once; fixes undo what earlier
  guardrails passed.
* Correct when: restriction sticks; nothing a binding guardrail would catch is
  served.

### Reasoning, reliability, routing: `reasoning/tot.py`, `reliability/`, `routing/router.py`

* State: the tree of thoughts, its frontier and best leaf; the tries of an
  output with their reports; wins and losses of each model.
* Hard: pruning, several searches over one tree; reports that belong to another
  try; fallbacks that relax limits.
* Correct when: nothing impossible is built upon and nothing better is passed
  over; a report describes the output it is attached to; a limit is broken only
  by the fallback that may.

### TPRM: `orchestra_tprm/graph.py`, `agents/`, `server/app.py`

* State: the assessment (manifest, routing, findings, decision, plan, report)
  and the audit table; the registry of runs with a queue each.
* Operations: intake, routing, specialists in parallel, risk score, policy with
  audit, remediation, report, integration plan; start a run with eviction, poll
  it, stream it.
* Hard: models that answer in any shape, failing specialists and sinks; eviction
  of runs that still have a task; two streams of one queue.
* Correct when: nothing found is lost, failures block, every report was audited;
  runs conclude once, streams close, eviction spares the living.

### Discovery and hot reload: `discovery/`, `server/lifecycle.py` (`GraphRegistry`)

* State: the agent registry, the graph registry, the workflow files known.
* Operations: scan a project; reload an agent and recompile the workflows that
  name it; reload a workflow.
* Hard: files change again between a change and its handling, a batch of changes
  has no order, one of several workflows fails to compile.
* Correct when: what is served is made of the agents registered now, and a new
  agent gets into all its workflows or into none.

### The rest

| Part | Why it is not modelled |
|---|---|
| `core/hotreload.py`, `core/dynamic.py`, `discovery/tool_discovery.py`, `discovery/validation.py` | a watcher that replaces one graph per file; imports and warnings |
| `memory/invalidation.py`, `cache/`, `providers/cached.py` | nothing in the package starts the subscriber; writers and readers would be invented |
| `providers/replay.py`, `testing/scripted.py` | sequential test doubles |
| `memory/` vector store, embeddings, compression | numeric, I/O |
| `tools/mcp.py`, sandboxes, WASM | external processes; a tool is a choice of outcomes in `AgentLoop` |
| `interop/`, observability, CLI, UI, SDK, deployment | formats, cryptography, output, configuration |

## 2. Modules

| Module | Models | Abstracts |
|---|---|---|
| `WorkflowGraph` | nodes, edges, interrupts, fields with reducers, `apply_state_update`, `merge_parallel_updates`, handoff updates | a field's value is the sequence of its writers |
| `CompiledGraph` (extends it) | the engine: all drivers of one run on one store | what nodes compute; events carry type, node, number and their author |
| `GraphBuilder` | the builder of a graph and `compile()`, and what the engine makes of its edges | a builder is used through one half of its API, fluent or explicit |
| `GraphExecution` (extends it) | what the engine promises: nodes one after the other on the states their predecessors left | no events, drivers, checkpoints |
| `AgentLoop` | `BaseAgent.run` in the branches of a fan-out | a response is its calls, tokens and model name |
| `EventStoreProtocol` | what a store promises of one run | |
| `EventStores` | the three backends, two processes, a listener | statements of a database are atomic |
| `RunManager` | one run in the server: tasks, requests, streams, shutdown | the workflow is a task that appends events and ends |
| `RateLimit` | the middleware of a request | tokens in fractions of the window |
| `ProviderFailover` | breakers, chain, concurrent requests | latencies; counters up to what they are compared with |
| `ModelApi` | a conversation over each HTTP API, retries, streams, uploads | a message is its role, calls and identifiers |
| `CliModel` | calls through `claude`, `codex`, `gemini` | an output is the kind of reply it leads to |
| `BudgetLedger` | accounts, ledger, balances | SQL; each operation is one `BEGIN IMMEDIATE` transaction |
| `SingleFlight` | leaders, waiters, futures of one key | values |
| `TieredMemory` | the policy and two backends, call by call | a value is its version |
| `TaskDelivery` | replicas on one durable consumer, their keys, the broker | a sealed task is its replica and key number |
| `ToolAccess` | tokens, chains, `ToolACL` | signatures are what they are for |
| `AgentCards` | the card registry and the validator | as above |
| `HotReload` | a watched project, its registries of agents and graphs | a workflow is the agents it names, an agent its name and the edit that made it |
| `Guardrails` | chains around an agent, hooks around a node | a text is the set of its flaws |
| `PromptShield` | the shield and canaries around runs of two contexts | what a detector says is a choice |
| `TreeOfThoughts` | breadth-first and depth-first search | values are a few grades |
| `Reliability` | checked runs, their retry, audits, scores | scores are a few numbers |
| `Routing` | filters, fallbacks, the bandit's statistics | the sample of the bandit is a choice |
| `TprmAssessment` | an assessment from request to report | a model answers in one of the shapes the agents tell apart |
| `TprmRuns` | registry, tasks and streams of the assessment service | the assessment is nodes that complete |
| `MCCompiledGraph`, `MCAgents`, `MCServices`, `MCAccess`, `MCTprm` | the instances that are checked | |
| `CompiledGraphProofs` | theorems about the engine: types and gates, whole runs and their log | |
| `AgentsProofs`, `AgentLoopProofs` | theorems about what works under a node: stores, router and builder; the agent loop, with a library of sums, and the conversation with an API | |
| `RunManagerProofs`, `ProviderFailoverProofs`, `ServicesProofs`, `AccessProofs`, `TprmProofs` | theorems about the components of the runs `server`, `failover`, `services`, `access`, `tprm` | |

`CompiledGraph` composes graph, store and drivers; `RunManager` takes the engine
as a task with the steps its log shows; `TaskDelivery` composes publishers,
consumers, their keys and the broker; `EventStores` implements
`EventStoreProtocol`, and `CompiledGraph` uses a store only as that protocol
allows. `MCAgents`, `MCServices`, `MCAccess` and `MCTprm` set components that
share no state side by side: a variable `part` says which one moves, so that the
states of a run are the sum, and never the product, of those of its parts. Where a
theorem is about one of these components, its constants are constants of the `MC`
module too and get their values in the `.cfg`; the values of the others are
written where they are instantiated.

### State and actions of `CompiledGraph`

`pc[d]` is the place of driver `d` in `run`/`resume`/`_run_loop`; `cur`, `turn`,
`counters`, `order`, `st`, `seq` are the locals of `_run_loop` and the context;
`log`, `checkpoints` and `runStatus` are the store. One action is what happens
between two awaits that another task can get between:
`Start`, `ResumeLoad` (reads the checkpoint and numbers from it), `ResumeEmit`,
`NewTurn`, `UnknownNode`, `InterruptBefore`, `StartNode`, `TurnLimit`,
`ReachEnd`, `LLMCall`, `NodeReturn`, `NodeRaise`, then the edge (`FollowEdge`,
`LoopEdge`, `RouteRaise`, `NoHandoff`, `Handoff`, `FanOut`, `BranchCall`,
`BranchEnd`, `Join`), `InterruptAfter`, `SaveCheckpoint`, `Finish`,
`FinishStatus`, `Fail`, `FailCompleted`, `FailStatus`. With `Flaky` every write to a
database may fail: an event (`Refusable`), a checkpoint (`SaveFails`), or the update of
the status, which the code only logs. `Persist` says that `run()` opens the store
itself and makes the row of the run; on a SQLite store that was passed in there is none
(`Recorded`). What a resume takes from a checkpoint is `ResumeSeq`, `ResumeBypass`,
`ResumeOrder` and `ResumeCounters`; the last two are lost on Postgres (section 6).
`Cancel` stops a driver anywhere (its task is cancelled or its process dies: in both cases nothing more is written). `Fork` appends to the parent's log. `ResumePolicy` says who resumes
when: `interrupted` runs only, runs that are `idle` (nobody drives them, also
after a loss), or `any` time. `Agents` are the nodes that emit events of their
own, which have the number 0.

### State and actions of the others

* `GraphBuilder`: `Fluent` and `Explicit` are the two halves of the API, one action
  per method (`Then`, `FanOut`, `Join`, `Branch`, `IfThen`, `Loop`; `AddNode`,
  `AddEdge`, `AddHandoff`, `SetEntryPoint`), with what a call that raises leaves
  behind; `Compile` closes and validates, and the builder may be used on. `asked`
  records what the calls asked for.
* `HotReload`: `Edit` changes a file, `HandleChange` is the watcher's handler of one
  change: `ReloadAgent` (with the recompilation in it), `ReloadWorkflow` or `Fails`.
* `AgentLoop`: `pc[a]` is the place of a branch in `BaseAgent.run`; `totals` is
  what the aggregator has been told, `drawn` what the provider really used,
  `performed` which tool functions were entered. `Check` is the budget,
  `Respond` and `ProviderFails` the model, `ReportLlm`, `ReportTool` and
  `ReportDenial` the emissions, each of which `StoreFails` may end.
* `EventStores`: `Number` takes the number and calls the store; `Write` is
  SQLite's statement, `Insert` and `Commit` the transaction of Postgres,
  `AppendFails` everything that stops them. The second process (`Rival`) numbers
  from the checkpoint it loaded (`SeedRival`). `GetEvents` orders by number, as the
  statements do, and leaves open how events of one number are ordered. `Listen` is
  `subscribe_events`; a notification starts a task (`Notified`) that asks for the newest
  event (`Fetch`) and gives it to the callback (`Hear`), or raises because another task
  is fetching on the same connection; `Disconnect` loses the connection with all that is
  on it. `fetch.missed` records that a notification was lost after the database had read
  the newest event.
* `RunManager`: `status`, `task`, `queue` are the `ActiveRun`; `tpc` and `asked`
  its tasks (a node may catch a cancellation: `CatchCancel`); `hpc` the cancel
  requests, `cpc` the streams. `AppendEvent` appends a numbered event, or one of an
  agent (`Unnumbered`), which replay never finds and whose id takes the client back to
  0. A stream's `hand` is an item that `TakeEvent` took from the queue, event or end
  mark, and `SendEvent` or `SendDone` has not yet written to the connection: `Drop`
  loses it; `feed` is the event that is stored and not yet queued. The two
  seconds that `cancel_run` waits are a choice (`CancelReturns` may come before
  the task has ended).
* `RateLimit`: `Request` is the middleware in its order, with a body whose
  declared and real sizes differ; `Probe` is what it lets through unseen.
* `ProviderFailover`: `Complete` walks the chain to the first breaker that lets
  it through; `ProviderReturns` and `ProviderRaises` record the outcome, and a
  retryable error goes on to the next provider in the same step. `CancelRequest`
  records nothing, as in the code. Providers fall ill and recover by
  `HealthChanges`, which is the environment.
* `ModelApi`: `Complete` builds the request, each `Post` is one attempt, `Retry`
  the next, `Parse` the reply; `RunTools` appends calls and results as the agent
  does; `Stream`, `Upload` and `Send` are single-attempt calls. `prompted` says
  that the wrapper took the strategy for models without tool support.
* `CliModel`: `Start`, `Exit`, `Timeout`, `Break` (a stream's line that is no
  object), `Abandon` and `Collect` (a stream whose consumer stopped), `Cancel`,
  also during the wait after a kill; `End` leaves the gate, `Again` is gemini's
  second attempt.
* `BudgetLedger`: `CreateAccount`, `Debit`, `Adjust`, `NextDay`. An operation
  that is refused or dies rolls back and is therefore no step. The `parent_debit` rows
  of the ledger, which repeat for the ancestors what the row of the debit says, are left
  out: the balances are the same. Two days are one
  month, so that both kinds of period roll over within three days.
* `SingleFlight`: `Lead`, `Wait`, `FetchEnds`, `Wake` and the two cancellations.
* `TieredMemory`: every backend call is a step; what the policy does between two
  of them is part of the step before.
* `TaskDelivery`: `Fetch` and `Begin` (decrypt, which has no await) and then one
  action for the outcome of the handler, of the ack and of the nak; `Leave` is an
  exception or a cancellation that leaves the rest of the batch, `Restart` a
  process that is lost and started again with new keys. The broker is external:
  it offers a message again after a nak and after a missed deadline (`Expire`).
  `handled` and `owed` only record what happened.
* `ToolAccess`: `Issue` makes a token from proofs, `AttenuateToken` narrows one
  by restricted mode; a token has proofs of one form, and `Chain` is what
  `ToolACL` makes of them: itself alone if they are JWTs, which it cannot read;
  `Verified` is the recursion of `verify_delegation_chain` as
  a function on tokens, proofs having been issued before; `Call` authorizes and
  counts. `Fetch` changes which documents can be reached.
* `AgentCards`: `Register` in the order of its refusals, `RemoveDid`, `Bar` and
  `Unbar` of the caller's list, `Validate`. The sort of an agent's cards is left out: a
  card that is accepted is newer than those it joins and is put before them.
* `Guardrails`: a guardrail is what it finds, what its failure does and whether
  it can fix; `Before` and `After` are the engine's hooks, `Pass`, `Fix`,
  `Raise`, `Stop` one guardrail of a chain.
* `PromptShield`: per run the capabilities it read before its scan (`base`) and
  began to execute with (`granted`), per context the mode and what is left.
* `TreeOfThoughts`: `Level` is a round of the breadth-first search, `Leaf`,
  `Expand` and `Exhausted` a node of the depth-first one.
* `Reliability`: `RunChecked`, `Retry`, `RunScored`, `Audit`.
* `Routing`: `SelectModel`, `ReportOutcome`.
* `TprmAssessment`: one action per node of the graph, and for a specialist `Ask`
  (the calls) and `Normalise` (what the wrapper makes of the answer); `Join`
  merges. A request says what the scope of its deal does (`breakers`, the categories
  whose findings carry a deal-breaker keyword; `materiality` and `value`, from which
  the threshold is taken) and a document which categories of the request list it is for.
  `decision` has the verdict and what the memo recommends; a vendor row shows the first,
  a memo the second.
* `TprmRuns`: `StartRun` evicts first; `Begin`, `NodeDone`, `GraphEnds`, `Poll`
  are the task; `Open`, `Take`, `Deadline`, `Leave` a stream.

## 3. Runs

| Run | Question | Bounds |
|---|---|---|
| `review` | Does an interrupted, edited and resumed run behave as an uninterrupted one, with its gates, log, checkpoints, loop bounds and end in order? | six nodes with a fan-out, a back edge and a loop, both kinds of interrupt, five drivers, four turns, a SQLite store whose writes may fail |
| `retry` | Does the newest checkpoint win when drivers are lost anywhere and the run is resumed again? | handoffs, sends and agents, four drivers, each of which may stop at any step, one fork, three turns |
| `postgres` | What does the unique index give when anybody resumes at any time? | four nodes with a back edge, four drivers, one of them cancellable, writes that may fail |
| `server` | Are streams complete, ordered and finite, and statuses final? | one resume, one cancel request that may be caught, one client with pings and one reconnection, three numbered events and one of an agent, shutdown |
| `failover` | Is a failing provider left alone and a healthy one used again? | two requests, two providers, threshold and timeout two |
| `services` | Do coalesced calls, command-line models, memory, messaging and budgets keep what they promise? | three callers and three fetches of one key; two callers of each program, gate of one; one client, three keys, segments of one entry; two replicas (one restarts) of which one is sent to, two messages, batches of two, a history of one key, two new keys; four tenants in three levels, limits that change, three reservations and their settlements over two days |
| `access` | Does authority only narrow, do cards, guards, shield and limits hold, and is what a watched project serves up to date? | two agents, two sets of claims, three tokens, one tick of time; two versions of each card, two cards kept; 14 chains with six texts and one retry; three runs over two contexts; four requests of two identities, a bucket of two in a window of three, four moments; two agents and two workflows, two edits after the scan |
| `agents` | Are the budget, the trail, requests, searches, reports and choices of a node what they should be, do the stores keep the protocol, and is a graph built as asked? | two branches, two iterations, one model with two prices, usages 0 and 2 under a limit of 4; two rounds of two tools over four kinds of API, one retry; trees of depth and breadth two; two tries with two scores; two lists of models, four SLAs, eight budgets; three backends, two processes, two events each; builders of two names with three edges (fluent) or two (explicit) |
| `tprm` | Is every report whole and audited, every decision strict enough, every run concluded? | nine requests (five vendors, three deals with a scope, one without) whose models answer in eight ways and whose code has one of four licences; two runs in a registry of one, two clients, one event before the end |
| `fan_after`, `half_open`, `tprm_critical` | three promises of comments and documents that the code does not keep (section 6) | |

Why these bounds are enough. Two of whatever interferes is the least number that
interferes; the third driver, caller or token meets what the second left behind.
The graphs contain every kind of edge, a cycle, a node reached in two ways and
nodes with both, one or no interrupt; the turn limit lies below the longest path
so that it is met. A failure threshold of two distinguishes the first failure
from the one that opens the breaker; a timeout of two distinguishes "failed
lately" from "now". Segments of one entry make each store an eviction. Three
fetches let a late leader meet the next fetch. Two messages in one batch let the
second expire behind the first; two new keys push one out of a history of one.
Three tokens make a chain with a token in the middle, and one with two proofs to
choose from. A tree of depth two has a level that is pruned and one that ends it;
one retry separates the errors that are tried again from the others. A usage of two
under a limit of four lets both branches ask just below it. Two events and two saves per store let a number taken first be written
second. A registry of one is full with every second run. Two
edits let a file change again before its first change is handled, and two
workflows let one fail where the other compiles; a third edit was explored once
(1.8 million states) and shows nothing new. Three edges are a fan-out with its
join.

The bounds that only cap counters are `MaxTurns`, `MaxForks`, `MaxEvents`,
`MaxAgent`, `MaxDrops`, `LastTask`, `LastFlight`, `LastCall`, `LastKey`, `MaxMessages`,
`MaxOwed`, `LastDay`, `LastToken`, `LastTime`, `LastVersion`, `LastHour`,
`LastRequest`, `LastMoment`, `LastTry`, `LastReport`, `LastEvent`, `LastSave`, `LastEdit`,
`MaxEdges`, `LastRun` and `Steps`; the others (`MaxRetries`, `MaxIterations`, `MaxDepth`, `MaxCards`,
`MaxHistory`, `BatchSize`, `MaxRuns`, `MaxTokens`, `Window`, `HardTokens`, `Threshold`,
`ResetTimeout`) are parameters
of the code.

`CHECK_DEADLOCK FALSE` stands where the system ends: runs settle, conversations,
searches and assessments are over, requests are finitely many. `failover` never
ends and is checked for deadlock.

### Fairness

* `CompiledGraph!FairSpec`: a driver that can take a step takes it. Nodes are
  coroutines that the event loop runs; a node that never returns is not covered.
  Nothing makes a human resume a run.
* `RunManager!FairSpec`: the event loop runs every ready task, request and
  stream; workflows end. Connections, pings, drops and shutdown are not fair.
* `ProviderFailover!FairSpec`: requests keep coming and time passes. Answers are
  strongly fair: a caller may cancel a call, but not every call for ever.
  `Recovers` speaks of a provider that is well from some moment on.
* `SingleFlight!Fairness`: functions return and callers are scheduled.
* `CliModel!Fairness`: the event loop runs calls, and `asyncio.wait_for` ends
  those that take too long. That a program exits is not assumed: a call must end
  without it. Streams are not fair, they have no timeout.
* `TprmRuns!Fairness`: the event loop runs tasks and streams, nodes return, and a
  stream's deadline passes if nothing else closes it.

### What the properties say

The engine (`review`, `retry`, `postgres`):

* `GateHeld`: whoever starts a node with `interrupt_before` has just been
  resumed at it, from the checkpoint of the request to interrupt before it.
* `LogIsSound`. `SequencesIncrease`: the log is strictly increasing over all
  drivers of a run (without agents and forks, which number nothing, section 6).
  `CheckpointMatchesLog`: the execution order in a checkpoint is that of the
  `NodeCompleted` events before it. `EndsOnce`: one final event, the last.
  `LoopBounded`: a loop's limit holds over all resumes. `StatusAgrees`: the stored
  status says how the last driver settled, or still `running` when the last update
  failed. The run has a SQLite store opened by `run()`: on Postgres the execution order
  and the loop counters do not survive a resume, and a SQLite store that was passed in
  has no row for the run (section 6).
* `InterruptsAreTransparent`: the refinement of `GraphExecution!ASpec` under a
  mapping that takes node and state from the latest driver, while the run is
  interrupted from the checkpoint, and of a run that failed only that it did
  (`run()` raises and returns no state). It fails when an interrupt loses an update, repeats or skips a node.
* `NewestCheckpointWins`: the checkpoint with the highest number, the later one
  among equals, is the one saved last.
* `SingleDriver`: on Postgres, two drivers are never both past their first event.
* `ProjectionIsState`: once a node has completed, replaying the log gives the state
  its driver holds (for graphs without reducers, fan-outs and edits).
* `DriverSettles`: every driver ends.
* `BuiltAsAsked` (`agents`): a graph that compiles begins and goes on at nodes that
  exist, and what fluent calls put after a node that went nowhere, a join included,
  is where the engine goes from it, whatever was called and compiled in between.

The server: `StreamIsLog` (`InOrder`, `NothingMissed`, both about numbered events),
`EndIsFinal` (`DoneIsFinal`, `NoZombie`), `StreamEnds` (of a stream whose end mark is
still to come). Their conditions (`Undisturbed`, `drops`, `app`, `EndToCome`) each
exclude one thing that the code really does, named in section 6. `RateHolds`: in no stretch of time are more requests of an identity
counted than the bucket holds and refills, and one is refused only when the
limit has been used within the last window.

Providers: `FailingProviderRests`: once the failures in a row reach the
threshold, the provider is not called until the timeout has passed. `Recovers`:
a provider that stays well gets its breaker closed for good, however many probes
are cancelled. `RequestsHold`: every result is paired with the call it answers in
the form its API pairs them by, no instruction is lost where the API allows it,
retries are bounded and answer only what may pass. `GateServes`: programs are
bound to calls, their number to the gate, and every call with a timeout ends,
cancelled or not, giving back its place.

Memory, messaging, budgets: `Remembered`; `FetchesOnce` (`OneFetch`,
`JoinsOngoing`: nobody is given a result that was there before the call);
`AnsweredUnlessAbandoned`: a waiter is answered unless its leader was cancelled.
`DeliveryHolds`: a task leaves the broker only after a handler returned for it
(`AckedIsHandled`), stays readable until as many rotations as the history is long
(`InFlightReadable`), and every further execution is owed to an ack that failed
or a deadline that passed (`RepeatedOnlyAfterFault`). `LedgerSound`: the balance
of every tenant and period is what the ledger says it and those below it spent,
and a reservation is charged once. `LimitHeld`: no debit passes a limit on the
way to the root.

Access and guards: `ChainUnbroken`: `verify_delegation_chain`, one proof after
another, finds a chain exactly when the definition says there is one.
`AuthorityNarrows`: when a call is authorized with a token whose proofs `ToolACL` can
read, each proof covers all that the token claims, and the call; of JWT proofs nothing
of the kind holds (section 6). `CardsOnlyAdvance`: a known card is never replaced by an older one, the
index by type agrees, cards are in order, within their number and unexpired when
taken. `ServedIsWhole`: unless its file has changed since or a recompilation
failed, a served graph is made of the agents registered now; a reloaded agent gets
into every workflow that names it or into none. `GuardsHold`: what a binding guardrail would catch is neither given to the
agent nor served, unless a later fix brought it in. `ShieldSticks`: of the runs in
one context one announces, restriction has a cause, nothing is executed with
capabilities that the restriction took away.

Agents: `BudgetHolds`: branches of a fan-out pass a hard limit by what was asked
for before it was reached, one call each. `TrailIsComplete`: the log of a branch
is what its tools did, but for the last when its report fails; a replayed call
gets what was recorded. `SearchIsSound`: nothing impossible is expanded, no open
rival of the same choice is better than what is, a beam is as wide as it may be,
and a search that finds nothing has looked. `ReportIsOfKept`: the report belongs
to the output it is attached to, which is the best of its tries.
`ChoiceWithinLimits`: a limit (capability, latency, required features, budget) is broken
only by the fallback that may, when nothing within was on offer. `ImplementsProtocol`: each store, with two processes
that fail anywhere, is `EventStoreProtocol`; a listener is never given an older event
after a newer one, and once its notifications are handled it was given the newest last,
unless one was lost after that event had been read (`ListenerCurrent`).

TPRM: `ReportIsWhole`: a report was audited and contains every finding;
`VerdictHolds`: a specialist that failed blocks a decision by the policy pack, a
deal-stopper or a deal-breaker keyword one by a scope, and the report says so, but for
the memo of a deal without a scope, which shows a placeholder (section 6); further
findings never soften a decision; `Concluded`: a task tells its end once, and a
lone client hears it; `EvictionSpares`: eviction takes finished or stale runs
only and no more than it needs; `StreamCloses`: every stream closes, also the
second one of a run.

Every property is violated by a plausible bug in a definition of the model within
these bounds; `PROJECT.json` lists one for each.

## 4. Proofs

| Theorem | Module | Says, for every value of the constants |
|---|---|---|
| `TypeCorrect` | `CompiledGraphProofs` | `Spec => []TypeOK` |
| `GateIsHeld` | `CompiledGraphProofs` | `Spec => []GateHeld`: any graph, store, resume policy, number of drivers, forks, agents, turns |
| `NewestIsResumed` | `CompiledGraphProofs` | `ResumePolicy # "any" => (Spec => []NewestCheckpointWins)` |
| `OneDriver` | `CompiledGraphProofs` | `Store = "postgres" => (Spec => []SingleDriver)` |
| `RunIsTransparent` | `CompiledGraphProofs` | `ResumePolicy = "interrupted" /\ Lossless => (Spec => InterruptsAreTransparent)`: the refinement of `GraphExecution` |
| `LogStaysInOrder` | `CompiledGraphProofs` | `Ordered => (Spec => [](SequencesIncrease /\ EndsOnce /\ StatusAgrees))` |
| `LogStaysSound` | `CompiledGraphProofs` | `Orderly => (Spec => []LogIsSound)` |
| `LogShowsState` | `CompiledGraphProofs` | `Replayable => (Spec => []ProjectionIsState)` |
| `RunEndsFinal` | `RunManagerProofs` | `Spec => []EndIsFinal`: any tasks, cancel requests, clients |
| `StreamInOrder` | `RunManagerProofs` | `Spec => []InOrder` |
| `StreamShowsLog` | `RunManagerProofs` | `OneStream => (Spec => []StreamIsLog)` |
| `FailingProvidersRest` | `ProviderFailoverProofs` | `Spec => FailingProviderRests`: any providers, requests, threshold, timeout |
| `OneFetchAtATime` | `ServicesProofs` | `Spec => FetchesOnce`: any callers and fetches, all cancellations |
| `DeliveryIsKept` | `ServicesProofs` | `MCSpec => []DeliveryHolds`: any replicas, batches, keys and messages |
| `MemoryIsKept` | `ServicesProofs` | `MCSpec => []Remembered`: any keys and capacities, with a cold backend or without |
| `LedgerStaysSound` | `ServicesProofs` | `MCSpec => []LedgerSound`: any hierarchy, reservations, settlements |
| `LimitStaysHeld` | `ServicesProofs` | `MCSpec => LimitHeld`: the same, with daily budgets |
| `ShieldHolds` | `AccessProofs` | `MCSpec => []ShieldSticks`: any runs, agents and capabilities |
| `GuardsDoHold` | `AccessProofs` | `MCSpec => []GuardsHold`: any chains, hooks, texts |
| `CardsAdvance` | `AccessProofs` | `Spec => CardsOnlyAdvance`: any agents, types, versions, capacity |
| `AuthorityOnlyNarrows` | `AccessProofs` | `MCSpec => []AuthorityNarrows`: any agents, claims, access lists, tools |
| `ServedStaysWhole` | `AccessProofs` | `MCSpec => ServedIsWhole`: any files of agents and of workflows |
| `RateIsLimited` | `AccessProofs` | `MCSpec => []RateHolds`: any identities, bucket and window |
| `BudgetIsKept` | `AgentLoopProofs` | `Spec => []BudgetHolds`: any branches, usages, limit, requests |
| `TrailStaysComplete` | `AgentLoopProofs` | `Spec => []TrailIsComplete`: any tools, requests, recordings |
| `RequestsStayPaired` | `AgentLoopProofs` | `Spec => []RequestsHold`: any tools, calls, answers, number of retries |
| `ChoiceStaysWithin` | `AgentsProofs` | `Spec => []ChoiceWithinLimits`: any lists of models, SLAs, budgets |
| `GraphStaysAsAsked` | `AgentsProofs` | `Spec => []BuiltAsAsked`: any names, any number of edges, both halves of the API |
| `TaskConcludesOnce` | `TprmProofs` | `MCSpec => []Concluded`: any runs, clients, nodes |
| `EvictionTakesStale` | `TprmProofs` | `MCSpec => EvictionSpares`: any runs and size of the registry |
| `ReportStaysWhole` | `TprmProofs` | `MCSpec => []ReportIsWhole`: any requests, documents, routes, answers |
| `VerdictStaysStrict` | `TprmProofs` | `MCSpec => []VerdictHolds`: any requests, answers, exposure, materiality, enterprise value |
| `StoresImplement` | `AgentsProofs` | `Spec => ImplementsProtocol`: the refinement of `EventStoreProtocol` for any writers, events, checkpoints |

`MCSpec` (and `Spec` of `MCAgents`) sets several components side by side; the
theorems about one of them hold for all values of its constants, which the `MC`
module therefore has as constants of its own, and need nothing of the others: a
step of another part leaves the variables of this one alone.

### The engine

Assumptions: `GraphAssumption` (a validated graph: entry, targets and edges are
what `WorkflowGraph._validate` and the builder ensure), `DriverAssumption` (the
kinds of store and of resume policy; a fork is no driver) and
`SelectionAssumption` (`SelectSeq` over a sequence of nodes gives a sequence of
nodes; TLC evaluates it for every graph, the provers cannot unfold `SelectSeq`).

`TypeOK` alone is not inductive: that routing stays among the nodes needs
`AtNode`, that a driver past the loop head is at a node. `GateHeld` speaks of the
log, in which the events of several drivers and of forks interleave, and is made
inductive by `GateInv`:

* `GateOf`: a driver that has passed a gate, or holds a bypass, has an
  `InterruptResumed` for its current node as its own last event;
* `CheckpointRequested`: every checkpoint of kind `before` that a resume could
  load has an `InterruptRequested` for its node with the checkpoint's number;
* `GateHeld` itself, which an appended event keeps because `Approved` looks only
  at what is before a start (`GateExtends`, `ApprovalStays`, `RequestedStays`).

There is one lemma per group of actions (`GateResume`, `GateLoop`, `GateExecute`,
`GateRoute`, `GateSettle`), each with a case per action; actions that append
nothing or an event that is no start follow from `GateFrame` and `GateQuiet`.

The theorems about whole runs begin with `Footprint`, what one step of one driver
can change, and rest on one of two invariants, by who may resume:

* `OneAtATime`, when callers wait until nobody drives the run (`ResumePolicy` is
  not `any`, the hypothesis of `NewestIsResumed`): the driver started last is the
  only active one, checkpoints are numbered in the order they were saved, and that
  driver has counted past all of them. Each part needs the others.
* `OneExecutes`, on Postgres and with any callers: whoever executes has taken the
  number after every checkpoint, so that the first event of another resume meets
  the unique index. Only once the run was interrupted again is there a checkpoint
  whose successor is free, and then nobody executes. `SingleDriver` follows.

`RunIsTransparent` adds `Placed` and shows `Init` to be an initial state of
`GraphExecution` and each step to be one of its steps or a stutter
(`HeadRefines`, `NodeRefines`, `RouteRefines`, `SettleRefines`, `ResumeRefines`).
Its hypothesis `Lossless` is that no node with `interrupt_after` fans out or hands
off: what such an interrupt loses is the disagreement that the run `fan_after`
shows. That runs are resumed where they returned as interrupted is what `resume()`
is for (`core/compiled.py`); a run that was lost and is resumed from an older
checkpoint executes nodes again.

`LogStaysInOrder` holds for `Ordered` runs, on Postgres too. Agents and forks log
events with the number 0, the in-memory store derives the status from the event type
and a SQLite store that was passed in has no row to say it, which are disagreements of
section 6. `LogStaysSound` needs a run to be `Orderly` besides: on a store that gives
back the execution order and the loop counters of a checkpoint (`Keeping`, all but
Postgres), and because a `loop()` with a limit of 0 still runs its node once. The
conjuncts of `LogIsSound` need in turn `Kept` (a waiting run's newest
checkpoint holds what its last driver had), `LogShape` (the log's numbers are the
last driver's count, it ends where the driver has), `StatusKept` and `LoopKept`
(the count of a loop, in the driver or the checkpoint, is the number of its starts
or one behind).

`LogShowsState` holds for graphs whose nodes log all that they change
(`Replayable`: no reducers, edits, fan-outs or payloads, the disagreement of
`storage/store.py:214`), whoever resumes. `ShowInv` says that the log shows the
state of the driver that executes, and of every checkpoint and every resuming
driver that could still get to execute.

### The server

`RunManagerAssumption` says that the bounds are numbers. `EndIsFinal` needs
`Owned` (a run marked running has a task that will say how it ends, or a cancel
request that will) and `AloneSettles` (of an undisturbed run, task and status
agree and the end of the queue is its last entry). `StreamIsLog` needs, for a
client's first connection, the order of the queue, of the event under way into it
and of the one in the stream's hand (`OrderInv`), of the numbered ones among them
(`Numbering` says that the event under way has a number); for reconnections, where each
numbered event that the client has not received is: in the queue, about to be, in the
stream's hand or to be replayed (`Follows`). The variable `feed` is the event that
`_BroadcastStore.append` has stored and not yet queued; without it the invariant
could not say what is on its way. `OneStream` is the condition that `StreamIsLog`
meets in the run: one client, and at most one lost connection if pings make it
forget its id (section 6).

### Providers, memory and messaging

* `FailingProvidersRest` rests on `FailoverAssumption`. The breaker keeps a count
  and a time, the property speaks of the outcomes: `AllCount` says that a streak of
  failures is in the count of a closed breaker and in the time of an open one. A
  request walks the chain to the *first* provider let through, whose existence is
  a least element (`LeastElement`, from the well-foundedness of the naturals).
* `OneFetchAtATime` rests on `SingleFlightAssumption`. That only one caller leads
  does not follow from the previous state alone: it needs `LeaderHasEntry`, that
  whoever leads owns the entry of the key, because `Lead` looks at the entry and
  not at the other callers.
* `DeliveryIsKept` rests on `DeliveryAssumption`. The new part of `DeliveryInv` is
  `Covered`: the executions that may still come of a message, one for each replica
  that has it in a batch and is not acknowledging it and one if the broker would
  offer it, are no more than those allowed (the first and one for each fault).

### Access and guards

`AccessAssumption` collects what the components assume. For tokens it is
`IsPath`: a wildcard is the last part of a resource's path, as in every resource
of the repository. Without it covering is not transitive: `tools/*/*` covers
`tools/*`, which covers every resource there is (`security/acl.py:62`).

* `ShieldInv`: the mode a run was told of is the mode, the run that may announce
  it is the one that entered it, and capabilities are clean from the moment a run
  of a restricted context narrowed them.
* `GuardInv`: up to the guardrail at work the text is clean of what the chain
  binds, for the input chain, the output chain and both lists of hooks.
* `CardInv`: the property compares the served cards, the first of each sequence;
  that inserting, cutting and dropping keep them the newest needs `BestFirst`, that
  the versions behind are lower.
* `TokenInv`: proofs that `ToolACL` can read are issued tokens. It compares them two by
  two, each with the next and the last with the token: covering is transitive
  (`CoversAll`), so every proof covers the token's claims (`ChainNarrows`).
* `ReloadInv`: an edit gives a text a number that no served graph has yet
  (`edits` is the highest), what is served is known, and `ServesCurrent` itself.
  That a file is not both an agent and a workflow is the assumption, the scanner
  reads them from two directories.

### The event stores

`StoresAssumption` says that the bound is a number. `StoreInv` has `RowsHold`
(every event is in the log once), `SavesHold`, `WritersHold` (a number that a
writer took is one its bus has passed), `InMemoryHolds` (in memory a number is
taken and stored in one step, therefore rows are in order) and `ListenerHolds` (what a
fetch has read is not older than what was heard; a connected listener behind on the
newest event still has a notification or a fetch to come, or has lost a notification
since it read). The greatest number
of a log, which `CHOOSE` names in the model, is shown to exist by carrying the row
that has it along.

### Rates

`RateAssumption` says that bucket and window are not empty; `AccessAssumption`
includes it. `RateHolds` relates any two moments, so its invariant does too: the
bucket of an identity, together with what was counted of its requests since any
moment, is never more than a full bucket and the refill since (`NotTooMuch`) and
never less than the smaller of the two (`NotTooLittle`). The first bounds what is
admitted, the second what may be refused.

### The agent loop and the router

* `AgentAssumption`: branches are finitely many, usages have a greatest one, the
  limit is a number or none. `BudgetHolds` adds up over the branches; its invariant
  says what they drew from the provider is at most what the aggregator was told plus what
  branches hold unreported (`Covered`), and that the total, with one call of the
  greatest usage for each branch that is asking or about to report, stays below the
  limit and one such call for every branch (`WithinBudget`). The model's sums are
  folds with `CHOOSE`; `SumIs` shows by induction on the size of the set that a sum
  does not depend on the order, `SumChange` what one changed term does to it.
* `TrailIsComplete` needs, per branch, where it is in the list of calls of the
  answer: in a live run (`Live`) what is in the log is what was executed, in order,
  with at most the one call at hand in between, and the record of that call is what
  the tool returned; in a replay (`Replayed`) nothing is logged, every record comes
  from the recording, and a tool is executed only for a call it does not have.
* `RouterAssumption`: lists of models are not empty and costs are natural numbers.
  The invariant is the property; the work is in the choice: filters are sets of
  places in the list, the cheapest and the fastest are the first of the least
  (`FirstOfLeast`), and half as much again, rounded down, is compared without
  division (`StretchedIs`).

### The assessment and its service

`AssessmentAssumption` says that rosters are lists of names, that thresholds are whole
numbers, that the enterprise value, 0 without a scope, and the exposure are natural
ones. `AssessmentInv` says what each node may rely on:
nothing is audited, decided or written before its node (`Undecided`); from the join of
the specialists on, what a branch found is among the findings (`Kept`); between the
policy and the report the audit is the findings and the decision theirs (`Settles`),
and a report, once written, tells both, also of a run that fails later (`ToldAll`).
`BranchFine` keeps, for each specialist, that one that raised or whose answer was
withheld has a finding of its own that says so. The findings are joined and the
weights added up by recursive functions over positions: `FlattenHas` and
`AddedAppend` show by induction on the length what the ones and the others are.
`NeverSofter` then is that no sum shrinks by a further finding (`MeasureGrows`);
`SameVerdict`, that the verdict does not change while request and findings do not.

`TprmAssumption` says that the bounds are numbers and the registry holds one run at
least. `ServiceInv` gives the queue of a run as a function of its task and of the
nodes it has reported (`RunHolds`: the start, one event for each node, then a
conclusion or none, then the two marks that close the stream), so that counting
events is counting positions (`TellingCounts`). Of the streams, what was taken from
a queue is what its only stream has (`StreamHolds`), and nothing was taken from a
queue nobody follows (`QueueHolds`). `EvictionSpares` is a property of `StartRun`
alone, but needs from `ServiceInv` that the registry and the expired runs are among
those created.

### Tiered memory

`TieredMemoryAssumption` says that capacities are numbers and that there is a key.
`MemoryInv` says where a memory is (`InPlace`): what the policy holds is the last
version stored, and so is what the warm backend has or, where it has nothing, the
cold one, but for the one key that is about to be written to the warm backend; and
what the operation under way carries (`UnderWay`): the value to be promoted or
written back is the last one, what is demoted is in the cold backend before it is
deleted from the warm one. The policy itself need only be shown to make nothing up:
whatever it does to its segments, of the entries that were there and the one
inserted some remain (`Fewer`). The theorem is about one client: an operation is
interrupted by nobody, and what two of them do to each other is in section 6.

### The budgets

`BudgetAssumption` says that tenants are finitely many, limits natural numbers and
amounts whole ones. The instance gives every tenant one parent, so that an upsert
changes limits and nobody is moved, and a daily budget: with other periods
`LimitHeld` does not hold (section 6). `BudgetInv` says that parents have accounts
(`Rooted`, the foreign key), that the balance rows of the chain of every estimate
exist (corrections reach only rows that do), and the balances themselves. Chains and
totals are recursive functions: by induction on the height, a chain is made of
accounts (`ChainWithin`) and stays when others are created (`ChainStays`); by
induction on the length of the ledger, an entry adds its cost to the totals of its
chain and period and to no other (`TotalAppend`, `EntryAdds`).

### The builder

`BuilderAssumption` says that END is no name: in the code it is an object of its
own, and `add_node()` refuses it.
`GraphInv` says where the first edge of a node leads: for every pair that was asked
for there is a first edge from its one node, and it reaches the other (`Led`). An
edge appended behind others does not change which is first (`StillLed`), and is the
first itself only where there was none (`NewlyLed`); `join()` rewrites an edge in
place, keeps its source and targets and adds the join, so what was led stays led
(`JoinKeeps`). Joins of fluent graphs are nodes (`JoinsAre`), which `compile()` does
not check. What it does check is kept as part of the invariant while `compiled`
holds, with the edge to END it adds.

### The conversation with an API

`ApiAssumption` says that the kinds of provider are the four there are and retries a
number. `TalkHolds` says what a conversation looks like: the first message is the
only system text, every result has the message whose call it answers so many places
before it (`Owns`), every call has its result but those whose tools are about to run
(`Answered`), and the ids of the calls of a message are apart or missing
(`CallsAre`). What the conversion makes of it is a recursive function over the
messages: `SpokenIs` shows by induction that it drops the first and the prompts and
shifts the others by one place (`TurnsAre`), so that the owner the API finds is the
one meant (`OwnerIs`, `PairsHold`). `PostsHold` says that what is tried again, and
what an error that invites to try again was raised for, is an answer that may pass.

### What stays model-checked

* Liveness (`DriverSettles`, `StreamEnds`, `Recovers`, `AnsweredUnlessAbandoned`,
  `GateServes`, `StreamCloses`): liveness under fairness is outside the prover's
  reach.
* What is computed for every input by a recursive function or a fold over data:
  the chains of `Verified` (`ChainUnbroken`), the folds of `ReportIsOfKept`.
* `SearchIsSound`: no proof yet. Its model is a sequence of steps over one tree,
  whose states TLC covers for every shape within the bounds.

## 5. Plan

Done: the modules of section 2 and the theorems of section 4. Left, in order:

1. Proofs: the steps of `SearchIsSound`.
2. `TaskDelivery`, liveness: a task whose key is kept is handled, whichever
   replicas get it first, under a fairness of the broker still to be justified.
3. Failing backends of the memory, schema changes of the stores, `CallableProvider`.

## 6. Where code and documentation disagree

The first three are runs; those below them with a definition were met with the
constants given, and the definitions they violate are in the modules; the rest
were met while translating and the models do what the code does.

| Where | What happens | Seen with |
|---|---|---|
| `core/compiled.py:535` | `interrupt_after` on a node that fans out runs the branches and loses what they wrote | `fan_after` |
| `security/circuit_breaker.py:136` | a half-open breaker lets every request through | `half_open` |
| `orchestra_tprm/agents/policy.py:128` | with a scope, a critical finding without the tag `deal-stopper` does not block | `tprm_critical` |
| `server/app.py:93` | shutdown does not stop a task that a resume has replaced | `ClosedQuietly` |
| `memory/singleflight.py:40` | cancelling the leader leaves its waiters waiting | `Answered` |
| `memory/singleflight.py:29` | cancelling one waiter takes the result from all | `ResultForAll` |
| `core/agent.py:147`, `core/compiled.py:379` | agents and `fork` append events with number 0, which pagination never returns and Postgres refuses; `storage/events.py:47` says the bus assigns it | `SequencesIncrease` in `Review.cfg` with `Agents = {"draft"}`, or `MaxForks = 1` |
| `core/compiled.py:549` | `interrupt_after` on the last node leaves a checkpoint that cannot be resumed | `NodeExists`, `After = {"polish"}` |
| `core/compiled.py:969` | a fan-out or send target with `interrupt_before` runs without asking | `GateHeldInBranches`, `Before = {"lint"}` |
| `storage/store.py:142` | the in-memory store lists a failed run as completed | `StatusAgrees`, `Store = "memory"` |
| `storage/store.py:214` | replay forgets reducers, branches and human edits | `ProjectionIsState` in `Review.cfg` |
| `core/compiled.py:289` | on Postgres, a resumed run that is lost before its next checkpoint can never be resumed | `ResumeIsStorable` in `Postgres.cfg` |
| `storage/postgres.py:342` | JSONB comes back as text, in which the execution order and the loop counters are lost: a loop may run its limit again after each resume | `CheckpointMatchesLog`, `LoopBounded` in `Review.cfg` with `Store = "postgres"`, `Persist = FALSE` |
| `storage/sqlite.py:165` | `append` is said to create the run record, which only `create_run` does: a store that was passed to `run()` never says how the run ended | `StatusAgrees` in `Review.cfg` with `Persist = FALSE` |
| `storage/postgres.py:552` | notifications are handled by tasks that fetch on one connection: one that finds a fetch under way raises, and its notification is lost | `ListenerCurrent` without `~fetch.missed` |
| `core/agent.py:147` | the events of agents, numbered 0, are not replayed to a client that comes back, and set its Last-Event-ID to 0, so that it is replayed what it has | by reading; `AppendEvent`, `Missed` and `Receive` do so |
| `server/routes/streams.py:70` | a connection lost with the end mark takes it along: the client that comes back is pinged for ever | `StreamEnds` without `EndToCome` |
| `security/acl.py:241` | proofs that are JWTs, the only form that `issue` and `delegate` make, are skipped: a token that claims more than its proofs is authorized, although `security/acl.py:196`, `identity/ucan.py:5` and `identity/delegation.py:3` say it is refused | `AuthorityNarrows` without the condition on `form` |
| `orchestra_tprm/agents/policy.py:131` | without a scope the memo recommends `proceed`, whatever was decided, and `agents/coordinator.py:358` prints it | `VerdictHolds` with `report.verdict` in place of `decision.verdict` and no `~MA` |
| `server/routes/streams.py:62` | of two streams of one run, one never ends | `StreamEnds`, `Clients = {"c1", "c2"}` |
| `server/routes/runs.py:405` | the done event of a cancelled run may say running | `DoneIsFinal` without `Undisturbed` |
| `server/routes/streams.py:67` | a ping makes the client forget its id; it misses events when it reconnects | `NothingMissed` without its last condition |
| `server/routes/streams.py:49` | a reconnected client may get queued events twice | `InOrder` without `drops[c] = 0` |
| `server/lifecycle.py:185`, `server/routes/runs.py:169` | an interrupted run is marked completed and cannot be resumed over HTTP | `InterruptedCanResume` |
| `server/routes/runs.py:183` | a resumed run's events reach no queue | by reading |
| `core/graph.py:472` | what `then()` adds behind `loop()` is never reached: the engine takes the first edge of a node, which is the loop's; the same holds for nodes added after a `compile()` and behind a `parallel()` that comes first | `EveryNodeFollows` of `GraphBuilder` |
| `discovery/hotreload.py:175` | a workflow that is handled before the agent it names fails, is not known, and is not tried again when the agent comes | `OrderIsIrrelevant` of `HotReload` |
| `security/circuit_breaker.py:141` | failures need not be consecutive to open a breaker | `OpensOnConsecutive` |
| `cost/persistent_budget.py:287` | a daily child of a monthly parent is charged to the parent's single days | `LimitHeld` with a mixed pair of tenants over three days |
| `cost/persistent_budget.py:158` | the reset period `none` resets monthly | `LimitHeld` with that kind |
| `memory/tiers.py:264` | a retrieve puts back a version that a store has replaced | `Remembered` with two clients |
| `memory/tiers.py:300` | with a cold backend only, evicted memories are lost | `Remembered`, `HasWarm = FALSE` |
| `messaging/secure_provider.py:169` | keys live in memory: what is in flight when a replica restarts can be opened by nobody, although `messaging/client.py:54` promises crash recovery | `GroupCanOpen` |
| `messaging/consumer.py:74` | redelivery is said to end at `max_deliver`, which nothing sets | by reading |

Met while translating; the models do what the code does:

* Stores: `storage/postgres.py:197` locks by `hash(run_id)`, which differs between
  processes, so the lock of one does not keep the other out; a number is taken
  from the bus before the lock and may be written after a higher one; a notification
  says that something was appended and the listener reads the latest event only, so
  that a burst is heard as its last event.
* Agents: the `SecurityViolation` of a refused tool (`core/agent.py:312`) is
  emitted in a replay too; a replay answers repeated calls with the first result
  recorded for them. Tree search, self-check and audit ask the model without an
  `LLMCalled` event. In `core/nodes.py`, factories of nodes take state and context,
  a `FunctionNode` gives its function the state only.
* Shield: after a detection the branch of a fan-out is restricted and its parent
  is not; `clone_for_branch` (`core/context.py:105`) does not copy capabilities; a
  failed `RestrictedModeEntered` leaves the mode on with the capabilities as they
  were. Without user text the auditor sets `injection_audit` to `None`, which the
  lambda of its documentation (`security/rebuff.py:418`) cannot read.
* Guardrails: FIX on message lists is not applied; the retry takes its action from
  the first guardrail that does not log (`security/guardrails.py:471`), whichever
  failed; a FIX without a fix passes; the guardrails of `validators.py` are skipped
  as hooks; the notice of a blocked output repeats the banned word.
* Search and checks: the depth-first search stops after its first leaf at the
  limit; a retry of a self-check that gets no samples displaces the output that
  was checked.
* Routing: favoring latency takes a maximum of 0 for no limit
  (`routing/router.py:219`); the soft limit's suggested model is never used.
* Providers: `RateLimitError.retry_after_seconds` (`core/errors.py:79`) is never
  set; Ollama retries no status error; a 200 whose body is no JSON raises an
  untyped error; the system messages of the prompted strategy replace the agent's
  prompt on Anthropic, Google and the command lines; Anthropic and Ollama ignore
  `output_type`; Anthropic's stream reports `max_tokens` as `stop`; streams drop
  tool calls and, over HTTP and Ollama, raise on a finish reason they do not know. Streams
  of the command lines have no timeout, ignore the exit code, never read stderr,
  break on a line of JSON that is no object, and gemini's pass by the gate;
  prompts leave out the assistant's tool calls.
* Identity: keys given only as `publicKeyJwk` (`identity/did_web.py:57`) are never
  found by `verify_delegation_chain`; an issuer that cannot be resolved aborts it
  although another proof would do; `issue` drops `max_calls`; nothing increments
  the version of a card "on rotation" (`identity/agent_identity.py:124`).
* Middleware: a chunked body that is too large is refused after it has used a
  token of the caller's bucket.
* Builder: a loop over a node that already goes on is ignored; `add_node` of an
  agent with an `output_key` drops its interrupts (`core/graph.py:149`);
  `_validate` looks neither at joins nor at the targets of handoffs.
* Hot reload: agents are replaced though a graph that does not recompile keeps the
  old ones, in the other workflows too; workflows that name an agent by the stem of
  its file are not recompiled when its name is another; what a deleted file
  described is served on.
* Recordings: the positional fallback of `providers/replay.py` also serves those
  that were taken by hash. `SnapshotManager` saves an event as a checkpoint.
* TPRM: `app.py:67` evicts finished runs below the cap of the registry; the report
  of a plan without items drops its summary (`agents/coordinator.py:105`); a
  `horizon_days` of `null` is not caught.

## 7. Not modelled, within the modelled parts

Engine: `distill_context`, tracing and rendering, subgraphs, a `CancelledError` raised inside a branch. Builder: names made
from functions, mixed use of both halves of its API. Hot reload: tools (a restart
is asked for), names of workflows other than their files'. Stores: upgrades of the schema, contracts, serialization beyond what
section 6 names. Server: authentication, cost and graph views, the fork limiter.
Failover: latency statistics and their ordering. Budgets: the `parent_debit` rows, the shared connection
of `:memory:`, moving a tenant while its reservations are open. Memory: failing
backends, expiry, compression. Messaging: deduplication and retention (the
broker's), `terminate` (nothing calls it), the connection, DID encoding, trace
headers. Providers: token counts, the text of a command line's prompt, the chunks
of HTTP streams, `CallableProvider`. Guards: what a detector or a validator
recognises. Reasoning and routing: the values the models give. TPRM: the cells
of a vendor row (of the findings it has the categories only), the language
of the agents, the command line, adapters other than the audit table.

Left out altogether, with the reasons in section 1: cache invalidation,
replayed and scripted providers, indexing of memory, interoperation,
observability, command line, user interface, SDK, deployment.
