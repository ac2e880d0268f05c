----------------------------- MODULE CompiledGraph -----------------------------
(***************************************************************************)
(* One run of a workflow as core/compiled.py executes it: the execution    *)
(* loop of run() and resume(), interrupts and checkpoints, parallel        *)
(* fan-out, the event log the run leaves in its EventStore, and fork().    *)
(*                                                                         *)
(* A driver is one asyncio task inside run() (the starter) or resume() for *)
(* the same run id.  Between two awaits a driver is atomic; an action is   *)
(* what it does up to and including one append to the store, which is the  *)
(* only thing several drivers share.                                       *)
(***************************************************************************)
EXTENDS WorkflowGraph

CONSTANTS
  Drivers,       \* asyncio tasks that may drive this run
  Starter,       \* the one that calls run()
  Store,         \* which EventStore: "memory", "sqlite" or "postgres"
  Flaky,         \* whether a statement of that store may fail (databases only)
  Persist,       \* whether run() opens the store itself (SQLite only)
  ResumePolicy,  \* when callers call resume(): see MayResume
  Cancellable,   \* drivers whose task may be cancelled (or lost in a crash)
  HumanWrites,   \* the sets of fields a caller's state_updates may name
  MaxForks       \* bound: fork() calls on this run

Forker == "fork"     \* the author of ForkCreated events

ASSUME DriverAssumption ==
  /\ Starter \in Drivers
  /\ Forker \notin Drivers
  /\ Store \in {"memory", "sqlite", "postgres"}
  /\ Flaky \in BOOLEAN /\ (Flaky => Store # "memory")
  /\ Persist \in BOOLEAN /\ (Persist => Store = "sqlite")
  /\ ResumePolicy \in {"interrupted", "idle", "any"}
  /\ Cancellable \subseteq Drivers
  /\ HumanWrites \subseteq SUBSET Fields
  /\ MaxForks \in Nat

VARIABLES
  log,          \* workflow_events: the appended events, oldest first
  checkpoints,  \* workflow_checkpoints, in insertion order
  runStatus,    \* workflow_runs.status
  pc,           \* pc[d]: where driver d is
  cur,          \* current_node_id
  st,           \* the workflow state object
  turns,        \* turn_number
  seq,          \* the sequence counter of the driver's own EventBus
  bypass,       \* bypass_interrupt_on_start
  order,        \* node_execution_order
  counters,     \* loop_counters
  branch,       \* branch[d][n]: the gathered branch n of a fan-out
  dest,         \* the node an interrupt resumes at
  itype,        \* interrupt_type of that interrupt
  latest        \* the driver that was started last

store   == <<log, checkpoints, runStatus>>
context == <<cur, st, turns, bypass, order, counters, branch, dest, itype>>
vars    == <<store, pc, seq, context, latest>>

Settled == {"done", "failed", "raised", "interrupted", "cancelled"}
Active  == {"starting", "resuming", "loop", "exec", "called", "route", "fan",
            "ask", "save", "failing", "failing2", "failing3", "finish", "finish2"}

EventTypes == {"ExecutionStarted", "InterruptResumed", "NodeStarted", "LLMCalled",
               "NodeCompleted", "HandoffInitiated", "InterruptRequested",
               "ErrorOccurred", "ExecutionCompleted", "ForkCreated"}

(* by is not stored: it says which driver appended the event.              *)
Event == [by : Drivers \cup {Forker}, type : EventTypes,
          node : Targets \cup {EndName}, seq : Nat]

Checkpoint == [node : Nodes \cup {EndName}, itype : {"before", "after"},
               state : State, seq : Nat, counters : [Nodes -> Nat],
               order : Seq(Nodes)]

NoBranch == [n \in Nodes |-> "none"]

Init ==
  /\ log = << >> /\ checkpoints = << >> /\ runStatus = "none"
  /\ pc = [d \in Drivers |-> IF d = Starter THEN "starting" ELSE "idle"]
  /\ cur = [d \in Drivers |-> Entry]
  /\ st = [d \in Drivers |-> EmptyState]
  /\ turns = [d \in Drivers |-> 0]
  /\ seq = [d \in Drivers |-> -1]
  /\ bypass = [d \in Drivers |-> FALSE]
  /\ order = [d \in Drivers |-> << >>]
  /\ counters = [d \in Drivers |-> [n \in Nodes |-> 0]]
  /\ branch = [d \in Drivers |-> NoBranch]
  /\ dest = [d \in Drivers |-> Entry]
  /\ itype = [d \in Drivers |-> "before"]
  /\ latest = Starter

--------------------------------------------------------------------------------
(* Appending to the store.                                                 *)

(* Postgres declares UNIQUE(run_id, sequence), so an event whose number is *)
(* taken makes append raise; the other stores accept it.                   *)
Slip_Storable(s) == TRUE
Storable(s) == Store = "postgres" => \A i \in DOMAIN log : log[i].seq # s
Refusable(s) == Flaky \/ ~Storable(s)

Goto(d, l) == pc' = [pc EXCEPT ![d] = l]

Append1(d, type, n, s) ==
  log' = Append(log, [by |-> d, type |-> type, node |-> n, seq |-> s])

(* event_bus.emit(Event(sequence=event_bus.next_sequence(run_id))): the    *)
(* number is taken before the append and stays taken if the append raises. *)
Emit(d, type, n, ok, raised) ==
  LET s == seq[d] + 1 IN
  /\ seq' = [seq EXCEPT ![d] = s]
  /\ \/ Storable(s) /\ Append1(d, type, n, s) /\ Goto(d, ok)
     \/ Refusable(s) /\ Goto(d, raised) /\ UNCHANGED log

--------------------------------------------------------------------------------
(* run() and resume().                                                     *)

(* run() and its ExecutionStarted event.  The row of the run is made by    *)
(* run() when it opens the store itself, otherwise by the append of the    *)
(* first event; SQLite's append makes none.                                *)
Recorded == Store # "sqlite" \/ Persist
Start(d) ==
  /\ pc[d] = "starting"
  /\ Emit(d, "ExecutionStarted", Entry, "loop", "raised")
  /\ runStatus' = IF Recorded /\ (Persist \/ pc'[d] = "loop") THEN "running" ELSE runStatus
  /\ UNCHANGED <<checkpoints, context, latest>>

(* get_latest_checkpoint: the SQL stores order by (sequence_at, id).       *)
Older(j, i) ==
  \/ Store # "memory" /\ checkpoints[j].seq < checkpoints[i].seq
  \/ (Store = "memory" \/ checkpoints[j].seq = checkpoints[i].seq) /\ j < i
IsLatest(i) == \A j \in DOMAIN checkpoints \ {i} : Older(j, i)
LatestCheckpoint == checkpoints[CHOOSE i \in DOMAIN checkpoints : IsLatest(i)]

(* resume() itself asks only for a checkpoint.  Callers differ: the CLI    *)
(* and the tests resume a run that returned as interrupted, a supervisor   *)
(* resumes a run nobody drives, the HTTP route resumes whatever is not     *)
(* marked completed.                                                       *)
MayResume(d) ==
  /\ pc[d] = "idle"
  /\ ResumePolicy # "any" => \A e \in Drivers : pc[e] \notin Active
  /\ ResumePolicy = "interrupted" => pc[latest] = "interrupted"

(* What the new context and EventBus take from the checkpoint.  Postgres   *)
(* returns the saved execution context as text, which is not read back.    *)
Slip_ResumeSeq(cp)      == -1
Slip_ResumeOrder(cp)    == << >>
ResumeSeq(cp)      == cp.seq
ResumeOrder(cp)    == IF Store = "postgres" THEN << >> ELSE cp.order
ResumeCounters(cp) == IF Store = "postgres" THEN [n \in Nodes |-> 0] ELSE cp.counters
ResumeBypass(cp)   == cp.itype = "before"

(* Load the checkpoint, apply state_updates and build the new context.     *)
ResumeLoad(d) ==
  /\ MayResume(d)
  /\ \E i \in DOMAIN checkpoints : LET cp == checkpoints[i] IN
     /\ IsLatest(i)
     /\ \E fs \in HumanWrites : st' = [st EXCEPT ![d] = Overwrite(cp.state, fs, Human)]
     /\ cur' = [cur EXCEPT ![d] = cp.node]
     /\ seq' = [seq EXCEPT ![d] = ResumeSeq(cp)]
     /\ bypass' = [bypass EXCEPT ![d] = ResumeBypass(cp)]
     /\ order' = [order EXCEPT ![d] = ResumeOrder(cp)]
     /\ counters' = [counters EXCEPT ![d] = ResumeCounters(cp)]
  /\ Goto(d, "resuming")
  /\ latest' = d
  /\ UNCHANGED <<store, turns, branch, dest, itype>>

ResumeEmit(d) ==
  /\ pc[d] = "resuming"
  /\ Emit(d, "InterruptResumed", cur[d], "loop", "raised")
  /\ UNCHANGED <<checkpoints, runStatus, context, latest>>

--------------------------------------------------------------------------------
(* The head of the while loop.  A turn is spent as soon as it is entered.  *)

Slip_NewTurn(d) ==
  /\ pc[d] = "loop" /\ cur[d] # End /\ turns[d] <= MaxTurns
  /\ turns' = [turns EXCEPT ![d] = @ + 1]
NewTurn(d) ==
  /\ pc[d] = "loop" /\ cur[d] # End /\ turns[d] < MaxTurns
  /\ turns' = [turns EXCEPT ![d] = @ + 1]

(* A name that is no node, such as the "END" of a checkpoint.              *)
UnknownNode(d) ==
  /\ NewTurn(d) /\ cur[d] \notin Nodes
  /\ Goto(d, "failing")
  /\ UNCHANGED <<store, seq, cur, st, bypass, order, counters, branch, dest, itype, latest>>

InterruptBefore(d) ==
  /\ NewTurn(d) /\ cur[d] \in Before /\ ~bypass[d]
  /\ Emit(d, "InterruptRequested", cur[d], "save", "failing")
  /\ dest' = [dest EXCEPT ![d] = cur[d]]
  /\ itype' = [itype EXCEPT ![d] = "before"]
  /\ UNCHANGED <<checkpoints, runStatus, cur, st, bypass, order, counters, branch, latest>>

Slip_BypassSpent(d) == bypass[d]
BypassSpent(d) == FALSE

StartNode(d) ==
  /\ NewTurn(d) /\ cur[d] \in Nodes /\ (cur[d] \notin Before \/ bypass[d])
  /\ bypass' = [bypass EXCEPT ![d] = BypassSpent(d)]
  /\ Emit(d, "NodeStarted", cur[d], "exec", "failing")
  /\ UNCHANGED <<checkpoints, runStatus, cur, st, order, counters, branch, dest, itype, latest>>

TurnLimit(d) ==
  /\ pc[d] = "loop" /\ cur[d] # End /\ turns[d] >= MaxTurns
  /\ Goto(d, "failing")
  /\ UNCHANGED <<store, seq, context, latest>>

ReachEnd(d) ==
  /\ pc[d] = "loop" /\ cur[d] = End
  /\ Goto(d, "finish")
  /\ UNCHANGED <<store, seq, context, latest>>

--------------------------------------------------------------------------------
(* Executing a node.                                                       *)

(* BaseAgent.run reports its LLM call with the default sequence 0; an      *)
(* append that raises fails the node.                                      *)
LLMCall(d) ==
  /\ pc[d] = "exec" /\ cur[d] \in Agents
  /\ \/ Storable(0) /\ Append1(d, "LLMCalled", cur[d], 0) /\ Goto(d, "called")
     \/ Refusable(0) /\ Goto(d, "failing") /\ UNCHANGED log
  /\ UNCHANGED <<checkpoints, runStatus, seq, context, latest>>

(* The node returns: its update goes through the reducers, then            *)
(* NodeCompleted is appended.                                              *)
NodeReturn(d) ==
  /\ pc[d] = IF cur[d] \in Agents THEN "called" ELSE "exec"
  /\ order' = [order EXCEPT ![d] = Append(@, cur[d])]
  /\ st' = [st EXCEPT ![d] = ApplyUpdate(@, Writes[cur[d]], cur[d])]
  /\ Emit(d, "NodeCompleted", cur[d], "route", "failing")
  /\ UNCHANGED <<checkpoints, runStatus, cur, turns, bypass, counters, branch, dest, itype, latest>>

(* The node, its update or its validation raises.                          *)
NodeRaise(d) ==
  /\ pc[d] \in {"exec", "called"}
  /\ Goto(d, "failing")
  /\ UNCHANGED <<store, seq, context, latest>>

--------------------------------------------------------------------------------
(* _resolve_next: where to go from cur[d], with which state.               *)

Edge(d) == Edges[cur[d]]

(* What the loop does with the answer (t, s).  A node with interrupt_after *)
(* keeps t for its checkpoint and drops s.                                 *)
Routed(d) == IF cur[d] \in After THEN "ask" ELSE "loop"
Slip_ResumePoint(d, t) == cur[d]
ResumePoint(d, t) == t
Deliver(d, t, s) ==
  IF cur[d] \in After
  THEN /\ dest' = [dest EXCEPT ![d] = ResumePoint(d, t)]
       /\ itype' = [itype EXCEPT ![d] = "after"]
       /\ UNCHANGED <<cur, st>>
  ELSE /\ cur' = [cur EXCEPT ![d] = t]
       /\ st' = [st EXCEPT ![d] = s]
       /\ UNCHANGED <<dest, itype>>

FollowEdge(d) ==
  /\ pc[d] = "route" /\ Edge(d).kind \in {"none", "edge", "conditional"}
  /\ \E t \in (IF Edge(d).kind = "none" THEN {End} ELSE Edge(d).exits) :
       Deliver(d, t, st[d])
  /\ Goto(d, Routed(d))
  /\ UNCHANGED <<store, seq, turns, bypass, order, counters, branch, latest>>

(* The condition built by loop(): go round again, or leave and forget the  *)
(* count.                                                                  *)
LoopEdge(d) ==
  /\ pc[d] = "route" /\ Edge(d).kind = "loop"
  /\ LET n == cur[d]
         count == counters[d][n] + 1 IN
     \/ /\ count < Edge(d).limit
        /\ counters' = [counters EXCEPT ![d][n] = count]
        /\ Deliver(d, n, st[d])
     \/ /\ counters' = [counters EXCEPT ![d][n] = 0]
        /\ Deliver(d, End, st[d])
  /\ Goto(d, Routed(d))
  /\ UNCHANGED <<store, seq, turns, bypass, order, branch, latest>>

(* A routing function raises, or answers a key that path_map lacks, or     *)
(* sends to a name that is no node.                                        *)
RouteRaise(d) ==
  /\ pc[d] = "route" /\ Edge(d).kind \in {"conditional", "loop", "handoff", "send"}
  /\ Goto(d, "failing")
  /\ UNCHANGED <<store, seq, context, latest>>

(* A node whose only way out is a handoff edge whose condition is false.   *)
NoHandoff(d) ==
  /\ pc[d] = "route" /\ Edge(d).kind = "handoff"
  /\ Deliver(d, End, st[d])
  /\ Goto(d, Routed(d))
  /\ UNCHANGED <<store, seq, turns, bypass, order, counters, branch, latest>>

Handoff(d) ==
  /\ pc[d] = "route" /\ Edge(d).kind = "handoff"
  /\ Emit(d, "HandoffInitiated", cur[d], Routed(d), "failing")
  /\ IF pc'[d] = "failing" THEN UNCHANGED <<cur, st, dest, itype>>
     ELSE \E t \in Edge(d).exits : Deliver(d, t, HandoffUpdate(st[d], cur[d]))
  /\ UNCHANGED <<checkpoints, runStatus, turns, bypass, order, counters, branch, latest>>

Branches(d) == {Edge(d).to[i] : i \in DOMAIN Edge(d).to}

(* asyncio.gather starts one coroutine per target.                         *)
FanOut(d) ==
  /\ pc[d] = "route" /\ Edge(d).kind \in {"parallel", "send"}
  /\ branch' = [branch EXCEPT ![d] =
                  [n \in Nodes |-> IF n \in Branches(d) THEN "run" ELSE "none"]]
  /\ Goto(d, "fan")
  /\ UNCHANGED <<store, seq, cur, st, turns, bypass, order, counters, dest, itype, latest>>

BranchCall(d, n) ==
  /\ pc[d] = "fan" /\ branch[d][n] = "run" /\ n \in Agents
  /\ \/ Storable(0) /\ Append1(d, "LLMCalled", n, 0)
        /\ branch' = [branch EXCEPT ![d][n] = "called"]
     \/ Refusable(0) /\ branch' = [branch EXCEPT ![d][n] = "err"] /\ UNCHANGED log
  /\ UNCHANGED <<checkpoints, runStatus, pc, seq, cur, st, turns, bypass, order,
                 counters, dest, itype, latest>>

BranchEnd(d, n) ==
  /\ pc[d] = "fan"
  /\ \/ /\ branch[d][n] = IF n \in Agents THEN "called" ELSE "run"
        /\ branch' = [branch EXCEPT ![d][n] = "ok"]
     \/ /\ branch[d][n] \in {"run", "called"}
        /\ branch' = [branch EXCEPT ![d][n] = "err"]
  /\ UNCHANGED <<store, pc, seq, cur, st, turns, bypass, order, counters, dest, itype,
                 latest>>

Slip_Gathered(d) == \A n \in Branches(d) : branch[d][n] = "ok"
Gathered(d) == \A n \in Branches(d) : branch[d][n] \in {"ok", "err"}

(* gather(return_exceptions=True) waits for every branch, then one error   *)
(* fails the run and otherwise the updates are merged in target order.     *)
Join(d) ==
  /\ pc[d] = "fan" /\ Gathered(d)
  /\ branch' = [branch EXCEPT ![d] = NoBranch]
  /\ IF \E n \in Branches(d) : branch[d][n] = "err"
     THEN Goto(d, "failing") /\ UNCHANGED <<cur, st, dest, itype>>
     ELSE /\ Deliver(d, IF Edge(d).kind = "send" THEN End ELSE Edge(d).join,
                     MergeParallel(st[d], Edge(d).to))
          /\ Goto(d, Routed(d))
  /\ UNCHANGED <<store, seq, turns, bypass, order, counters, latest>>

--------------------------------------------------------------------------------
(* Interrupting, failing, finishing.                                       *)

(* interrupt_after: the request is only emitted once the next node is      *)
(* known, which has run the branches of a fan-out.                         *)
InterruptAfter(d) ==
  /\ pc[d] = "ask"
  /\ Emit(d, "InterruptRequested", cur[d], "save", "failing")
  /\ UNCHANGED <<checkpoints, runStatus, context, latest>>

(* The checkpoint takes a sequence number of its own; run() then returns   *)
(* with status INTERRUPTED and leaves workflow_runs.status alone.          *)
SaveCheckpoint(d) ==
  /\ pc[d] = "save"
  /\ seq' = [seq EXCEPT ![d] = @ + 1]
  /\ checkpoints' = Append(checkpoints,
       [node |-> Name(dest[d]), itype |-> itype[d], state |-> st[d],
        seq |-> seq[d] + 1, counters |-> counters[d], order |-> order[d]])
  /\ Goto(d, "interrupted")
  /\ UNCHANGED <<log, runStatus, context, latest>>

(* save_checkpoint raises inside the loop's try.                           *)
SaveFails(d) ==
  /\ pc[d] = "save" /\ Flaky
  /\ seq' = [seq EXCEPT ![d] = @ + 1]
  /\ Goto(d, "failing")
  /\ UNCHANGED <<store, context, latest>>

(* InMemoryEventStore derives the run's status from the event type alone   *)
(* and has no update_run_status (the AttributeError is swallowed, as is    *)
(* the failure of any other update).  No row, nothing to update.           *)
StatusOnCompleted(s) ==
  runStatus' = IF Store = "memory" /\ Storable(s) THEN "completed" ELSE runStatus
UpdateRunStatus(status) ==
  \/ runStatus' = IF Store = "memory" \/ runStatus = "none" THEN runStatus ELSE status
  \/ Flaky /\ runStatus' = runStatus

Fail(d) ==
  /\ pc[d] = "failing"
  /\ Emit(d, "ErrorOccurred", cur[d], "failing2", "raised")
  /\ UNCHANGED <<checkpoints, runStatus, context, latest>>

FailCompleted(d) ==
  /\ pc[d] = "failing2"
  /\ Emit(d, "ExecutionCompleted", cur[d], "failing3", "raised")
  /\ StatusOnCompleted(seq[d] + 1)
  /\ UNCHANGED <<checkpoints, context, latest>>

(* The except clause ends in raise.                                        *)
AfterFailure(d) == "failed"

FailStatus(d) ==
  /\ pc[d] = "failing3"
  /\ UpdateRunStatus("failed")
  /\ Goto(d, AfterFailure(d))
  /\ UNCHANGED <<log, checkpoints, seq, context, latest>>

Finish(d) ==
  /\ pc[d] = "finish"
  /\ Emit(d, "ExecutionCompleted", cur[d], "finish2", "raised")
  /\ StatusOnCompleted(seq[d] + 1)
  /\ UNCHANGED <<checkpoints, context, latest>>

FinishStatus(d) ==
  /\ pc[d] = "finish2"
  /\ UpdateRunStatus("completed")
  /\ Goto(d, "done")
  /\ UNCHANGED <<log, checkpoints, seq, context, latest>>

(* CancelledError is no Exception: it leaves every handler above unrun.    *)
(* What the store keeps is the same when the process dies here.            *)
Cancel(d) ==
  /\ d \in Cancellable /\ pc[d] \in Active
  /\ Goto(d, "cancelled")
  /\ UNCHANGED <<store, seq, context, latest>>

(* fork(): the child run has an id and a log of its own; what it leaves in *)
(* the parent's log is one event with sequence 0.                          *)
Fork ==
  /\ log # << >> /\ Storable(0)
  /\ Cardinality({i \in DOMAIN log : log[i].by = Forker}) < MaxForks
  /\ Append1(Forker, "ForkCreated", Entry, 0)
  /\ UNCHANGED <<checkpoints, runStatus, pc, seq, context, latest>>

--------------------------------------------------------------------------------

Loop(d) == \/ UnknownNode(d) \/ InterruptBefore(d) \/ StartNode(d)
           \/ TurnLimit(d) \/ ReachEnd(d)

Execute(d) == LLMCall(d) \/ NodeReturn(d) \/ NodeRaise(d)

ResolveNext(d) ==
  \/ FollowEdge(d) \/ LoopEdge(d) \/ RouteRaise(d) \/ NoHandoff(d) \/ Handoff(d)
  \/ FanOut(d) \/ Join(d) \/ \E n \in Nodes : BranchCall(d, n) \/ BranchEnd(d, n)

Settle(d) == \/ InterruptAfter(d) \/ SaveCheckpoint(d) \/ SaveFails(d) \/ Fail(d)
             \/ FailCompleted(d) \/ FailStatus(d) \/ Finish(d) \/ FinishStatus(d)

(* What the event loop does for a task that exists.                        *)
Step(d) == Start(d) \/ ResumeEmit(d) \/ Loop(d) \/ Execute(d) \/ ResolveNext(d) \/ Settle(d)

Next == \/ \E d \in Drivers : Step(d) \/ ResumeLoad(d) \/ Cancel(d)
        \/ Fork

Spec == Init /\ [][Next]_vars

(* asyncio runs every ready task, and nodes are taken to return or raise.  *)
FairSpec == Spec /\ \A d \in Drivers : WF_vars(Step(d))

--------------------------------------------------------------------------------
(* Properties.                                                             *)

TypeOK ==
  /\ log \in Seq(Event)
  /\ checkpoints \in Seq(Checkpoint)
  /\ runStatus \in {"none", "running", "completed", "failed"}
  /\ pc \in [Drivers -> Active \cup Settled \cup {"idle"}]
  /\ cur \in [Drivers -> Targets \cup {EndName}]
  /\ st \in [Drivers -> State]
  /\ turns \in [Drivers -> 0 .. MaxTurns]
  /\ seq \in [Drivers -> Nat \cup {-1}]
  /\ bypass \in [Drivers -> BOOLEAN]
  /\ order \in [Drivers -> Seq(Nodes)]
  /\ counters \in [Drivers -> [Nodes -> Nat]]
  /\ branch \in [Drivers -> [Nodes -> {"none", "run", "called", "ok", "err"}]]
  /\ dest \in [Drivers -> Targets]
  /\ itype \in [Drivers -> {"before", "after"}]
  /\ latest \in Drivers

(* EventBus numbers "monotonic" events for a run: across every interrupt   *)
(* and resume, each appended event has a number above all earlier ones, so *)
(* ordering and paging by sequence (get_events after_sequence) is the      *)
(* order in which things happened.                                         *)
SequencesIncrease ==
  \A i, j \in DOMAIN log : i < j => log[i].seq < log[j].seq

(* Human in the loop: a node with interrupt_before is started only by the  *)
(* driver whose immediately preceding act was to resume the run at it, from*)
(* the checkpoint of a request to interrupt before this very node.  The    *)
(* bypass opens one gate once, and an interrupt after the predecessor is   *)
(* no approval.  (The checkpoint has the number between the two events.)   *)
Requested(l, n, s) ==
  \E h \in DOMAIN l : l[h].type = "InterruptRequested" /\ l[h].node = n /\ l[h].seq = s
Approved(l, n, by, i) ==
  \E j \in 1 .. i - 1 :
    /\ l[j].by = by /\ l[j].type = "InterruptResumed" /\ l[j].node = n
    /\ \A k \in j + 1 .. i - 1 : l[k].by # by
    /\ Requested(l, n, l[j].seq - 2)
GateIn(l) ==
  \A i \in DOMAIN l :
    l[i].type = "NodeStarted" /\ l[i].node \in Before => Approved(l, l[i].node, l[i].by, i)
GateHeld == GateIn(log)

(* The same for the branches of a fan-out, which run nodes too.            *)
GateHeldInBranches ==
  \A d \in Drivers : \A n \in Before : branch[d][n] = "none"

(* A checkpoint and the event log agree: the execution order saved with it *)
(* is that of the NodeCompleted events the run had logged by then (not on  *)
(* Postgres, where a resumed driver begins with an empty order).           *)
CompletedBefore(s) ==
  {i \in DOMAIN log : log[i].type = "NodeCompleted" /\ log[i].seq < s}
(* The nodes of the events of l at the positions S, in order, are o.       *)
Lists(o, l, S) ==
  /\ Len(o) = Cardinality(S)
  /\ \A i \in S : o[Cardinality({j \in S : j <= i})] = l[i].node
CheckpointMatchesLog ==
  \A i \in DOMAIN checkpoints :
    Lists(checkpoints[i].order, log, CompletedBefore(checkpoints[i].seq))

(* A run is over once: whoever drives it, ExecutionCompleted is recorded   *)
(* at most once and nothing is recorded after it.                          *)
EndsOnce ==
  \A i \in DOMAIN log : log[i].type = "ExecutionCompleted" => i = Len(log)

(* When the driver that ran last has settled, the stored run status says   *)
(* how it settled, or still "running" if the last update failed, which the *)
(* code only logs.                                                         *)
Unsaid == IF Flaky THEN {"running"} ELSE {}
StatusAgrees ==
  /\ pc[latest] = "done" => runStatus \in {"completed"} \cup Unsaid
  /\ pc[latest] = "failed" => runStatus \in {"failed"} \cup Unsaid
  /\ pc[latest] = "interrupted" => runStatus = "running"

(* The checkpoint a resume would load is the one saved last, although the  *)
(* SQL stores look for the highest sequence number: crashed and repeated   *)
(* resumes never let an older checkpoint shadow a newer one.               *)
NewestCheckpointWins ==
  checkpoints # << >> => LatestCheckpoint = checkpoints[Len(checkpoints)]

(* UNIQUE(run_id, sequence) is what keeps two resumes of one checkpoint    *)
(* from both executing the run: whoever loses fails on its first event.    *)
SingleDriver ==
  \A d, e \in Drivers : pc[d] \in Active /\ pc[e] \in Active /\ d # e =>
    "resuming" \in {pc[d], pc[e]}

(* A resumed run gets past its first event, whatever became of earlier     *)
(* attempts to resume it.                                                  *)
ResumeIsStorable == \A d \in Drivers : pc[d] = "resuming" => Storable(seq[d] + 1)

(* The node a driver is at exists in the graph, unless the run is over.    *)
NodeExists == \A d \in Drivers : cur[d] \in Targets

(* project_state over the log up to the newest event, when that event is a *)
(* NodeCompleted, is the state the driver really holds: for dict.update    *)
(* replay (a field holds what its last writer wrote) that is what the      *)
(* time-travel views of the run show.                                      *)
WritersOf(f, l) == {i \in DOMAIN l : l[i].type = "NodeCompleted" /\ f \in Writes[l[i].node]}
Projected(f) ==
  LET ws == WritersOf(f, log)
  IN  IF ws = {} THEN << >> ELSE <<log[CHOOSE i \in ws : \A j \in ws : j <= i].node>>
ProjectionIsState ==
  pc[latest] = "route" => st[latest] = [f \in Fields |-> Projected(f)]

(* A started driver ends by itself: by finishing, failing or interrupting. *)
DriverSettles == \A d \in Drivers : (pc[d] \in Active) ~> (pc[d] \in Settled)

(* loop(max_iterations=k) bounds the iterations of the run, not of one     *)
(* driver: the counters travel with the checkpoint (not on Postgres).      *)
LoopBounded ==
  \A n \in Nodes : Edges[n].kind = "loop" =>
    Cardinality({i \in DOMAIN log : log[i].type = "NodeStarted" /\ log[i].node = n})
      <= Edges[n].limit

(* Together: the log of a run, across all its drivers, is in order, agrees *)
(* with its checkpoints and the stored status, has one end and no more     *)
(* iterations than allowed.                                                *)
LogIsSound == SequencesIncrease /\ CheckpointMatchesLog /\ EndsOnce /\ StatusAgrees /\ LoopBounded

--------------------------------------------------------------------------------
(* The refinement: the run is where its latest driver is or, once that has *)
(* been interrupted, where the checkpoint says.  A run that failed is only *)
(* known to have failed: run() raises and returns no state.                *)
Stopped == {"failing", "failing2", "failing3", "failed", "raised", "cancelled"}
AbsNode(t) == IF t = EndName THEN End ELSE t
AbsAt ==
  CASE pc[latest] \in Stopped        -> End
    [] pc[latest] = "interrupted"    -> AbsNode(LatestCheckpoint.node)
    [] pc[latest] \in {"ask", "save"} -> dest[latest]
    [] OTHER                         -> AbsNode(cur[latest])
AbsState ==
  CASE pc[latest] \in Stopped     -> EmptyState
    [] pc[latest] = "interrupted" -> LatestCheckpoint.state
    [] OTHER                      -> st[latest]
AbsPhase ==
  CASE pc[latest] \in {"route", "fan"} -> "ran"
    [] pc[latest] = "done"             -> "done"
    [] pc[latest] \in Stopped          -> "failed"
    [] OTHER                           -> "at"

Abstract == INSTANCE GraphExecution WITH at <- AbsAt, state <- AbsState, phase <- AbsPhase

(* However often a run is interrupted and resumed, it executes the same    *)
(* nodes on the same states as an uninterrupted run could: interrupts lose *)
(* no update, repeat no node and skip none.                                *)
InterruptsAreTransparent == Abstract!ASpec
================================================================================
