---------------------------- MODULE GraphExecution -----------------------------
(***************************************************************************)
(* What a workflow run promises, whatever interrupts it: nodes are run one *)
(* after the other from the entry point, each on the state its predecessor *)
(* (or every branch of the fan-out before it) left, until the end or the   *)
(* first error.  There are no turns, events, checkpoints or drivers here.  *)
(* CompiledGraph implements it: InterruptsAreTransparent.                  *)
(***************************************************************************)
EXTENDS WorkflowGraph

CONSTANT HumanWrites

VARIABLES
  at,      \* the node to run next, or End
  state,   \* the workflow state
  phase    \* "at" a node, "ran" it and about to route, "done" or "failed"

avars == <<at, state, phase>>

AInit == at = Entry /\ state = EmptyState /\ phase = "at"

RunNode ==
  /\ phase = "at" /\ at \in Nodes
  /\ state' = ApplyUpdate(state, Writes[at], at)
  /\ phase' = "ran" /\ UNCHANGED at

(* Every branch of a fan-out contributes, exactly once and in target order.*)
Route ==
  /\ phase = "ran" /\ phase' = "at"
  /\ LET e == Edges[at] IN
     \/ e.kind = "none" /\ at' = End /\ UNCHANGED state
     \/ e.kind \in {"edge", "conditional"} /\ at' \in e.exits /\ UNCHANGED state
     \/ e.kind = "loop" /\ at' \in {at, End} /\ UNCHANGED state
     \/ e.kind = "parallel" /\ at' = e.join /\ state' = MergeParallel(state, e.to)
     \/ e.kind = "send" /\ at' = End /\ state' = MergeParallel(state, e.to)
     \/ /\ e.kind = "handoff"
        /\ \/ at' = End /\ UNCHANGED state
           \/ at' \in e.exits /\ state' = HandoffUpdate(state, at)

(* A human may edit the state of a run that waits at a node.               *)
Edit ==
  /\ phase = "at" /\ \E fs \in HumanWrites : state' = Overwrite(state, fs, Human)
  /\ UNCHANGED <<at, phase>>

Finish == phase = "at" /\ at = End /\ phase' = "done" /\ UNCHANGED <<at, state>>

(* An error ends the run, and nothing is promised about where it got to.   *)
Fail ==
  /\ phase \in {"at", "ran"} /\ phase' = "failed"
  /\ at' = End /\ state' = EmptyState

ANext == RunNode \/ Route \/ Edit \/ Finish \/ Fail
ASpec == AInit /\ [][ANext]_avars
================================================================================
