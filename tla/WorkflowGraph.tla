----------------------------- MODULE WorkflowGraph -----------------------------
(***************************************************************************)
(* The static part of a workflow: what WorkflowGraph.compile() hands to    *)
(* CompiledGraph, and the pure operators of core/state.py on the workflow  *)
(* state.  Data is abstract: the value of a state field is the sequence of *)
(* the writers whose contributions it holds.  A node (or a human) that     *)
(* updates field f contributes one token, its own name; a field with the   *)
(* merge_list reducer keeps every token, a field without a reducer keeps   *)
(* the last one.  That is all the properties tell apart.                   *)
(***************************************************************************)
EXTENDS Integers, Sequences, FiniteSets

CONSTANTS
  Nodes,      \* node ids
  End,        \* the END sentinel object
  EndName,    \* the string "END", which is str(END) and names no node
  Human,      \* the writer of the state_updates passed to resume()
  Entry,      \* the entry point
  Edges,      \* Edges[n]: the edge leaving n (the first one wins in the code)
  Fields,     \* fields of the state schema
  Reduced,    \* the fields annotated with merge_list
  Writes,     \* Writes[n]: the fields node n returns in its update
  Payload,    \* the field a handoff writes its payload to
  Messages,   \* the field a handoff copies the conversation to
  Before,     \* nodes with interrupt_before
  After,      \* nodes with interrupt_after
  Agents,     \* nodes that run an agent, which reports its LLM call
  MaxTurns    \* compile(max_turns=...)

Targets == Nodes \cup {End}
Writers == Nodes \cup {Human}

EdgeKinds == {"none", "edge", "conditional", "loop", "parallel", "send", "handoff"}

(* An edge: "conditional" and "loop" choose among the targets, "parallel"  *)
(* and "send" run all of them; join is where a parallel edge goes on, and  *)
(* limit is loop()'s max_iterations.                                       *)
EdgeType == [kind : EdgeKinds, to : Seq(Nodes), exits : SUBSET Targets,
             join : Targets, limit : Nat]

ASSUME GraphAssumption ==
  /\ End \notin Nodes
  /\ EndName \notin Targets
  /\ Human \notin Nodes
  /\ Entry \in Nodes
  /\ Edges \in [Nodes -> EdgeType]
  /\ Reduced \subseteq Fields
  /\ Writes \in [Nodes -> SUBSET Fields]
  /\ Before \subseteq Nodes
  /\ After \subseteq Nodes
  /\ Agents \subseteq Nodes
  /\ MaxTurns \in Nat

State == [Fields -> Seq(Writers)]
EmptyState == [f \in Fields |-> << >>]

--------------------------------------------------------------------------------

(* apply_state_update for an update that gives each field of fs the        *)
(* contribution of writer w.                                               *)
ApplyUpdate(s, fs, w) ==
  [f \in Fields |-> IF f \notin fs THEN s[f]
                    ELSE IF f \in Reduced THEN Append(s[f], w)
                    ELSE <<w>>]

(* dict.update, which knows no reducers: the state_updates of resume().    *)
Slip_Overwrite(s, fs, w) == [f \in Fields |-> IF f \in fs THEN <<w>> ELSE << >>]
Overwrite(s, fs, w) == [f \in Fields |-> IF f \in fs THEN <<w>> ELSE s[f]]

(* merge_parallel_updates over the branches ts, in target order: a reduced *)
(* field accumulates every branch that wrote it, another keeps the last.   *)
(* MCCompiledGraph compares this closed form with the one-by-one loop.     *)
Wrote(ts, f) == SelectSeq(ts, LAMBDA n : f \in Writes[n])
MergeParallel(s, ts) ==
  [f \in Fields |->
     LET ws == Wrote(ts, f)
     IN  IF ws = << >> THEN s[f]
         ELSE IF f \in Reduced THEN s[f] \o ws
         ELSE <<ws[Len(ws)]>>]

(* What a selection from a sequence of nodes is; TLC confirms it for every *)
(* graph, TLAPS (which cannot unfold SelectSeq) assumes it.                *)
ASSUME SelectionAssumption ==
  \A n \in Nodes, f \in Fields : Wrote(Edges[n].to, f) \in Seq(Nodes)

(* The update a handoff from n applies: the payload, and the conversation  *)
(* copied onto itself (full_passthrough), which a merge_list field appends *)
(* to what it already holds.                                               *)
HandoffUpdate(s, n) ==
  [f \in Fields |-> IF f = Payload THEN ApplyUpdate(s, {f}, n)[f]
                    ELSE IF f = Messages /\ f \in Reduced THEN s[f] \o s[f]
                    ELSE s[f]]

(* str(node_id), as a checkpoint stores it.                                *)
Name(t) == IF t = End THEN EndName ELSE t
================================================================================
