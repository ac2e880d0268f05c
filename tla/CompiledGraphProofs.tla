-------------------------- MODULE CompiledGraphProofs --------------------------
(***************************************************************************)
(* Theorems about CompiledGraph for every graph, store, number of drivers  *)
(* and resume policy: its type invariant, and that a human gate holds; and *)
(* about a whole run, across all the drivers that resume it: its newest    *)
(* checkpoint is the one resumed, Postgres lets one driver execute it,     *)
(* whatever interrupts it, it executes like an uninterrupted run, and the  *)
(* event log it leaves behind is one log.                                  *)
(***************************************************************************)
EXTENDS CompiledGraph, FiniteSetTheorems, TLAPS

--------------------------------------------------------------------------------
(* The pure operators stay within State.                                   *)

LEMMA StateUpdates ==
  ASSUME NEW s \in State, NEW n \in Nodes
  PROVE  /\ ApplyUpdate(s, Writes[n], n) \in State
         /\ HandoffUpdate(s, n) \in State
         /\ MergeParallel(s, Edges[n].to) \in State
<1>0. ASSUME NEW fs \in SUBSET Fields PROVE ApplyUpdate(s, fs, n) \in State
  <2> SUFFICES ASSUME NEW f \in Fields
               PROVE  ApplyUpdate(s, fs, n)[f] \in Seq(Writers)
    BY DEF ApplyUpdate, State
  <2>1. n \in Writers /\ s[f] \in Seq(Writers)
    BY DEF State, Writers
  <2>2. Append(s[f], n) \in Seq(Writers) /\ <<n>> \in Seq(Writers)
    BY <2>1
  <2> QED BY <2>1, <2>2 DEF ApplyUpdate
<1>1. ApplyUpdate(s, Writes[n], n) \in State
  BY <1>0, GraphAssumption
<1>2. HandoffUpdate(s, n) \in State
  <2>1. \A f \in Fields : ApplyUpdate(s, {f}, n)[f] \in Seq(Writers)
    BY <1>0 DEF State
  <2>2. \A f \in Fields : s[f] \in Seq(Writers) /\ s[f] \o s[f] \in Seq(Writers)
    BY DEF State
  <2> QED BY <2>1, <2>2 DEF HandoffUpdate, State
<1>3. MergeParallel(s, Edges[n].to) \in State
  <2> SUFFICES ASSUME NEW f \in Fields
               PROVE  MergeParallel(s, Edges[n].to)[f] \in Seq(Writers)
    BY DEF MergeParallel, State
  <2> DEFINE ws == Wrote(Edges[n].to, f)
  <2>1. ws \in Seq(Nodes)
    BY SelectionAssumption
  <2>2. ws \in Seq(Writers)
    BY <2>1 DEF Writers
  <2>3. s[f] \in Seq(Writers)
    BY DEF State
  <2>4. ws # << >> => <<ws[Len(ws)]>> \in Seq(Writers)
    <3> HIDE DEF ws
    <3> HAVE ws # << >>
    <3>1. Len(ws) \in 1 .. Len(ws)
      BY <2>2
    <3>2. ws[Len(ws)] \in Writers
      BY <2>2, <3>1
    <3> QED BY <3>2
  <2>5. s[f] \o ws \in Seq(Writers)
    BY <2>2, <2>3
  <2>6. MergeParallel(s, Edges[n].to)[f] =
          IF ws = << >> THEN s[f]
          ELSE IF f \in Reduced THEN s[f] \o ws ELSE <<ws[Len(ws)]>>
    BY DEF MergeParallel
  <2> QED
    <3> HIDE DEF ws
    <3> QED BY <2>3, <2>4, <2>5, <2>6
<1> QED BY <1>1, <1>2, <1>3

LEMMA HumanEdit ==
  ASSUME NEW s \in State, NEW fs \in HumanWrites
  PROVE  Overwrite(s, fs, Human) \in State
<1>1. <<Human>> \in Seq(Writers)
  BY DEF Writers
<1> QED BY <1>1 DEF Overwrite, State

(* What an edge record holds.                                              *)
LEMMA EdgeParts ==
  ASSUME NEW n \in Nodes
  PROVE  /\ Edges[n].kind \in EdgeKinds
         /\ Edges[n].to \in Seq(Nodes)
         /\ Edges[n].exits \subseteq Targets
         /\ Edges[n].join \in Targets
         /\ Edges[n].limit \in Nat
BY GraphAssumption DEF EdgeType

--------------------------------------------------------------------------------
(* Type correctness.                                                       *)

(* A driver that runs or routes a node is at a node: only the head of the  *)
(* loop may meet a name that is none.                                      *)
AtNode ==
  \A d \in Drivers :
    pc[d] \in {"exec", "called", "route", "fan", "ask"} => cur[d] \in Nodes

PCs == Active \cup Settled \cup {"idle"}

LEMMA GotoType ==
  ASSUME TypeOK, NEW d \in Drivers, NEW l \in PCs, Goto(d, l)
  PROVE  pc' \in [Drivers -> PCs]
BY DEF TypeOK, Goto, PCs

LEMMA AppendType ==
  ASSUME TypeOK, NEW d \in Drivers \cup {Forker}, NEW type \in EventTypes,
         NEW n \in Targets \cup {EndName}, NEW s \in Nat, Append1(d, type, n, s)
  PROVE  log' \in Seq(Event)
<1>1. [by |-> d, type |-> type, node |-> n, seq |-> s] \in Event
  BY DEF Event
<1> QED BY <1>1 DEF TypeOK, Append1

LEMMA EmitType ==
  ASSUME TypeOK, NEW d \in Drivers, NEW type \in EventTypes,
         NEW n \in Targets \cup {EndName}, NEW ok \in PCs, NEW raised \in PCs,
         Emit(d, type, n, ok, raised)
  PROVE  /\ log' \in Seq(Event)
         /\ seq' \in [Drivers -> Nat \cup {-1}]
         /\ pc' \in [Drivers -> PCs]
<1>1. seq[d] + 1 \in Nat
  <2>1. seq[d] \in Nat \cup {-1}
    BY DEF TypeOK
  <2> QED BY <2>1
<1>2. seq' \in [Drivers -> Nat \cup {-1}]
  <2>1. seq' = [seq EXCEPT ![d] = seq[d] + 1]
    BY DEF Emit
  <2> QED BY <1>1, <2>1 DEF TypeOK
<1>3. log' \in Seq(Event)
  <2>1. CASE UNCHANGED log
    BY <2>1 DEF TypeOK
  <2>2. CASE Append1(d, type, n, seq[d] + 1)
    BY <1>1, <2>2, AppendType
  <2> QED BY <2>1, <2>2 DEF Emit
<1>4. pc' \in [Drivers -> PCs]
  BY GotoType DEF Emit
<1> QED BY <1>2, <1>3, <1>4

(* What Deliver does to the types it touches.                              *)
LEMMA DeliverType ==
  ASSUME TypeOK, NEW d \in Drivers, cur[d] \in Nodes,
         NEW t \in Targets, NEW s \in State, Deliver(d, t, s)
  PROVE  /\ cur' \in [Drivers -> Targets \cup {EndName}]
         /\ st' \in [Drivers -> State]
         /\ dest' \in [Drivers -> Targets]
         /\ itype' \in [Drivers -> {"before", "after"}]
BY DEF TypeOK, Deliver, ResumePoint

LEMMA DeliverMoves ==
  ASSUME TypeOK, AtNode, NEW d \in Drivers, cur[d] \in Nodes, NEW t, NEW s, Deliver(d, t, s),
         \A e \in Drivers : e # d => pc'[e] = pc[e],
         pc'[d] \in {Routed(d), "failing"}
  PROVE  AtNode'
<1>1. \A e \in Drivers : e # d => cur'[e] = cur[e]
  BY DEF Deliver, TypeOK
<1>2. CASE cur[d] \in After
  BY <1>1, <1>2 DEF AtNode, Deliver
<1>3. CASE cur[d] \notin After
  BY <1>1, <1>3 DEF AtNode, Routed
<1> QED BY <1>2, <1>3

THEOREM TypeInit == Init => TypeOK /\ AtNode
<1> SUFFICES ASSUME Init PROVE TypeOK /\ AtNode
  OBVIOUS
<1>1. EmptyState \in State
  BY DEF EmptyState, State
<1> QED BY <1>1, GraphAssumption, DriverAssumption
        DEF Init, TypeOK, AtNode, Targets, NoBranch, Active, Settled

(* An Emit moves only the driver that emits.                               *)
LEMMA EmitMoves ==
  ASSUME TypeOK, NEW d \in Drivers, NEW type, NEW n, NEW ok, NEW raised,
         Emit(d, type, n, ok, raised)
  PROVE  /\ pc' = [pc EXCEPT ![d] = ok] \/ pc' = [pc EXCEPT ![d] = raised]
         /\ \A e \in Drivers : e # d => pc'[e] = pc[e]
         /\ pc'[d] \in {ok, raised}
BY DEF Emit, Goto, TypeOK

LEMMA GotoMoves ==
  ASSUME TypeOK, NEW d \in Drivers, NEW l, Goto(d, l)
  PROVE  /\ \A e \in Drivers : e # d => pc'[e] = pc[e]
         /\ pc'[d] = l
BY DEF Goto, TypeOK

(* One lemma per group of actions: resuming, the head of the loop, a node, *)
(* routing, and settling.                                                  *)
LEMMA TypeResume ==
  ASSUME TypeOK, AtNode, NEW d \in Drivers, Start(d) \/ ResumeLoad(d) \/ ResumeEmit(d)
  PROVE  TypeOK' /\ AtNode'
<1> USE DEF PCs, Active, Settled
<1>1. CASE Start(d)
  <2>1. Entry \in Targets \cup {EndName}
    BY GraphAssumption DEF Targets
  <2>2. Emit(d, "ExecutionStarted", Entry, "loop", "raised")
    BY <1>1 DEF Start
  <2>3. /\ log' \in Seq(Event)
        /\ seq' \in [Drivers -> Nat \cup {-1}]
        /\ pc' \in [Drivers -> PCs]
    BY <2>1, <2>2, EmitType DEF EventTypes
  <2>4. AtNode'
    BY <1>1, <2>2, EmitMoves DEF AtNode, Start, context
  <2> QED BY <1>1, <2>3, <2>4 DEF TypeOK, Start, context
<1>2. CASE ResumeEmit(d)
  <2>1. cur[d] \in Targets \cup {EndName}
    BY DEF TypeOK
  <2>2. Emit(d, "InterruptResumed", cur[d], "loop", "raised")
    BY <1>2 DEF ResumeEmit
  <2>3. /\ log' \in Seq(Event)
        /\ seq' \in [Drivers -> Nat \cup {-1}]
        /\ pc' \in [Drivers -> PCs]
    BY <2>1, <2>2, EmitType DEF EventTypes
  <2>4. AtNode'
    BY <1>2, <2>2, EmitMoves DEF AtNode, ResumeEmit, context
  <2> QED BY <1>2, <2>3, <2>4 DEF TypeOK, ResumeEmit, context
<1>3. CASE ResumeLoad(d)
  <2>1. PICK i \in DOMAIN checkpoints, fs \in HumanWrites :
          /\ st' = [st EXCEPT ![d] = Overwrite(checkpoints[i].state, fs, Human)]
          /\ cur' = [cur EXCEPT ![d] = checkpoints[i].node]
          /\ seq' = [seq EXCEPT ![d] = checkpoints[i].seq]
          /\ bypass' = [bypass EXCEPT ![d] = checkpoints[i].itype = "before"]
          /\ order' = [order EXCEPT ![d] = ResumeOrder(checkpoints[i])]
          /\ counters' = [counters EXCEPT ![d] = ResumeCounters(checkpoints[i])]
    BY <1>3 DEF ResumeLoad, ResumeSeq, ResumeBypass
  <2>2. checkpoints[i] \in Checkpoint
    BY DEF TypeOK
  <2>r. /\ ResumeOrder(checkpoints[i]) \in Seq(Nodes)
        /\ ResumeCounters(checkpoints[i]) \in [Nodes -> Nat]
    BY <2>2 DEF ResumeOrder, ResumeCounters, Checkpoint
  <2>3. Overwrite(checkpoints[i].state, fs, Human) \in State
    BY <2>2, HumanEdit DEF Checkpoint
  <2>4. st' \in [Drivers -> State]
    BY <2>1, <2>3 DEF TypeOK
  <2>5. /\ cur' \in [Drivers -> Targets \cup {EndName}]
        /\ seq' \in [Drivers -> Nat \cup {-1}]
        /\ bypass' \in [Drivers -> BOOLEAN]
        /\ order' \in [Drivers -> Seq(Nodes)]
        /\ counters' \in [Drivers -> [Nodes -> Nat]]
    BY <2>1, <2>2, <2>r DEF TypeOK, Checkpoint, Targets
  <2>6. Goto(d, "resuming")
    BY <1>3 DEF ResumeLoad
  <2>7. pc' \in [Drivers -> PCs]
    BY <2>6, GotoType
  <2>8. AtNode'
    BY <2>1, <2>6, GotoMoves DEF AtNode, TypeOK
  <2> QED BY <1>3, <2>4, <2>5, <2>7, <2>8 DEF TypeOK, ResumeLoad, store
<1> QED BY <1>1, <1>2, <1>3

LEMMA TypeLoop ==
  ASSUME TypeOK, AtNode, NEW d \in Drivers, Loop(d)
  PROVE  TypeOK' /\ AtNode'
<1> USE DEF PCs, Active, Settled
<1>0. cur[d] \in Targets \cup {EndName} /\ turns[d] \in 0 .. MaxTurns
  BY DEF TypeOK
<1>1. ASSUME NewTurn(d) PROVE turns' \in [Drivers -> 0 .. MaxTurns]
  <2>1. turns[d] + 1 \in 0 .. MaxTurns
    BY <1>0, <1>1, GraphAssumption DEF NewTurn
  <2>2. turns' = [turns EXCEPT ![d] = turns[d] + 1]
    BY <1>1 DEF NewTurn
  <2> QED BY <2>1, <2>2 DEF TypeOK
<1>2. CASE UnknownNode(d)
  <2>1. Goto(d, "failing")
    BY <1>2 DEF UnknownNode
  <2>2. pc' \in [Drivers -> PCs]
    BY <2>1, GotoType
  <2>3. AtNode'
    BY <1>2, <2>1, GotoMoves DEF AtNode, UnknownNode
  <2> QED BY <1>1, <1>2, <2>2, <2>3 DEF TypeOK, UnknownNode, store
<1>3. CASE InterruptBefore(d)
  <2>1. Emit(d, "InterruptRequested", cur[d], "save", "failing")
    BY <1>3 DEF InterruptBefore
  <2>2. /\ log' \in Seq(Event)
        /\ seq' \in [Drivers -> Nat \cup {-1}]
        /\ pc' \in [Drivers -> PCs]
    BY <1>0, <2>1, EmitType DEF EventTypes
  <2>3. AtNode'
    BY <1>3, <2>1, EmitMoves DEF AtNode, InterruptBefore
  <2>4. dest' \in [Drivers -> Targets] /\ itype' \in [Drivers -> {"before", "after"}]
    BY <1>3, GraphAssumption DEF TypeOK, InterruptBefore, Targets
  <2> QED BY <1>1, <1>3, <2>2, <2>3, <2>4 DEF TypeOK, InterruptBefore
<1>4. CASE StartNode(d)
  <2>1. Emit(d, "NodeStarted", cur[d], "exec", "failing")
    BY <1>4 DEF StartNode
  <2>2. /\ log' \in Seq(Event)
        /\ seq' \in [Drivers -> Nat \cup {-1}]
        /\ pc' \in [Drivers -> PCs]
    BY <1>0, <2>1, EmitType DEF EventTypes
  <2>3. AtNode'
    BY <1>4, <2>1, EmitMoves DEF AtNode, StartNode
  <2>4. bypass' \in [Drivers -> BOOLEAN]
    BY <1>4 DEF TypeOK, StartNode, BypassSpent
  <2> QED BY <1>1, <1>4, <2>2, <2>3, <2>4 DEF TypeOK, StartNode
<1>5. CASE TurnLimit(d) \/ ReachEnd(d)
  <2>1. Goto(d, "failing") \/ Goto(d, "finish")
    BY <1>5 DEF TurnLimit, ReachEnd
  <2>2. pc' \in [Drivers -> PCs]
    BY <2>1, GotoType
  <2>3. UNCHANGED <<store, seq, context, latest>>
    BY <1>5 DEF TurnLimit, ReachEnd
  <2>4. AtNode'
    BY <2>1, <2>3, GotoMoves DEF AtNode, context
  <2> QED BY <2>2, <2>3, <2>4 DEF TypeOK, store, context
<1> QED BY <1>2, <1>3, <1>4, <1>5 DEF Loop

LEMMA TypeExecute ==
  ASSUME TypeOK, AtNode, NEW d \in Drivers, Execute(d)
  PROVE  TypeOK' /\ AtNode'
<1> USE DEF PCs, Active, Settled
<1>0. cur[d] \in Nodes /\ cur[d] \in Targets \cup {EndName}
  BY DEF AtNode, Targets, Execute, LLMCall, NodeReturn, NodeRaise
<1>1. CASE LLMCall(d)
  <2>1. Goto(d, "called") \/ Goto(d, "failing")
    BY <1>1 DEF LLMCall
  <2>2. pc' \in [Drivers -> PCs]
    BY <2>1, GotoType
  <2>3. log' \in Seq(Event)
    <3>1. CASE Append1(d, "LLMCalled", cur[d], 0)
      BY <1>0, <3>1, AppendType DEF EventTypes
    <3>2. CASE UNCHANGED log
      BY <3>2 DEF TypeOK
    <3> QED BY <1>1, <3>1, <3>2 DEF LLMCall
  <2>4. AtNode'
    BY <1>0, <1>1, <2>1, GotoMoves DEF AtNode, LLMCall, context
  <2> QED BY <1>1, <2>2, <2>3, <2>4 DEF TypeOK, LLMCall, context
<1>2. CASE NodeReturn(d)
  <2>1. Emit(d, "NodeCompleted", cur[d], "route", "failing")
    BY <1>2 DEF NodeReturn
  <2>2. /\ log' \in Seq(Event)
        /\ seq' \in [Drivers -> Nat \cup {-1}]
        /\ pc' \in [Drivers -> PCs]
    BY <1>0, <2>1, EmitType DEF EventTypes
  <2>3. AtNode'
    BY <1>0, <1>2, <2>1, EmitMoves DEF AtNode, NodeReturn
  <2>4. st' \in [Drivers -> State]
    <3>1. ApplyUpdate(st[d], Writes[cur[d]], cur[d]) \in State
      BY <1>0, StateUpdates DEF TypeOK
    <3>2. st' = [st EXCEPT ![d] = ApplyUpdate(st[d], Writes[cur[d]], cur[d])]
      BY <1>2 DEF NodeReturn
    <3> QED BY <3>1, <3>2 DEF TypeOK
  <2>5. order' \in [Drivers -> Seq(Nodes)]
    <3>1. Append(order[d], cur[d]) \in Seq(Nodes)
      BY <1>0 DEF TypeOK
    <3>2. order' = [order EXCEPT ![d] = Append(order[d], cur[d])]
      BY <1>2 DEF NodeReturn
    <3> QED BY <3>1, <3>2 DEF TypeOK
  <2> QED BY <1>2, <2>2, <2>3, <2>4, <2>5 DEF TypeOK, NodeReturn
<1>3. CASE NodeRaise(d)
  <2>1. Goto(d, "failing")
    BY <1>3 DEF NodeRaise
  <2>2. pc' \in [Drivers -> PCs]
    BY <2>1, GotoType
  <2>3. AtNode'
    BY <1>3, <2>1, GotoMoves DEF AtNode, NodeRaise, context
  <2> QED BY <1>3, <2>2, <2>3 DEF TypeOK, NodeRaise, store, context
<1> QED BY <1>1, <1>2, <1>3 DEF Execute

LEMMA TypeSettle ==
  ASSUME TypeOK, AtNode, NEW d \in Drivers, Settle(d)
  PROVE  TypeOK' /\ AtNode'
<1> USE DEF PCs, Active, Settled
<1>0. cur[d] \in Targets \cup {EndName} /\ seq[d] \in Nat \cup {-1}
  BY DEF TypeOK
<1>1. CASE InterruptAfter(d) \/ Fail(d)
  <2>1. \/ Emit(d, "InterruptRequested", cur[d], "save", "failing")
        \/ Emit(d, "ErrorOccurred", cur[d], "failing2", "raised")
    BY <1>1 DEF InterruptAfter, Fail
  <2>2. /\ log' \in Seq(Event)
        /\ seq' \in [Drivers -> Nat \cup {-1}]
        /\ pc' \in [Drivers -> PCs]
    BY <1>0, <2>1, EmitType DEF EventTypes
  <2>3. UNCHANGED <<checkpoints, runStatus, context, latest>>
    BY <1>1 DEF InterruptAfter, Fail
  <2>4. AtNode'
    BY <2>1, <2>3, EmitMoves DEF AtNode, context
  <2> QED BY <2>2, <2>3, <2>4 DEF TypeOK, context
<1>2. CASE FailCompleted(d) \/ Finish(d)
  <2>1. \/ Emit(d, "ExecutionCompleted", cur[d], "failing3", "raised")
        \/ Emit(d, "ExecutionCompleted", cur[d], "finish2", "raised")
    BY <1>2 DEF FailCompleted, Finish
  <2>2. /\ log' \in Seq(Event)
        /\ seq' \in [Drivers -> Nat \cup {-1}]
        /\ pc' \in [Drivers -> PCs]
    BY <1>0, <2>1, EmitType DEF EventTypes
  <2>3. /\ UNCHANGED <<checkpoints, context, latest>>
        /\ StatusOnCompleted(seq[d] + 1)
    BY <1>2 DEF FailCompleted, Finish
  <2>4. AtNode'
    BY <2>1, <2>3, EmitMoves DEF AtNode, context
  <2> QED BY <2>2, <2>3, <2>4 DEF TypeOK, context, StatusOnCompleted
<1>3. CASE FailStatus(d) \/ FinishStatus(d)
  <2>1. Goto(d, "failed") \/ Goto(d, "done")
    BY <1>3 DEF FailStatus, FinishStatus, AfterFailure
  <2>2. pc' \in [Drivers -> PCs]
    BY <2>1, GotoType
  <2>3. /\ UNCHANGED <<log, checkpoints, seq, context, latest>>
        /\ UpdateRunStatus("failed") \/ UpdateRunStatus("completed")
    BY <1>3 DEF FailStatus, FinishStatus
  <2>4. AtNode'
    BY <2>1, <2>3, GotoMoves DEF AtNode, context
  <2> QED BY <2>2, <2>3, <2>4 DEF TypeOK, context, UpdateRunStatus
<1>4. CASE SaveCheckpoint(d)
  <2> DEFINE cp == [node |-> Name(dest[d]), itype |-> itype[d], state |-> st[d],
                    seq |-> seq[d] + 1, counters |-> counters[d], order |-> order[d]]
  <2>1. seq[d] + 1 \in Nat
    BY <1>0
  <2>2. cp \in Checkpoint
    BY <2>1 DEF TypeOK, Checkpoint, Name, Targets
  <2>3. checkpoints' = Append(checkpoints, cp)
    BY <1>4 DEF SaveCheckpoint
  <2>4. checkpoints' \in Seq(Checkpoint)
    <3> HIDE DEF cp
    <3> QED BY <2>2, <2>3 DEF TypeOK
  <2>5. seq' \in [Drivers -> Nat \cup {-1}]
    BY <1>4, <2>1 DEF TypeOK, SaveCheckpoint
  <2>6. Goto(d, "interrupted")
    BY <1>4 DEF SaveCheckpoint
  <2>7. pc' \in [Drivers -> PCs]
    BY <2>6, GotoType
  <2>8. AtNode'
    BY <1>4, <2>6, GotoMoves DEF AtNode, SaveCheckpoint, context
  <2> HIDE DEF cp
  <2> QED BY <1>4, <2>4, <2>5, <2>7, <2>8 DEF TypeOK, SaveCheckpoint, context
<1>5. CASE SaveFails(d)
  <2>1. Goto(d, "failing") /\ seq[d] + 1 \in Nat
    BY <1>0, <1>5 DEF SaveFails
  <2>2. seq' \in [Drivers -> Nat \cup {-1}]
    BY <1>5, <2>1 DEF TypeOK, SaveFails
  <2>3. pc' \in [Drivers -> PCs]
    BY <2>1, GotoType
  <2>4. AtNode'
    BY <1>5, <2>1, GotoMoves DEF AtNode, SaveFails, context
  <2> QED BY <1>5, <2>2, <2>3, <2>4 DEF TypeOK, SaveFails, store, context
<1> QED BY <1>1, <1>2, <1>3, <1>4, <1>5 DEF Settle

LEMMA TypeRoute ==
  ASSUME TypeOK, AtNode, NEW d \in Drivers, ResolveNext(d)
  PROVE  TypeOK' /\ AtNode'
<1> USE DEF PCs, Active, Settled
<1>0. /\ cur[d] \in Nodes /\ cur[d] \in Targets \cup {EndName}
      /\ st[d] \in State /\ branch[d] \in [Nodes -> {"none", "run", "called", "ok", "err"}]
      /\ counters[d] \in [Nodes -> Nat]
  BY DEF AtNode, TypeOK, Targets, ResolveNext, FollowEdge, LoopEdge, RouteRaise, NoHandoff,
         Handoff, FanOut, Join, BranchCall, BranchEnd
<1>e. /\ Edges[cur[d]].kind \in EdgeKinds
      /\ Edges[cur[d]].to \in Seq(Nodes)
      /\ Edges[cur[d]].exits \subseteq Targets
      /\ Edges[cur[d]].join \in Targets
      /\ Edges[cur[d]].limit \in Nat
  BY <1>0, EdgeParts
<1>r. ASSUME NEW t \in Targets, NEW s \in State, Deliver(d, t, s), Goto(d, Routed(d))
      PROVE  /\ pc' \in [Drivers -> PCs] /\ AtNode'
             /\ cur' \in [Drivers -> Targets \cup {EndName}]
             /\ st' \in [Drivers -> State]
             /\ dest' \in [Drivers -> Targets]
             /\ itype' \in [Drivers -> {"before", "after"}]
  <2>1. pc' \in [Drivers -> PCs]
    BY <1>r, GotoType DEF Routed
  <2>2. AtNode'
    BY <1>0, <1>r, GotoMoves, DeliverMoves
  <2> QED BY <1>0, <1>r, <2>1, <2>2, DeliverType
<1>1. CASE FollowEdge(d)
  <2>1. PICK t \in Targets : Deliver(d, t, st[d])
    BY <1>1, <1>e DEF FollowEdge, Edge, Targets
  <2> QED BY <1>0, <1>1, <1>r, <2>1 DEF TypeOK, FollowEdge, store
<1>2. CASE LoopEdge(d)
  <2>1. PICK t \in Targets : Deliver(d, t, st[d])
    BY <1>0, <1>2 DEF LoopEdge, Targets
  <2>2. counters' \in [Drivers -> [Nodes -> Nat]]
    <3>0. counters[d][cur[d]] + 1 \in Nat /\ 0 \in Nat
      BY <1>0
    <3>1. \E k \in Nat : counters' = [counters EXCEPT ![d][cur[d]] = k]
      <4>1. \/ counters' = [counters EXCEPT ![d][cur[d]] = counters[d][cur[d]] + 1]
            \/ counters' = [counters EXCEPT ![d][cur[d]] = 0]
        BY <1>2 DEF LoopEdge
      <4> QED BY <3>0, <4>1
    <3> PICK k \in Nat : counters' = [counters EXCEPT ![d][cur[d]] = k]
      BY <3>1
    <3>2. [counters[d] EXCEPT ![cur[d]] = k] \in [Nodes -> Nat]
      BY <1>0
    <3> QED BY <3>2 DEF TypeOK
  <2> QED BY <1>0, <1>2, <1>r, <2>1, <2>2 DEF TypeOK, LoopEdge, store
<1>3. CASE RouteRaise(d)
  <2>1. Goto(d, "failing")
    BY <1>3 DEF RouteRaise
  <2>2. pc' \in [Drivers -> PCs]
    BY <2>1, GotoType
  <2>3. AtNode'
    BY <1>3, <2>1, GotoMoves DEF AtNode, RouteRaise, context
  <2> QED BY <1>3, <2>2, <2>3 DEF TypeOK, RouteRaise, store, context
<1>4. CASE NoHandoff(d)
  <2>1. Deliver(d, End, st[d]) /\ End \in Targets
    BY <1>4 DEF NoHandoff, Targets
  <2> QED BY <1>0, <1>4, <1>r, <2>1 DEF TypeOK, NoHandoff, store
<1>5. CASE Handoff(d)
  <2>1. Emit(d, "HandoffInitiated", cur[d], Routed(d), "failing") /\ Routed(d) \in PCs
    BY <1>5 DEF Handoff, Routed
  <2>2. /\ log' \in Seq(Event)
        /\ seq' \in [Drivers -> Nat \cup {-1}]
        /\ pc' \in [Drivers -> PCs]
    BY <1>0, <2>1, EmitType DEF EventTypes
  <2>3. CASE UNCHANGED <<cur, st, dest, itype>>
    <3>1. AtNode'
      BY <1>0, <2>1, <2>3, EmitMoves DEF AtNode, Routed
    <3> QED BY <1>5, <2>2, <2>3, <3>1 DEF TypeOK, Handoff
  <2>4. CASE \E t \in Edge(d).exits : Deliver(d, t, HandoffUpdate(st[d], cur[d]))
    <3>1. PICK t \in Targets : Deliver(d, t, HandoffUpdate(st[d], cur[d]))
      BY <1>e, <2>4 DEF Edge
    <3>2. HandoffUpdate(st[d], cur[d]) \in State
      BY <1>0, StateUpdates
    <3>3. /\ cur' \in [Drivers -> Targets \cup {EndName}]
          /\ st' \in [Drivers -> State]
          /\ dest' \in [Drivers -> Targets]
          /\ itype' \in [Drivers -> {"before", "after"}]
      BY <1>0, <3>1, <3>2, DeliverType
    <3>4. AtNode'
      BY <1>0, <2>1, <3>1, EmitMoves, DeliverMoves
    <3> QED BY <1>5, <2>2, <3>3, <3>4 DEF TypeOK, Handoff
  <2> QED BY <1>5, <2>3, <2>4 DEF Handoff
<1>6. CASE FanOut(d)
  <2>1. Goto(d, "fan")
    BY <1>6 DEF FanOut
  <2>2. pc' \in [Drivers -> PCs]
    BY <2>1, GotoType
  <2>3. AtNode'
    BY <1>0, <1>6, <2>1, GotoMoves DEF AtNode, FanOut
  <2>4. branch' \in [Drivers -> [Nodes -> {"none", "run", "called", "ok", "err"}]]
    BY <1>6 DEF TypeOK, FanOut
  <2> QED BY <1>6, <2>2, <2>3, <2>4 DEF TypeOK, FanOut, store
<1>7. CASE \E n \in Nodes : BranchCall(d, n) \/ BranchEnd(d, n)
  <2>1. PICK n \in Nodes : BranchCall(d, n) \/ BranchEnd(d, n)
    BY <1>7
  <2>2. PICK b \in {"ok", "err", "called"} : branch' = [branch EXCEPT ![d][n] = b]
    BY <2>1 DEF BranchCall, BranchEnd
  <2>3. [branch[d] EXCEPT ![n] = b] \in [Nodes -> {"none", "run", "called", "ok", "err"}]
    BY <1>0
  <2>4. branch' \in [Drivers -> [Nodes -> {"none", "run", "called", "ok", "err"}]]
    BY <2>2, <2>3 DEF TypeOK
  <2>5. log' \in Seq(Event)
    <3>1. UNCHANGED log \/ Append1(d, "LLMCalled", n, 0)
      BY <2>1 DEF BranchCall, BranchEnd, store
    <3>2. n \in Targets \cup {EndName}
      BY DEF Targets
    <3> QED BY <3>1, <3>2, AppendType DEF TypeOK, EventTypes
  <2>6. UNCHANGED <<checkpoints, runStatus, pc, seq, cur, st, turns, bypass, order,
                    counters, dest, itype, latest>>
    BY <2>1 DEF BranchCall, BranchEnd, store
  <2> QED BY <2>4, <2>5, <2>6 DEF TypeOK, AtNode
<1>8. CASE Join(d)
  <2>1. branch' \in [Drivers -> [Nodes -> {"none", "run", "called", "ok", "err"}]]
    BY <1>8 DEF TypeOK, Join, NoBranch
  <2>2. CASE Goto(d, "failing") /\ UNCHANGED <<cur, st, dest, itype>>
    <3>1. pc' \in [Drivers -> PCs]
      BY <2>2, GotoType
    <3>2. AtNode'
      BY <2>2, GotoMoves DEF AtNode
    <3> QED BY <1>8, <2>1, <2>2, <3>1, <3>2 DEF TypeOK, Join, store
  <2>3. CASE \E t \in Targets : /\ Deliver(d, t, MergeParallel(st[d], Edge(d).to))
                               /\ Goto(d, Routed(d))
    <3>1. MergeParallel(st[d], Edge(d).to) \in State
      BY <1>0, StateUpdates DEF Edge
    <3> QED BY <1>8, <1>r, <2>1, <2>3, <3>1 DEF TypeOK, Join, store
  <2>4. Edge(d).join \in Targets /\ End \in Targets
    BY <1>e DEF Edge, Targets
  <2> QED BY <1>8, <2>2, <2>3, <2>4 DEF Join
<1> QED BY <1>1, <1>2, <1>3, <1>4, <1>5, <1>6, <1>7, <1>8 DEF ResolveNext

THEOREM TypeStep == TypeOK /\ AtNode /\ [Next]_vars => TypeOK' /\ AtNode'
<1> SUFFICES ASSUME TypeOK, AtNode, [Next]_vars
             PROVE  TypeOK' /\ AtNode'
  OBVIOUS
<1>1. CASE UNCHANGED vars
  BY <1>1 DEF vars, store, context, TypeOK, AtNode
<1>2. CASE \E d \in Drivers : Step(d) \/ ResumeLoad(d)
  BY <1>2, TypeResume, TypeLoop, TypeExecute, TypeRoute, TypeSettle DEF Step
<1>3. CASE \E d \in Drivers : Cancel(d)
  <2>1. PICK d \in Drivers : Cancel(d)
    BY <1>3
  <2>2. Goto(d, "cancelled")
    BY <2>1 DEF Cancel
  <2>3. pc' \in [Drivers -> PCs]
    BY <2>2, GotoType DEF PCs, Settled
  <2>4. AtNode'
    BY <2>1, <2>2, GotoMoves DEF AtNode, Cancel, context
  <2> QED BY <2>1, <2>3, <2>4 DEF TypeOK, Cancel, store, context, PCs
<1>4. CASE Fork
  <2>1. Append1(Forker, "ForkCreated", Entry, 0) /\ Entry \in Targets \cup {EndName}
    BY <1>4, GraphAssumption DEF Fork, Targets
  <2>2. log' \in Seq(Event)
    BY <2>1, AppendType DEF EventTypes
  <2> QED BY <1>4, <2>2 DEF TypeOK, AtNode, Fork, context
<1> QED BY <1>1, <1>2, <1>3, <1>4 DEF Next

(* Every variable keeps its type, for every graph and store: in particular *)
(* no driver runs more turns than max_turns, whatever resumes it, and what *)
(* a checkpoint stores can be loaded again.                                *)
THEOREM TypeCorrect == Spec => []TypeOK
<1>1. Spec => [](TypeOK /\ AtNode)
  BY TypeInit, TypeStep, PTL DEF Spec
<1> QED BY <1>1, PTL

--------------------------------------------------------------------------------
(* The gate.  GateHeld speaks about the whole log; what makes it inductive *)
(* is that a bypass always has a request and a resume behind it.           *)

(* m is l, or l with one more event, written by "by".                      *)
Extends(l, m, by) ==
  /\ Len(m) = Len(l) + 1
  /\ \A i \in 1 .. Len(l) : m[i] = l[i]
  /\ m[Len(m)].by = by

LEMMA RequestedStays ==
  ASSUME NEW l \in Seq(Event), NEW m \in Seq(Event), NEW by,
         m = l \/ Extends(l, m, by), NEW n, NEW s, Requested(l, n, s)
  PROVE  Requested(m, n, s)
<1>1. CASE m = l
  BY <1>1
<1>2. CASE Extends(l, m, by)
  <2>1. PICK h \in 1 .. Len(l) : /\ l[h].type = "InterruptRequested"
                                /\ l[h].node = n /\ l[h].seq = s
    BY DEF Requested
  <2>2. h \in DOMAIN m /\ m[h] = l[h]
    BY <1>2 DEF Extends
  <2> QED BY <2>1, <2>2 DEF Requested
<1> QED BY <1>1, <1>2

(* An approval stands at position i whatever is appended behind it.        *)
LEMMA ApprovalStays ==
  ASSUME NEW l \in Seq(Event), NEW m \in Seq(Event), NEW by, Extends(l, m, by),
         NEW n, NEW d, NEW i \in 1 .. Len(l) + 1, Approved(l, n, d, i)
  PROVE  Approved(m, n, d, i)
<1>1. PICK j \in 1 .. i - 1 :
        /\ l[j].by = d /\ l[j].type = "InterruptResumed" /\ l[j].node = n
        /\ \A k \in j + 1 .. i - 1 : l[k].by # d
        /\ Requested(l, n, l[j].seq - 2)
  BY DEF Approved
<1>2. \A k \in 1 .. i - 1 : m[k] = l[k]
  BY DEF Extends
<1>3. Requested(m, n, m[j].seq - 2)
  BY <1>1, <1>2, RequestedStays
<1>4. \A k \in j + 1 .. i - 1 : m[k].by # d
  BY <1>1, <1>2
<1> QED BY <1>1, <1>2, <1>3, <1>4 DEF Approved

(* The approval of d is still pending after another driver's event.        *)
LEMMA PendingStays ==
  ASSUME NEW l \in Seq(Event), NEW m \in Seq(Event), NEW by,
         m = l \/ Extends(l, m, by), NEW n, NEW d, d # by,
         Approved(l, n, d, Len(l) + 1)
  PROVE  Approved(m, n, d, Len(m) + 1)
<1>1. CASE m = l
  BY <1>1
<1>2. CASE Extends(l, m, by)
  <2>1. Len(l) \in Nat /\ Len(m) = Len(l) + 1 /\ m[Len(l) + 1].by # d
    BY <1>2 DEF Extends
  <2>2. Approved(m, n, d, Len(l) + 1)
    BY <1>2, <2>1, ApprovalStays
  <2>3. PICK j \in 1 .. Len(l) :
          /\ m[j].by = d /\ m[j].type = "InterruptResumed" /\ m[j].node = n
          /\ \A k \in j + 1 .. Len(l) : m[k].by # d
          /\ Requested(m, n, m[j].seq - 2)
    BY <2>1, <2>2 DEF Approved
  <2>4. \A k \in j + 1 .. (Len(m) + 1) - 1 : m[k].by # d
    BY <2>1, <2>3
  <2>5. j \in 1 .. (Len(m) + 1) - 1
    BY <2>1
  <2> QED BY <2>3, <2>4, <2>5 DEF Approved
<1> QED BY <1>1, <1>2

(* The gate holds of a longer log if it holds of its last event.           *)
LEMMA GateExtends ==
  ASSUME NEW l \in Seq(Event), NEW m \in Seq(Event), NEW by, Extends(l, m, by), GateIn(l),
         m[Len(m)].type = "NodeStarted" /\ m[Len(m)].node \in Before =>
           Approved(m, m[Len(m)].node, by, Len(m))
  PROVE  GateIn(m)
<1> SUFFICES ASSUME NEW i \in 1 .. Len(m), m[i].type = "NodeStarted", m[i].node \in Before
             PROVE  Approved(m, m[i].node, m[i].by, i)
  BY DEF GateIn
<1>1. Len(l) \in Nat /\ Len(m) = Len(l) + 1
  BY DEF Extends
<1>2. CASE i = Len(m)
  BY <1>2 DEF Extends
<1>3. CASE i # Len(m)
  <2>1. i \in 1 .. Len(l) /\ i \in 1 .. Len(l) + 1 /\ m[i] = l[i]
    BY <1>1, <1>3 DEF Extends
  <2>2. Approved(l, l[i].node, l[i].by, i)
    BY <2>1 DEF GateIn
  <2> QED BY <2>1, <2>2, ApprovalStays
<1> QED BY <1>2, <1>3

(* What a driver that may still run a gated node owes to the log.          *)
GateOf(d) ==
  /\ pc[d] = "resuming" /\ bypass[d] => Requested(log, cur[d], seq[d] - 1)
  /\ pc[d] = "loop" /\ bypass[d] => Approved(log, cur[d], d, Len(log) + 1)
  /\ pc[d] \in {"starting", "exec", "called", "route", "fan"} => ~bypass[d]
  /\ pc[d] = "ask" => itype[d] = "after"
  /\ pc[d] = "save" /\ itype[d] = "before" =>
       dest[d] \in Nodes /\ Requested(log, dest[d], seq[d])

(* Every checkpoint before a node was preceded by the request for it.      *)
CheckpointRequested ==
  \A i \in DOMAIN checkpoints :
    checkpoints[i].itype = "before" =>
      Requested(log, checkpoints[i].node, checkpoints[i].seq - 1)

GateInv ==
  /\ TypeOK /\ AtNode
  /\ \A d \in Drivers : GateOf(d)
  /\ CheckpointRequested
  /\ GateHeld

Wrote1(d, type, n, s) ==
  Extends(log, log', d) /\ log'[Len(log')] = [by |-> d, type |-> type, node |-> n, seq |-> s]

LEMMA AppendWrites ==
  ASSUME TypeOK, NEW d \in Drivers \cup {Forker}, NEW type \in EventTypes,
         NEW n \in Targets \cup {EndName}, NEW s \in Nat, Append1(d, type, n, s)
  PROVE  Wrote1(d, type, n, s)
<1> DEFINE e == [by |-> d, type |-> type, node |-> n, seq |-> s]
<1>1. e \in Event
  BY DEF Event
<1>2. log \in Seq(Event) /\ log' = Append(log, e)
  BY DEF TypeOK, Append1
<1>3. /\ Len(log') = Len(log) + 1
      /\ \A i \in 1 .. Len(log) : log'[i] = log[i]
      /\ log'[Len(log')] = e
  <2> HIDE DEF e
  <2> QED BY <1>1, <1>2
<1> QED BY <1>3 DEF Wrote1, Extends

LEMMA EmitWrites ==
  ASSUME TypeOK, NEW d \in Drivers, NEW type \in EventTypes,
         NEW n \in Targets \cup {EndName}, NEW ok, NEW raised,
         Emit(d, type, n, ok, raised)
  PROVE  /\ seq' = [seq EXCEPT ![d] = seq[d] + 1]
         /\ \/ Wrote1(d, type, n, seq[d] + 1) /\ pc' = [pc EXCEPT ![d] = ok]
            \/ log' = log /\ pc' = [pc EXCEPT ![d] = raised]
<1>1. seq[d] \in Nat \cup {-1}
  BY DEF TypeOK
<1>2. seq[d] + 1 \in Nat
  BY <1>1
<1>3. Append1(d, type, n, seq[d] + 1) => Wrote1(d, type, n, seq[d] + 1)
  BY <1>2, AppendWrites
<1> QED BY <1>3 DEF Emit, Goto

(* The rest of the argument, for a step of one driver that appends at most *)
(* one event: the other drivers and the old checkpoints keep what they     *)
(* have, so the step has to account for its own.                           *)
LEMMA GateFrame ==
  ASSUME GateInv, TypeOK', AtNode', NEW d \in Drivers \cup {Forker},
         log' = log \/ Extends(log, log', d),
         log' # log /\ log'[Len(log')].type = "NodeStarted"
             /\ log'[Len(log')].node \in Before =>
             Approved(log, log'[Len(log')].node, d, Len(log) + 1),
         \A e \in Drivers : e # d =>
           /\ pc'[e] = pc[e] /\ cur'[e] = cur[e] /\ bypass'[e] = bypass[e]
           /\ seq'[e] = seq[e] /\ dest'[e] = dest[e] /\ itype'[e] = itype[e],
         d \in Drivers => GateOf(d)',
         checkpoints' = checkpoints \/ CheckpointRequested'
  PROVE  GateInv'
<1>1. log \in Seq(Event) /\ log' \in Seq(Event) /\ Len(log) \in Nat
  BY DEF GateInv, TypeOK
<1>2. \A e \in Drivers : GateOf(e)'
  <2> SUFFICES ASSUME NEW e \in Drivers, e # d PROVE GateOf(e)'
    OBVIOUS
  <2>1. /\ pc'[e] = pc[e] /\ cur'[e] = cur[e] /\ bypass'[e] = bypass[e]
        /\ seq'[e] = seq[e] /\ dest'[e] = dest[e] /\ itype'[e] = itype[e]
    OBVIOUS
  <2>2. Requested(log, cur[e], seq[e] - 1) => Requested(log', cur[e], seq[e] - 1)
    BY <1>1, RequestedStays
  <2>3. Requested(log, dest[e], seq[e]) => Requested(log', dest[e], seq[e])
    BY <1>1, RequestedStays
  <2>4. Approved(log, cur[e], e, Len(log) + 1) => Approved(log', cur[e], e, Len(log') + 1)
    BY <1>1, PendingStays
  <2>5. GateOf(e)
    BY DEF GateInv
  <2> QED BY <2>1, <2>2, <2>3, <2>4, <2>5 DEF GateOf
<1>3. CheckpointRequested'
  <2> SUFFICES ASSUME checkpoints' = checkpoints PROVE CheckpointRequested'
    OBVIOUS
  <2> SUFFICES ASSUME NEW i \in DOMAIN checkpoints, checkpoints[i].itype = "before"
               PROVE  Requested(log', checkpoints[i].node, checkpoints[i].seq - 1)
    BY DEF CheckpointRequested
  <2>1. Requested(log, checkpoints[i].node, checkpoints[i].seq - 1)
    BY DEF GateInv, CheckpointRequested
  <2> QED BY <1>1, <2>1, RequestedStays
<1>4. GateHeld'
  <2>1. GateIn(log)
    BY DEF GateInv, GateHeld
  <2>2. CASE log' = log
    BY <2>1, <2>2 DEF GateHeld
  <2>3. CASE Extends(log, log', d) /\ log' # log
    <3>1. Len(log') = Len(log) + 1 /\ Len(log) + 1 \in 1 .. Len(log) + 1
      BY <1>1, <2>3 DEF Extends
    <3>2. ASSUME log'[Len(log')].type = "NodeStarted", log'[Len(log')].node \in Before
          PROVE  Approved(log', log'[Len(log')].node, d, Len(log'))
      BY <1>1, <2>3, <3>1, <3>2, ApprovalStays
    <3>3. GateIn(log')
      BY <1>1, <2>1, <2>3, <3>2, GateExtends
    <3> QED BY <3>3 DEF GateHeld
  <2> QED BY <2>2, <2>3
<1> QED BY <1>2, <1>3, <1>4 DEF GateInv

LEMMA GateResume ==
  ASSUME GateInv, NEW d \in Drivers, Start(d) \/ ResumeLoad(d) \/ ResumeEmit(d)
  PROVE  GateInv'
<1>0. TypeOK /\ AtNode /\ GateOf(d) /\ log \in Seq(Event) /\ Len(log) \in Nat
      /\ cur[d] \in Targets \cup {EndName} /\ seq[d] \in Nat \cup {-1}
  BY DEF GateInv, TypeOK
<1>y. {"ExecutionStarted", "InterruptResumed", "NodeStarted", "NodeCompleted",
       "InterruptRequested"} \subseteq EventTypes
  BY DEF EventTypes
<1>t. TypeOK' /\ AtNode'
  BY <1>0, TypeResume
<1>1. CASE Start(d)
  <2>1. Entry \in Targets \cup {EndName}
    BY GraphAssumption DEF Targets
  <2>2. Emit(d, "ExecutionStarted", Entry, "loop", "raised")
    BY <1>1 DEF Start
  <2>3. /\ seq' = [seq EXCEPT ![d] = seq[d] + 1]
        /\ \/ Wrote1(d, "ExecutionStarted", Entry, seq[d] + 1) /\ pc' = [pc EXCEPT ![d] = "loop"]
           \/ log' = log /\ pc' = [pc EXCEPT ![d] = "raised"]
    BY <1>0, <2>1, <2>2, <1>y, EmitWrites
  <2>4. UNCHANGED <<checkpoints, context>> /\ ~bypass[d]
    BY <1>0, <1>1 DEF Start, GateOf
  <2>5. GateOf(d)'
    BY <1>0, <2>3, <2>4 DEF GateOf, TypeOK, context
  <2>f. \A e \in Drivers : e # d =>
          /\ pc'[e] = pc[e] /\ cur'[e] = cur[e] /\ bypass'[e] = bypass[e]
          /\ seq'[e] = seq[e] /\ dest'[e] = dest[e] /\ itype'[e] = itype[e]
    BY <1>0, <2>3, <2>4 DEF TypeOK, context
  <2> QED BY <1>0, <1>t, <2>3, <2>4, <2>5, <2>f, GateFrame DEF Wrote1
<1>2. CASE ResumeEmit(d)
  <2>0. Emit(d, "InterruptResumed", cur[d], "loop", "raised")
    BY <1>2 DEF ResumeEmit
  <2>1. pc[d] = "resuming" /\ UNCHANGED <<checkpoints, context>>
    BY <1>2 DEF ResumeEmit
  <2>2. /\ seq' = [seq EXCEPT ![d] = seq[d] + 1]
        /\ \/ Wrote1(d, "InterruptResumed", cur[d], seq[d] + 1) /\ pc' = [pc EXCEPT ![d] = "loop"]
           \/ log' = log /\ pc' = [pc EXCEPT ![d] = "raised"]
    BY <1>0, <2>0, <1>y, EmitWrites
  <2>3. CASE log' = log /\ pc' = [pc EXCEPT ![d] = "raised"]
    <3>1. GateOf(d)'
      BY <1>0, <2>3 DEF GateOf, TypeOK
    <3> QED BY <1>0, <1>t, <2>1, <2>2, <2>3, <3>1, GateFrame DEF context, TypeOK
  <2>4. CASE Wrote1(d, "InterruptResumed", cur[d], seq[d] + 1) /\ pc' = [pc EXCEPT ![d] = "loop"]
    <3>1. ASSUME bypass[d] PROVE Approved(log', cur[d], d, Len(log') + 1)
      <4>1. log' \in Seq(Event) /\ Extends(log, log', d)
        BY <1>t, <2>4 DEF TypeOK, Wrote1
      <4>2. Requested(log', cur[d], seq[d] - 1)
        BY <1>0, <2>1, <3>1, <4>1, RequestedStays DEF GateOf
      <4>3. (seq[d] + 1) - 2 = seq[d] - 1
        BY <1>0
      <4>4. /\ log'[Len(log')].by = d /\ log'[Len(log')].type = "InterruptResumed"
            /\ log'[Len(log')].node = cur[d] /\ log'[Len(log')].seq = seq[d] + 1
        BY <2>4 DEF Wrote1
      <4>5. Len(log') \in 1 .. (Len(log') + 1) - 1
        BY <1>0, <4>1 DEF Extends
      <4>6. \A k \in Len(log') + 1 .. (Len(log') + 1) - 1 : log'[k].by # d
        BY <4>5
      <4> QED BY <4>2, <4>3, <4>4, <4>5, <4>6 DEF Approved
    <3>2. GateOf(d)'
      BY <1>0, <2>1, <2>4, <3>1 DEF GateOf, TypeOK, context
    <3> QED BY <1>0, <1>t, <2>1, <2>2, <2>4, <3>2, GateFrame DEF Wrote1, context, TypeOK
  <2> QED BY <2>2, <2>3, <2>4
<1>3. CASE ResumeLoad(d)
  <2>1. PICK i \in DOMAIN checkpoints :
          /\ cur' = [cur EXCEPT ![d] = checkpoints[i].node]
          /\ seq' = [seq EXCEPT ![d] = checkpoints[i].seq]
          /\ bypass' = [bypass EXCEPT ![d] = checkpoints[i].itype = "before"]
    BY <1>3 DEF ResumeLoad, ResumeSeq, ResumeBypass
  <2>2. pc' = [pc EXCEPT ![d] = "resuming"] /\ UNCHANGED <<log, checkpoints, dest, itype>>
    BY <1>3 DEF ResumeLoad, Goto, store
  <2>3. checkpoints[i].itype = "before" =>
          Requested(log, checkpoints[i].node, checkpoints[i].seq - 1)
    BY DEF GateInv, CheckpointRequested
  <2>4. GateOf(d)'
    BY <1>0, <2>1, <2>2, <2>3 DEF GateOf, TypeOK
  <2>f. \A e \in Drivers : e # d =>
          /\ pc'[e] = pc[e] /\ cur'[e] = cur[e] /\ bypass'[e] = bypass[e]
          /\ seq'[e] = seq[e] /\ dest'[e] = dest[e] /\ itype'[e] = itype[e]
    BY <1>0, <2>1, <2>2 DEF TypeOK, context
  <2> QED BY <1>0, <1>t, <2>1, <2>2, <2>4, <2>f, GateFrame
<1> QED BY <1>1, <1>2, <1>3

LEMMA GateLoop ==
  ASSUME GateInv, NEW d \in Drivers, Loop(d)
  PROVE  GateInv'
<1>0. TypeOK /\ AtNode /\ GateOf(d) /\ log \in Seq(Event) /\ Len(log) \in Nat
      /\ cur[d] \in Targets \cup {EndName} /\ seq[d] \in Nat \cup {-1}
  BY DEF GateInv, TypeOK
<1>y. {"ExecutionStarted", "InterruptResumed", "NodeStarted", "NodeCompleted",
       "InterruptRequested"} \subseteq EventTypes
  BY DEF EventTypes
<1>t. TypeOK' /\ AtNode'
  BY <1>0, TypeLoop
<1>1. CASE UnknownNode(d) \/ TurnLimit(d) \/ ReachEnd(d)
  <2>1. /\ pc' = [pc EXCEPT ![d] = "failing"] \/ pc' = [pc EXCEPT ![d] = "finish"]
        /\ UNCHANGED <<log, checkpoints, cur, bypass, seq, dest, itype>>
    BY <1>1 DEF UnknownNode, TurnLimit, ReachEnd, Goto, store, context
  <2>2. GateOf(d)'
    BY <1>0, <2>1 DEF GateOf, TypeOK
  <2>f. \A e \in Drivers : e # d =>
          /\ pc'[e] = pc[e] /\ cur'[e] = cur[e] /\ bypass'[e] = bypass[e]
          /\ seq'[e] = seq[e] /\ dest'[e] = dest[e] /\ itype'[e] = itype[e]
    BY <1>0, <2>1 DEF TypeOK, context
  <2> QED BY <1>0, <1>t, <2>1, <2>2, <2>f, GateFrame
<1>2. CASE InterruptBefore(d)
  <2>1. /\ Emit(d, "InterruptRequested", cur[d], "save", "failing")
        /\ cur[d] \in Before /\ ~bypass[d]
        /\ dest' = [dest EXCEPT ![d] = cur[d]] /\ itype' = [itype EXCEPT ![d] = "before"]
        /\ UNCHANGED <<checkpoints, cur, bypass>>
    BY <1>2 DEF InterruptBefore
  <2>y. "InterruptRequested" \in EventTypes
    BY <1>y
  <2>2. /\ seq' = [seq EXCEPT ![d] = seq[d] + 1]
        /\ \/ Wrote1(d, "InterruptRequested", cur[d], seq[d] + 1) /\ pc' = [pc EXCEPT ![d] = "save"]
           \/ log' = log /\ pc' = [pc EXCEPT ![d] = "failing"]
    BY <1>0, <2>1, <2>y, EmitWrites
  <2>3. cur[d] \in Nodes
    BY <2>1, GraphAssumption
  <2>4. Wrote1(d, "InterruptRequested", cur[d], seq[d] + 1) =>
          Requested(log', cur[d], seq[d] + 1)
    <3> HAVE Wrote1(d, "InterruptRequested", cur[d], seq[d] + 1)
    <3>1. log' \in Seq(Event) /\ Len(log') \in DOMAIN log'
      BY <1>0, <1>t DEF TypeOK, Wrote1, Extends
    <3> QED BY <3>1 DEF Wrote1, Requested
  <2>5. GateOf(d)'
    BY <1>0, <2>1, <2>2, <2>3, <2>4 DEF GateOf, TypeOK
  <2>f. \A e \in Drivers : e # d =>
          /\ pc'[e] = pc[e] /\ cur'[e] = cur[e] /\ bypass'[e] = bypass[e]
          /\ seq'[e] = seq[e] /\ dest'[e] = dest[e] /\ itype'[e] = itype[e]
    BY <1>0, <2>1, <2>2 DEF TypeOK, context
  <2> QED BY <1>0, <1>t, <2>1, <2>2, <2>5, <2>f, GateFrame DEF Wrote1
<1>3. CASE StartNode(d)
  <2>1. /\ Emit(d, "NodeStarted", cur[d], "exec", "failing")
        /\ cur[d] \notin Before \/ bypass[d]
        /\ pc[d] = "loop" /\ bypass' = [bypass EXCEPT ![d] = FALSE]
        /\ UNCHANGED <<checkpoints, cur, dest, itype>>
    BY <1>3 DEF StartNode, NewTurn, BypassSpent
  <2>2. /\ seq' = [seq EXCEPT ![d] = seq[d] + 1]
        /\ \/ Wrote1(d, "NodeStarted", cur[d], seq[d] + 1) /\ pc' = [pc EXCEPT ![d] = "exec"]
           \/ log' = log /\ pc' = [pc EXCEPT ![d] = "failing"]
    BY <1>0, <2>1, <1>y, EmitWrites
  <2>3. cur[d] \in Before => Approved(log, cur[d], d, Len(log) + 1)
    BY <1>0, <2>1 DEF GateOf
  <2>4. GateOf(d)'
    BY <1>0, <2>1, <2>2 DEF GateOf, TypeOK
  <2>f. \A e \in Drivers : e # d =>
          /\ pc'[e] = pc[e] /\ cur'[e] = cur[e] /\ bypass'[e] = bypass[e]
          /\ seq'[e] = seq[e] /\ dest'[e] = dest[e] /\ itype'[e] = itype[e]
    BY <1>0, <2>1, <2>2 DEF TypeOK, context
  <2>5. \/ log' = log
        \/ /\ Extends(log, log', d)
           /\ log'[Len(log')].node \in Before => Approved(log, log'[Len(log')].node, d, Len(log) + 1)
    BY <2>2, <2>3 DEF Wrote1
  <2> QED BY <1>t, <2>1, <2>4, <2>5, <2>f, GateFrame
<1> QED BY <1>1, <1>2, <1>3 DEF Loop

(* What is left appends other events, or none, and opens no gate.          *)
LEMMA GateQuiet ==
  ASSUME GateInv, TypeOK', AtNode', NEW d \in Drivers, NEW type \in EventTypes \ {"NodeStarted"},
         NEW n, NEW s, log' = log \/ Wrote1(d, type, n, s),
         \A e \in Drivers : e # d =>
           /\ pc'[e] = pc[e] /\ cur'[e] = cur[e] /\ bypass'[e] = bypass[e]
           /\ seq'[e] = seq[e] /\ dest'[e] = dest[e] /\ itype'[e] = itype[e],
         GateOf(d)', checkpoints' = checkpoints
  PROVE  GateInv'
BY GateFrame DEF Wrote1

LEMMA GateExecute ==
  ASSUME GateInv, NEW d \in Drivers, Execute(d)
  PROVE  GateInv'
<1>0. TypeOK /\ AtNode /\ GateOf(d) /\ cur[d] \in Targets \cup {EndName}
  BY DEF GateInv, TypeOK
<1>y. {"ExecutionStarted", "InterruptResumed", "NodeStarted", "NodeCompleted",
       "InterruptRequested"} \subseteq EventTypes
  BY DEF EventTypes
<1>t. TypeOK' /\ AtNode'
  BY <1>0, TypeExecute
<1>1. /\ UNCHANGED <<checkpoints, cur, bypass, dest, itype>>
      /\ pc[d] \in {"exec", "called"}
  BY DEF Execute, LLMCall, NodeReturn, NodeRaise, store, context
<1>2. CASE LLMCall(d) \/ NodeRaise(d)
  <2>1. /\ pc' = [pc EXCEPT ![d] = "called"] \/ pc' = [pc EXCEPT ![d] = "failing"]
        /\ seq' = seq
        /\ log' = log \/ Append1(d, "LLMCalled", cur[d], 0)
    BY <1>2 DEF LLMCall, NodeRaise, Goto, store
  <2>2. log' = log \/ Wrote1(d, "LLMCalled", cur[d], 0)
    BY <1>0, <2>1, AppendWrites DEF EventTypes
  <2>3. GateOf(d)'
    BY <1>0, <1>1, <2>1 DEF GateOf, TypeOK
  <2>f. \A e \in Drivers : e # d =>
          /\ pc'[e] = pc[e] /\ cur'[e] = cur[e] /\ bypass'[e] = bypass[e]
          /\ seq'[e] = seq[e] /\ dest'[e] = dest[e] /\ itype'[e] = itype[e]
    BY <1>0, <1>1, <2>1 DEF TypeOK, context
  <2> QED BY <1>t, <1>1, <2>2, <2>3, <2>f, GateQuiet DEF EventTypes
<1>3. CASE NodeReturn(d)
  <2>1. Emit(d, "NodeCompleted", cur[d], "route", "failing")
    BY <1>3 DEF NodeReturn
  <2>2. /\ seq' = [seq EXCEPT ![d] = seq[d] + 1]
        /\ \/ Wrote1(d, "NodeCompleted", cur[d], seq[d] + 1) /\ pc' = [pc EXCEPT ![d] = "route"]
           \/ log' = log /\ pc' = [pc EXCEPT ![d] = "failing"]
    BY <1>0, <2>1, <1>y, EmitWrites
  <2>3. GateOf(d)'
    BY <1>0, <1>1, <2>2 DEF GateOf, TypeOK
  <2>f. \A e \in Drivers : e # d =>
          /\ pc'[e] = pc[e] /\ cur'[e] = cur[e] /\ bypass'[e] = bypass[e]
          /\ seq'[e] = seq[e] /\ dest'[e] = dest[e] /\ itype'[e] = itype[e]
    BY <1>0, <1>1, <2>2 DEF TypeOK, context
  <2> QED BY <1>t, <1>1, <2>2, <2>3, <2>f, GateQuiet DEF EventTypes
<1> QED BY <1>2, <1>3 DEF Execute

(* Routing either delivers a next node or goes on without one.             *)
Delivered(d) == (\E t, s : Deliver(d, t, s)) /\ pc' = [pc EXCEPT ![d] = Routed(d)]
Undelivered(d) ==
  /\ UNCHANGED <<cur, dest, itype>>
  /\ pc' = [pc EXCEPT ![d] = "failing"] \/ pc' = [pc EXCEPT ![d] = "fan"]

LEMMA RouteOutcome ==
  ASSUME TypeOK, NEW d \in Drivers, ResolveNext(d),
         ~ \E n \in Nodes : BranchCall(d, n) \/ BranchEnd(d, n)
  PROVE  /\ Delivered(d) \/ Undelivered(d)
         /\ UNCHANGED <<checkpoints, bypass>> /\ pc[d] \in {"route", "fan"}
         /\ \/ log' = log /\ seq' = seq
            \/ Emit(d, "HandoffInitiated", cur[d], Routed(d), "failing")
<1>1. CASE FollowEdge(d)
  BY <1>1 DEF FollowEdge, Goto, Delivered, store
<1>2. CASE LoopEdge(d)
  BY <1>2 DEF LoopEdge, Goto, Delivered, store
<1>3. CASE RouteRaise(d)
  BY <1>3 DEF RouteRaise, Goto, Undelivered, store, context
<1>4. CASE NoHandoff(d)
  BY <1>4 DEF NoHandoff, Goto, Delivered, store
<1>5. CASE Handoff(d)
  <2>1. pc' = [pc EXCEPT ![d] = Routed(d)] \/ pc' = [pc EXCEPT ![d] = "failing"]
    BY <1>5, EmitMoves DEF Handoff
  <2>2. CASE pc'[d] = "failing"
    <3>1. pc' = [pc EXCEPT ![d] = "failing"]
      BY <2>1, <2>2 DEF TypeOK, Routed
    <3> QED BY <1>5, <2>2, <3>1 DEF Handoff, Undelivered
  <2>3. CASE pc'[d] # "failing"
    <3>1. pc' = [pc EXCEPT ![d] = Routed(d)]
      BY <2>1, <2>3 DEF TypeOK
    <3>2. \E t, s : Deliver(d, t, s)
      BY <1>5, <2>3 DEF Handoff
    <3> QED BY <1>5, <3>1, <3>2 DEF Handoff, Delivered
  <2> QED BY <2>2, <2>3
<1>6. CASE FanOut(d)
  BY <1>6 DEF FanOut, Goto, Undelivered, store
<1>7. CASE Join(d)
  BY <1>7 DEF Join, Goto, Delivered, Undelivered, store
<1> QED BY <1>1, <1>2, <1>3, <1>4, <1>5, <1>6, <1>7 DEF ResolveNext

LEMMA GateRoute ==
  ASSUME GateInv, NEW d \in Drivers, ResolveNext(d)
  PROVE  GateInv'
<1>0. TypeOK /\ AtNode /\ GateOf(d) /\ cur[d] \in Targets \cup {EndName}
  BY DEF GateInv, TypeOK
<1>t. TypeOK' /\ AtNode'
  BY <1>0, TypeRoute
<1>y. {"HandoffInitiated", "LLMCalled"} \subseteq EventTypes \ {"NodeStarted"}
  BY DEF EventTypes
<1>1. CASE \E n \in Nodes : BranchCall(d, n) \/ BranchEnd(d, n)
  <2>1. PICK n \in Nodes : BranchCall(d, n) \/ BranchEnd(d, n)
    BY <1>1
  <2>2. UNCHANGED <<checkpoints, pc, seq, cur, bypass, dest, itype>> /\ pc[d] = "fan"
    BY <2>1 DEF BranchCall, BranchEnd, store
  <2>3. log' = log \/ Append1(d, "LLMCalled", n, 0)
    BY <2>1 DEF BranchCall, BranchEnd, store
  <2>4. n \in Targets \cup {EndName} /\ "LLMCalled" \in EventTypes
    BY <1>y DEF Targets
  <2>5. log' = log \/ Wrote1(d, "LLMCalled", n, 0)
    BY <1>0, <2>3, <2>4, AppendWrites
  <2>6. GateOf(d)'
    BY <1>0, <2>2 DEF GateOf
  <2> QED BY <1>t, <1>y, <2>2, <2>5, <2>6, GateQuiet
<1>2. CASE ~ \E n \in Nodes : BranchCall(d, n) \/ BranchEnd(d, n)
  <2>1. /\ Delivered(d) \/ Undelivered(d)
        /\ UNCHANGED <<checkpoints, bypass>> /\ pc[d] \in {"route", "fan"}
        /\ \/ log' = log /\ seq' = seq
           \/ Emit(d, "HandoffInitiated", cur[d], Routed(d), "failing")
    BY <1>0, <1>2, RouteOutcome
  <2>2. /\ \E s : log' = log \/ Wrote1(d, "HandoffInitiated", cur[d], s)
        /\ \A e \in Drivers : e # d => seq'[e] = seq[e]
    <3>1. CASE log' = log /\ seq' = seq
      BY <3>1
    <3>2. CASE Emit(d, "HandoffInitiated", cur[d], Routed(d), "failing")
      <4>1. /\ seq' = [seq EXCEPT ![d] = seq[d] + 1]
            /\ log' = log \/ Wrote1(d, "HandoffInitiated", cur[d], seq[d] + 1)
        BY <1>0, <1>y, <3>2, EmitWrites
      <4> QED BY <1>0, <4>1 DEF TypeOK
    <3> QED BY <2>1, <3>1, <3>2
  <2>3. \A e \in Drivers : e # d =>
          /\ pc'[e] = pc[e] /\ cur'[e] = cur[e] /\ bypass'[e] = bypass[e]
          /\ seq'[e] = seq[e] /\ dest'[e] = dest[e] /\ itype'[e] = itype[e]
    BY <1>0, <2>1, <2>2 DEF TypeOK, Delivered, Undelivered, Deliver
  <2>4. ~bypass[d] /\ ~bypass'[d]
    BY <1>0, <2>1 DEF GateOf
  <2>5. GateOf(d)'
    <3>1. CASE Undelivered(d)
      BY <1>0, <2>4, <3>1 DEF GateOf, Undelivered, TypeOK
    <3>2. CASE Delivered(d)
      BY <1>0, <2>4, <3>2 DEF GateOf, Delivered, Deliver, Routed, TypeOK
    <3> QED BY <2>1, <3>1, <3>2
  <2> QED BY <1>t, <1>y, <2>1, <2>2, <2>3, <2>5, GateQuiet
<1> QED BY <1>1, <1>2

LEMMA GateSettle ==
  ASSUME GateInv, NEW d \in Drivers, Settle(d) \/ Cancel(d), TypeOK', AtNode'
  PROVE  GateInv'
<1>0. TypeOK /\ GateOf(d) /\ cur[d] \in Targets \cup {EndName} /\ seq[d] \in Nat \cup {-1}
  BY DEF GateInv, TypeOK
<1>y. {"InterruptRequested", "ErrorOccurred", "ExecutionCompleted"} \subseteq
        EventTypes \ {"NodeStarted"}
  BY DEF EventTypes
<1>1. ASSUME NEW type \in {"InterruptRequested", "ErrorOccurred", "ExecutionCompleted"},
             NEW ok \in {"save", "failing2", "failing3", "finish2"},
             NEW raised \in {"failing", "raised"},
             Emit(d, type, cur[d], ok, raised), ok = "save" => itype[d] = "after",
             UNCHANGED <<checkpoints, context>>
      PROVE  GateInv'
  <2>1. /\ seq' = [seq EXCEPT ![d] = seq[d] + 1]
        /\ log' = log \/ Wrote1(d, type, cur[d], seq[d] + 1)
        /\ pc' = [pc EXCEPT ![d] = ok] \/ pc' = [pc EXCEPT ![d] = raised]
    BY <1>0, <1>y, <1>1, EmitWrites
  <2>2. UNCHANGED <<checkpoints, cur, bypass, dest, itype>>
    BY <1>1 DEF context
  <2>3. \A e \in Drivers : e # d =>
          /\ pc'[e] = pc[e] /\ cur'[e] = cur[e] /\ bypass'[e] = bypass[e]
          /\ seq'[e] = seq[e] /\ dest'[e] = dest[e] /\ itype'[e] = itype[e]
    BY <1>0, <2>1, <2>2 DEF TypeOK
  <2>4. GateOf(d)'
    BY <1>0, <1>1, <2>1, <2>2 DEF GateOf, TypeOK
  <2>5. GateInv /\ TypeOK' /\ AtNode'
    OBVIOUS
  <2> QED BY <1>y, <2>1, <2>2, <2>3, <2>4, <2>5, GateQuiet
<1>2. CASE InterruptAfter(d)
  BY <1>0, <1>1, <1>2 DEF InterruptAfter, GateOf
<1>3. CASE Fail(d)
  BY <1>1, <1>3 DEF Fail
<1>4. CASE FailCompleted(d)
  BY <1>1, <1>4 DEF FailCompleted
<1>5. CASE Finish(d)
  BY <1>1, <1>5 DEF Finish
<1>6. CASE FailStatus(d) \/ FinishStatus(d) \/ Cancel(d)
  <2>1. /\ UNCHANGED <<log, checkpoints, seq, cur, bypass, dest, itype>>
        /\ \E l \in {"failed", "done", "cancelled"} : pc' = [pc EXCEPT ![d] = l]
    BY <1>6 DEF FailStatus, FinishStatus, Cancel, Goto, AfterFailure, store, context
  <2>2. \A e \in Drivers : e # d =>
          /\ pc'[e] = pc[e] /\ cur'[e] = cur[e] /\ bypass'[e] = bypass[e]
          /\ seq'[e] = seq[e] /\ dest'[e] = dest[e] /\ itype'[e] = itype[e]
    BY <1>0, <2>1 DEF TypeOK
  <2>3. GateOf(d)'
    BY <1>0, <2>1 DEF GateOf, TypeOK
  <2> QED BY <1>y, <2>1, <2>2, <2>3, GateQuiet
<1>7. CASE SaveCheckpoint(d)
  <2> DEFINE cp == [node |-> Name(dest[d]), itype |-> itype[d], state |-> st[d],
                    seq |-> seq[d] + 1, counters |-> counters[d], order |-> order[d]]
  <2>1. /\ UNCHANGED <<log, cur, bypass, dest, itype>>
        /\ pc[d] = "save" /\ pc' = [pc EXCEPT ![d] = "interrupted"]
        /\ seq' = [seq EXCEPT ![d] = seq[d] + 1]
        /\ checkpoints' = Append(checkpoints, cp)
    BY <1>7 DEF SaveCheckpoint, Goto, context
  <2>2. \A e \in Drivers : e # d =>
          /\ pc'[e] = pc[e] /\ cur'[e] = cur[e] /\ bypass'[e] = bypass[e]
          /\ seq'[e] = seq[e] /\ dest'[e] = dest[e] /\ itype'[e] = itype[e]
    BY <1>0, <2>1 DEF TypeOK
  <2>3. GateOf(d)'
    BY <1>0, <2>1 DEF GateOf, TypeOK
  <2>4. cp.itype = "before" => Requested(log, cp.node, cp.seq - 1)
    <3> HAVE cp.itype = "before"
    <3>1. dest[d] \in Nodes /\ Requested(log, dest[d], seq[d])
      BY <1>0, <2>1 DEF GateOf
    <3>2. cp.node = dest[d] /\ cp.seq - 1 = seq[d]
      BY <1>0, <3>1, GraphAssumption DEF Name
    <3> QED BY <3>1, <3>2
  <2>5. checkpoints \in Seq(Checkpoint) /\ cp \in Checkpoint
    <3>1. seq[d] + 1 \in Nat
      BY <1>0
    <3> QED BY <1>0, <3>1 DEF TypeOK, Checkpoint, Name, Targets
  <2>6. CheckpointRequested'
    <3> SUFFICES ASSUME NEW i \in DOMAIN checkpoints', checkpoints'[i].itype = "before"
                 PROVE  Requested(log, checkpoints'[i].node, checkpoints'[i].seq - 1)
      BY <2>1 DEF CheckpointRequested
    <3>1. \/ i \in DOMAIN checkpoints /\ checkpoints'[i] = checkpoints[i]
          \/ checkpoints'[i] = cp
      <4> HIDE DEF cp
      <4> QED BY <2>1, <2>5
    <3>2. CheckpointRequested
      BY DEF GateInv
    <3> QED BY <2>4, <3>1, <3>2 DEF CheckpointRequested
  <2> QED BY <2>1, <2>2, <2>3, <2>6, GateFrame
<1>8. CASE SaveFails(d)
  <2>1. /\ UNCHANGED <<log, checkpoints, cur, bypass, dest, itype>>
        /\ pc[d] = "save" /\ pc' = [pc EXCEPT ![d] = "failing"]
        /\ seq' = [seq EXCEPT ![d] = seq[d] + 1]
    BY <1>8 DEF SaveFails, Goto, store, context
  <2>2. \A e \in Drivers : e # d =>
          /\ pc'[e] = pc[e] /\ cur'[e] = cur[e] /\ bypass'[e] = bypass[e]
          /\ seq'[e] = seq[e] /\ dest'[e] = dest[e] /\ itype'[e] = itype[e]
    BY <1>0, <2>1 DEF TypeOK
  <2>3. GateOf(d)'
    BY <1>0, <2>1 DEF GateOf, TypeOK
  <2> QED BY <1>y, <2>1, <2>2, <2>3, GateQuiet
<1> QED BY <1>2, <1>3, <1>4, <1>5, <1>6, <1>7, <1>8 DEF Settle

THEOREM GateInit == Init => GateInv
<1> SUFFICES ASSUME Init PROVE GateInv
  OBVIOUS
<1>1. TypeOK /\ AtNode
  BY TypeInit
<1>2. log = << >> /\ checkpoints = << >>
  BY DEF Init
<1>3. \A d \in Drivers : GateOf(d)
  BY DEF Init, GateOf
<1> QED BY <1>1, <1>2, <1>3 DEF GateInv, CheckpointRequested, GateHeld, GateIn

THEOREM GateStep == GateInv /\ [Next]_vars => GateInv'
<1> SUFFICES ASSUME GateInv, [Next]_vars PROVE GateInv'
  OBVIOUS
<1>t. TypeOK' /\ AtNode'
  BY TypeStep DEF GateInv
<1>1. CASE UNCHANGED vars
  BY <1>1 DEF vars, store, context, GateInv, TypeOK, AtNode, GateOf, CheckpointRequested, GateHeld
<1>2. CASE \E d \in Drivers : Step(d) \/ ResumeLoad(d) \/ Cancel(d)
  BY <1>2, <1>t, GateResume, GateLoop, GateExecute, GateRoute, GateSettle DEF Step
<1>3. CASE Fork
  <2>1. /\ Append1(Forker, "ForkCreated", Entry, 0)
        /\ UNCHANGED <<checkpoints, pc, seq, cur, bypass, dest, itype>>
    BY <1>3 DEF Fork, context
  <2>2. Wrote1(Forker, "ForkCreated", Entry, 0)
    BY <2>1, AppendWrites, GraphAssumption DEF GateInv, EventTypes, Targets
  <2> QED BY <1>t, <2>1, <2>2, DriverAssumption, GateFrame DEF Wrote1
<1> QED BY <1>1, <1>2, <1>3 DEF Next

(* Human in the loop, for every graph, store, resume policy, crash and     *)
(* number of resumes: a gated node that the loop starts was approved by a  *)
(* resume of a request to interrupt before this node, directly before.     *)
THEOREM GateIsHeld == Spec => []GateHeld
<1>1. Spec => []GateInv
  BY GateInit, GateStep, PTL DEF Spec
<1>2. GateInv => GateHeld
  BY DEF GateInv
<1> QED BY <1>1, <1>2, PTL

--------------------------------------------------------------------------------
(* What one step of one driver leaves alone.                               *)

(* At most one event, by d; at most one number of d's own counter.         *)
Logs(d) ==
  /\ log' = log \/ \E type, n, s : Wrote1(d, type, n, s)
  /\ seq' = seq \/ seq' = [seq EXCEPT ![d] = seq[d] + 1]

LEMMA EmitLogs ==
  ASSUME TypeOK, NEW d \in Drivers, NEW type \in EventTypes,
         NEW n \in Targets \cup {EndName}, NEW ok, NEW raised,
         Emit(d, type, n, ok, raised)
  PROVE  Logs(d) /\ (pc' = [pc EXCEPT ![d] = ok] \/ pc' = [pc EXCEPT ![d] = raised])
BY EmitWrites DEF Logs

LEMMA AppendLogs ==
  ASSUME TypeOK, NEW d \in Drivers, NEW n \in Nodes,
         log' = log \/ Append1(d, "LLMCalled", n, 0), seq' = seq
  PROVE  Logs(d)
<1>1. n \in Targets \cup {EndName} /\ "LLMCalled" \in EventTypes
  BY DEF Targets, EventTypes
<1> QED BY <1>1, AppendWrites DEF Logs

(* Nobody is started, and only a checkpoint leaves a driver interrupted.   *)
Moves(d) ==
  \E l \in PCs \ {"idle", "starting", "resuming"} :
    pc' = [pc EXCEPT ![d] = l] /\ (l = "interrupted" => SaveCheckpoint(d))

LEMMA Footprint ==
  ASSUME TypeOK, AtNode, NEW d \in Drivers, Step(d) \/ Cancel(d)
  PROVE  /\ pc[d] \in Active /\ latest' = latest /\ Moves(d)
         /\ pc[d] = "resuming" => ResumeEmit(d) \/ Cancel(d)
         /\ SaveCheckpoint(d) \/ (checkpoints' = checkpoints /\ Logs(d))
<1> USE DEF PCs, Active, Settled
<1>0. /\ cur[d] \in Targets \cup {EndName} /\ Entry \in Targets \cup {EndName}
      /\ pc \in [Drivers -> PCs] /\ pc[d] \in PCs
  BY GraphAssumption DEF TypeOK, Targets
<1>1. ASSUME NEW type \in EventTypes, NEW n \in Targets \cup {EndName},
             NEW ok \in PCs \ {"idle", "starting", "resuming", "interrupted"},
             NEW raised \in {"failing", "raised"},
             Emit(d, type, n, ok, raised)
      PROVE  Logs(d) /\ Moves(d)
  BY <1>1, EmitLogs DEF Moves
<1>2. ASSUME NEW l \in PCs \ {"idle", "starting", "resuming", "interrupted"}, Goto(d, l)
      PROVE  Moves(d)
  BY <1>2 DEF Moves, Goto
<1>3. CASE Start(d)
  <2>1. Emit(d, "ExecutionStarted", Entry, "loop", "raised")
    BY <1>3 DEF Start
  <2>2. Logs(d) /\ Moves(d)
    BY <1>0, <1>1, <2>1 DEF EventTypes
  <2> QED BY <1>3, <2>2 DEF Start
<1>4. CASE ResumeEmit(d)
  <2>1. Emit(d, "InterruptResumed", cur[d], "loop", "raised")
    BY <1>4 DEF ResumeEmit
  <2>2. Logs(d) /\ Moves(d)
    BY <1>0, <1>1, <2>1 DEF EventTypes
  <2> QED BY <1>4, <2>2 DEF ResumeEmit
<1>5. CASE Loop(d)
  <2>1. CASE InterruptBefore(d)
    <3>1. Emit(d, "InterruptRequested", cur[d], "save", "failing")
      BY <2>1 DEF InterruptBefore
    <3>2. Logs(d) /\ Moves(d)
      BY <1>0, <1>1, <3>1 DEF EventTypes
    <3> QED BY <2>1, <3>2 DEF InterruptBefore, NewTurn
  <2>2. CASE StartNode(d)
    <3>1. Emit(d, "NodeStarted", cur[d], "exec", "failing")
      BY <2>2 DEF StartNode
    <3>2. Logs(d) /\ Moves(d)
      BY <1>0, <1>1, <3>1 DEF EventTypes
    <3> QED BY <2>2, <3>2 DEF StartNode, NewTurn
  <2>3. CASE UnknownNode(d) \/ TurnLimit(d) \/ ReachEnd(d)
    <3>1. Moves(d)
      BY <1>2, <2>3 DEF UnknownNode, TurnLimit, ReachEnd
    <3> QED BY <2>3, <3>1 DEF UnknownNode, TurnLimit, ReachEnd, NewTurn, store, Logs
  <2> QED BY <1>5, <2>1, <2>2, <2>3 DEF Loop
<1>6. CASE Execute(d)
  <2>0. cur[d] \in Nodes
    BY <1>6 DEF AtNode, Execute, LLMCall, NodeReturn, NodeRaise
  <2>1. CASE LLMCall(d)
    <3>1. Logs(d)
      BY <2>0, <2>1, AppendLogs DEF LLMCall
    <3>2. Moves(d)
      BY <1>2, <2>1 DEF LLMCall
    <3> QED BY <2>1, <3>1, <3>2 DEF LLMCall
  <2>2. CASE NodeReturn(d)
    <3>1. Emit(d, "NodeCompleted", cur[d], "route", "failing")
      BY <2>2 DEF NodeReturn
    <3>2. Logs(d) /\ Moves(d)
      BY <1>0, <1>1, <3>1 DEF EventTypes
    <3> QED BY <2>2, <3>2 DEF NodeReturn
  <2>3. CASE NodeRaise(d)
    <3>1. Moves(d)
      BY <1>2, <2>3 DEF NodeRaise
    <3> QED BY <2>3, <3>1 DEF NodeRaise, store, Logs
  <2> QED BY <1>6, <2>1, <2>2, <2>3 DEF Execute
<1>7. CASE ResolveNext(d)
  <2>1. CASE \E n \in Nodes : BranchCall(d, n) \/ BranchEnd(d, n)
    <3>1. PICK n \in Nodes : BranchCall(d, n) \/ BranchEnd(d, n)
      BY <2>1
    <3>2. /\ UNCHANGED <<checkpoints, pc, seq, latest>> /\ pc[d] = "fan"
          /\ log' = log \/ Append1(d, "LLMCalled", n, 0)
      BY <3>1 DEF BranchCall, BranchEnd, store
    <3>3. Logs(d)
      BY <3>2, AppendLogs
    <3>4. pc' = [pc EXCEPT ![d] = "fan"]
      BY <1>0, <3>2
    <3> QED BY <3>2, <3>3, <3>4 DEF Moves
  <2>2. CASE ~ \E n \in Nodes : BranchCall(d, n) \/ BranchEnd(d, n)
    <3>1. /\ Delivered(d) \/ Undelivered(d)
          /\ checkpoints' = checkpoints /\ pc[d] \in {"route", "fan"}
          /\ \/ log' = log /\ seq' = seq
             \/ Emit(d, "HandoffInitiated", cur[d], Routed(d), "failing")
      BY <1>7, <2>2, RouteOutcome
    <3>2. Moves(d)
      BY <3>1 DEF Moves, Delivered, Undelivered, Routed
    <3>3. Logs(d)
      BY <1>0, <3>1, EmitLogs DEF Logs, EventTypes
    <3>4. latest' = latest
      BY <1>7, <2>2 DEF ResolveNext, FollowEdge, LoopEdge, RouteRaise, NoHandoff, Handoff,
                        FanOut, Join
    <3> QED BY <3>1, <3>2, <3>3, <3>4
  <2> QED BY <2>1, <2>2
<1>8. CASE Settle(d)
  <2>1. CASE InterruptAfter(d) \/ Fail(d) \/ FailCompleted(d) \/ Finish(d)
    <3>1. \/ Emit(d, "InterruptRequested", cur[d], "save", "failing")
          \/ Emit(d, "ErrorOccurred", cur[d], "failing2", "raised")
          \/ Emit(d, "ExecutionCompleted", cur[d], "failing3", "raised")
          \/ Emit(d, "ExecutionCompleted", cur[d], "finish2", "raised")
      BY <2>1 DEF InterruptAfter, Fail, FailCompleted, Finish
    <3>2. Logs(d) /\ Moves(d)
      BY <1>0, <1>1, <3>1 DEF EventTypes
    <3> QED BY <2>1, <3>2 DEF InterruptAfter, Fail, FailCompleted, Finish
  <2>2. CASE FailStatus(d) \/ FinishStatus(d)
    <3>1. Moves(d)
      BY <1>2, <2>2 DEF FailStatus, FinishStatus, AfterFailure
    <3> QED BY <2>2, <3>1 DEF FailStatus, FinishStatus, Logs
  <2>3. CASE SaveCheckpoint(d)
    <3>1. Moves(d)
      BY <2>3 DEF SaveCheckpoint, Moves, Goto
    <3> QED BY <2>3, <3>1 DEF SaveCheckpoint
  <2>4. CASE SaveFails(d)
    <3>1. Moves(d)
      BY <1>2, <2>4 DEF SaveFails
    <3> QED BY <2>4, <3>1 DEF SaveFails, store, Logs
  <2> QED BY <1>8, <2>1, <2>2, <2>3, <2>4 DEF Settle
<1>9. CASE Cancel(d)
  <2>1. Moves(d)
    BY <1>2, <1>9 DEF Cancel
  <2> QED BY <1>9, <2>1 DEF Cancel, store, Logs
<1> QED BY <1>3, <1>4, <1>5, <1>6, <1>7, <1>8, <1>9 DEF Step

(* The checkpoints a step leaves: the old ones, in place, and perhaps one  *)
(* more, with a number above that of the driver that saves it.             *)
LEMMA CheckpointSeqs == TypeOK => \A i \in DOMAIN checkpoints : checkpoints[i].seq \in Nat
<1> SUFFICES ASSUME TypeOK, NEW i \in DOMAIN checkpoints PROVE checkpoints[i].seq \in Nat
  OBVIOUS
<1>1. checkpoints[i] \in Checkpoint
  BY DEF TypeOK
<1> QED BY <1>1 DEF Checkpoint

LEMMA SaveAppends ==
  ASSUME TypeOK, NEW d \in Drivers, SaveCheckpoint(d)
  PROVE  /\ seq' = [seq EXCEPT ![d] = seq[d] + 1] /\ UNCHANGED <<log, latest>>
         /\ pc[d] = "save" /\ pc' = [pc EXCEPT ![d] = "interrupted"]
         /\ Len(checkpoints') = Len(checkpoints) + 1
         /\ \A i \in DOMAIN checkpoints : checkpoints'[i] = checkpoints[i]
         /\ checkpoints'[Len(checkpoints')].seq = seq[d] + 1
         /\ checkpoints'[Len(checkpoints')] =
              [node |-> Name(dest[d]), itype |-> itype[d], state |-> st[d],
               seq |-> seq[d] + 1, counters |-> counters[d], order |-> order[d]]
<1> DEFINE cp == [node |-> Name(dest[d]), itype |-> itype[d], state |-> st[d],
                  seq |-> seq[d] + 1, counters |-> counters[d], order |-> order[d]]
<1>1. seq[d] + 1 \in Nat
  <2>1. seq[d] \in Nat \cup {-1}
    BY DEF TypeOK
  <2> QED BY <2>1
<1>2. cp \in Checkpoint
  BY <1>1 DEF TypeOK, Checkpoint, Name, Targets
<1>3. /\ checkpoints' = Append(checkpoints, cp)
      /\ seq' = [seq EXCEPT ![d] = seq[d] + 1] /\ UNCHANGED <<log, latest>>
      /\ pc[d] = "save" /\ pc' = [pc EXCEPT ![d] = "interrupted"]
  BY DEF SaveCheckpoint, Goto
<1>4. checkpoints \in Seq(Checkpoint)
  BY DEF TypeOK
<1>5. /\ Len(checkpoints') = Len(checkpoints) + 1
      /\ \A i \in DOMAIN checkpoints : checkpoints'[i] = checkpoints[i]
      /\ checkpoints'[Len(checkpoints')] = cp
  <2> HIDE DEF cp
  <2> QED BY <1>2, <1>3, <1>4
<1> QED BY <1>3, <1>5

(* Checkpoints are numbered in the order in which they were saved.         *)
CheckpointsClimb ==
  \A i, j \in DOMAIN checkpoints : i < j => checkpoints[i].seq < checkpoints[j].seq

(* Then the highest number and the last insertion are the same checkpoint, *)
(* and every store's get_latest_checkpoint finds it.                       *)
LEMMA LastIsLatest ==
  ASSUME TypeOK, CheckpointsClimb, checkpoints # << >>
  PROVE  /\ Len(checkpoints) \in DOMAIN checkpoints
         /\ \A i \in DOMAIN checkpoints : IsLatest(i) <=> i = Len(checkpoints)
         /\ LatestCheckpoint = checkpoints[Len(checkpoints)]
<1>1. checkpoints \in Seq(Checkpoint)
  BY DEF TypeOK
<1>2. Len(checkpoints) \in 1 .. Len(checkpoints) /\ DOMAIN checkpoints = 1 .. Len(checkpoints)
  BY <1>1
<1>3. \A i \in DOMAIN checkpoints : checkpoints[i].seq \in Nat
  BY CheckpointSeqs
<1>4. IsLatest(Len(checkpoints))
  BY <1>2, <1>3 DEF IsLatest, Older, CheckpointsClimb
<1>5. ASSUME NEW i \in DOMAIN checkpoints, IsLatest(i) PROVE i = Len(checkpoints)
  <2> SUFFICES ASSUME i # Len(checkpoints) PROVE FALSE
    OBVIOUS
  <2>1. i < Len(checkpoints)
    BY <1>2
  <2>2. Older(Len(checkpoints), i)
    BY <1>2, <1>5 DEF IsLatest
  <2>3. checkpoints[i].seq < checkpoints[Len(checkpoints)].seq
    BY <1>2, <2>1 DEF CheckpointsClimb
  <2> QED BY <1>2, <1>3, <2>1, <2>2, <2>3 DEF Older
<1>6. (CHOOSE i \in DOMAIN checkpoints : IsLatest(i)) = Len(checkpoints)
  BY <1>2, <1>4, <1>5
<1> QED BY <1>2, <1>4, <1>5, <1>6 DEF LatestCheckpoint

--------------------------------------------------------------------------------
(* Callers that wait for a run nobody drives.                              *)

(* Only the driver started last can be active, and it has counted past     *)
(* every checkpoint: a resume starts from the highest one.                 *)
OneAtATime ==
  /\ TypeOK /\ AtNode
  /\ \A d \in Drivers : pc[d] \in Active => d = latest
  /\ CheckpointsClimb
  /\ \A i \in DOMAIN checkpoints : checkpoints[i].seq <= seq[latest]

LEMMA OneAtATimeInit == Init => OneAtATime
<1> SUFFICES ASSUME Init PROVE OneAtATime
  OBVIOUS
<1>1. TypeOK /\ AtNode
  BY TypeInit
<1>2. checkpoints = << >> /\ \A d \in Drivers : pc[d] \in Active => d = latest
  BY DEF Init, Active
<1> QED BY <1>1, <1>2 DEF OneAtATime, CheckpointsClimb

LEMMA OneAtATimeStep ==
  ASSUME ResumePolicy # "any", OneAtATime, [Next]_vars
  PROVE  OneAtATime'
<1>0. /\ TypeOK /\ AtNode /\ TypeOK' /\ AtNode'
      /\ checkpoints \in Seq(Checkpoint) /\ checkpoints' \in Seq(Checkpoint)
      /\ \A d \in Drivers : seq[d] \in Nat \cup {-1}
      /\ latest \in Drivers /\ latest' \in Drivers
  BY TypeStep DEF OneAtATime, TypeOK
<1>s. \A i \in DOMAIN checkpoints : checkpoints[i].seq \in Nat
  BY <1>0, CheckpointSeqs
<1>1. CASE UNCHANGED vars \/ Fork
  <2>1. UNCHANGED <<checkpoints, pc, seq, latest>>
    BY <1>1 DEF vars, store, Fork
  <2> QED BY <1>0, <2>1 DEF OneAtATime, CheckpointsClimb
<1>2. CASE \E d \in Drivers : Step(d) \/ Cancel(d)
  <2>1. PICK d \in Drivers : Step(d) \/ Cancel(d)
    BY <1>2
  <2>2. /\ d = latest /\ latest' = latest /\ Moves(d)
        /\ SaveCheckpoint(d) \/ (checkpoints' = checkpoints /\ Logs(d))
    BY <1>0, <2>1, Footprint DEF OneAtATime
  <2>3. \A e \in Drivers : pc'[e] \in Active => e = latest'
    BY <1>0, <2>2 DEF OneAtATime, Moves, TypeOK
  <2>4. CASE checkpoints' = checkpoints /\ Logs(d)
    <3>1. seq'[d] \in {seq[d], seq[d] + 1}
      BY <1>0, <2>4 DEF Logs, TypeOK
    <3>2. \A i \in DOMAIN checkpoints : checkpoints[i].seq <= seq'[d]
      BY <1>0, <1>s, <2>2, <3>1 DEF OneAtATime
    <3> QED BY <1>0, <2>2, <2>3, <2>4, <3>2 DEF OneAtATime, CheckpointsClimb
  <2>5. CASE SaveCheckpoint(d)
    <3>1. /\ seq'[d] = seq[d] + 1
          /\ Len(checkpoints') = Len(checkpoints) + 1
          /\ \A i \in DOMAIN checkpoints : checkpoints'[i] = checkpoints[i]
          /\ checkpoints'[Len(checkpoints')].seq = seq[d] + 1
      <4>1. /\ seq' = [seq EXCEPT ![d] = seq[d] + 1]
            /\ Len(checkpoints') = Len(checkpoints) + 1
            /\ \A i \in DOMAIN checkpoints : checkpoints'[i] = checkpoints[i]
            /\ checkpoints'[Len(checkpoints')].seq = seq[d] + 1
        BY <1>0, <2>5, SaveAppends, Zenon
      <4> QED BY <1>0, <4>1 DEF TypeOK
    <3>2. \A i \in DOMAIN checkpoints : checkpoints'[i].seq <= seq[d]
      BY <2>2, <3>1 DEF OneAtATime
    <3>3. \A i \in DOMAIN checkpoints' : i \in DOMAIN checkpoints \/ i = Len(checkpoints')
      BY <1>0, <3>1
    <3>4. CheckpointsClimb'
      <4> SUFFICES ASSUME NEW i \in DOMAIN checkpoints', NEW j \in DOMAIN checkpoints', i < j
                   PROVE  checkpoints'[i].seq < checkpoints'[j].seq
        BY DEF CheckpointsClimb
      <4>1. i \in DOMAIN checkpoints
        BY <1>0, <3>1, <3>3
      <4>2. CASE j \in DOMAIN checkpoints
        BY <3>1, <4>1, <4>2 DEF OneAtATime, CheckpointsClimb
      <4>3. CASE j = Len(checkpoints')
        BY <1>0, <1>s, <3>1, <3>2, <4>1, <4>3
      <4> QED BY <3>3, <4>2, <4>3
    <3>5. \A i \in DOMAIN checkpoints' : checkpoints'[i].seq <= seq'[latest']
      BY <1>0, <1>s, <2>2, <3>1, <3>2, <3>3
    <3> QED BY <1>0, <2>3, <3>4, <3>5 DEF OneAtATime
  <2> QED BY <2>2, <2>4, <2>5
<1>3. CASE \E d \in Drivers : ResumeLoad(d)
  <2>1. PICK d \in Drivers : ResumeLoad(d)
    BY <1>3
  <2>2. PICK i \in DOMAIN checkpoints :
          IsLatest(i) /\ seq' = [seq EXCEPT ![d] = checkpoints[i].seq]
    BY <2>1 DEF ResumeLoad, ResumeSeq
  <2>3. /\ \A e \in Drivers : pc[e] \notin Active
        /\ pc' = [pc EXCEPT ![d] = "resuming"] /\ latest' = d /\ checkpoints' = checkpoints
    BY <2>1 DEF ResumeLoad, MayResume, Goto, store
  <2>4. CheckpointsClimb /\ i = Len(checkpoints)
    BY <1>0, <2>2, LastIsLatest DEF OneAtATime
  <2>5. \A j \in DOMAIN checkpoints : checkpoints[j].seq <= checkpoints[i].seq
    BY <1>0, <1>s, <2>4 DEF CheckpointsClimb
  <2>6. seq'[d] = checkpoints[i].seq /\ \A e \in Drivers : pc'[e] \in Active => e = d
    BY <1>0, <2>2, <2>3 DEF TypeOK
  <2> QED BY <1>0, <2>3, <2>4, <2>5, <2>6 DEF OneAtATime, CheckpointsClimb
<1> QED BY <1>1, <1>2, <1>3 DEF Next

(* As long as nobody resumes a run that is being driven, the checkpoint a  *)
(* resume loads is the one saved last, for every graph, store, crash and   *)
(* fork: an older one never shadows it.                                    *)
THEOREM NewestIsResumed == ResumePolicy # "any" => (Spec => []NewestCheckpointWins)
<1> SUFFICES ASSUME ResumePolicy # "any" PROVE Spec => []NewestCheckpointWins
  OBVIOUS
<1>1. Spec => []OneAtATime
  <2>1. OneAtATime /\ [Next]_vars => OneAtATime'
    BY OneAtATimeStep
  <2> QED BY OneAtATimeInit, <2>1, PTL DEF Spec
<1>2. OneAtATime => NewestCheckpointWins
  BY LastIsLatest DEF OneAtATime, NewestCheckpointWins
<1> QED BY <1>1, <1>2, PTL

--------------------------------------------------------------------------------
(* Callers that do not wait, on Postgres.                                  *)

Taken(l, s) == \E i \in DOMAIN l : l[i].seq = s

(* A driver that executes the run, rather than asking to.                  *)
Executing == Active \ {"resuming"}

(* Whoever executes the run has taken the number after every checkpoint,   *)
(* the newest included, so a resume of any of them cannot log its first    *)
(* event; only once the run has been interrupted again is there a          *)
(* checkpoint whose successor is free, and then nobody executes.           *)
OneExecutes ==
  /\ TypeOK /\ AtNode
  /\ \A d, e \in Drivers : pc[d] \in Executing /\ pc[e] \in Executing => d = e
  /\ CheckpointsClimb
  /\ \A d \in Drivers : pc[d] = "resuming" =>
       \E i \in DOMAIN checkpoints : seq[d] = checkpoints[i].seq
  /\ \A i \in DOMAIN checkpoints : i # Len(checkpoints) => Taken(log, checkpoints[i].seq + 1)
  /\ \A d \in Drivers : pc[d] \in Executing =>
       \A i \in DOMAIN checkpoints :
         checkpoints[i].seq <= seq[d] /\ Taken(log, checkpoints[i].seq + 1)

LEMMA OneExecutesInit == Init => OneExecutes
<1> SUFFICES ASSUME Init PROVE OneExecutes
  OBVIOUS
<1>1. TypeOK /\ AtNode
  BY TypeInit
<1>2. /\ checkpoints = << >>
      /\ \A d \in Drivers : pc[d] \in Active => d = Starter /\ pc[d] = "starting"
  BY DEF Init, Active
<1> QED BY <1>1, <1>2 DEF OneExecutes, CheckpointsClimb, Executing, Active

(* What is taken stays taken.                                              *)
LEMMA TakenStays ==
  ASSUME TypeOK, TypeOK', NEW s, Taken(log, s),
         log' = log \/ \E d, type, n, k : Wrote1(d, type, n, k)
  PROVE  Taken(log', s)
<1>1. log \in Seq(Event) /\ log' \in Seq(Event)
  BY DEF TypeOK
<1>2. PICK i \in DOMAIN log : log[i].seq = s
  BY DEF Taken
<1>3. log' = log \/ \E d : Extends(log, log', d)
  BY DEF Wrote1
<1>4. i \in DOMAIN log' /\ log'[i] = log[i]
  BY <1>1, <1>3 DEF Extends
<1> QED BY <1>2, <1>4 DEF Taken

(* The first event of a resume: its number was free, so its checkpoint is  *)
(* the newest and nobody executes.                                         *)
LEMMA ResumeTakesOver ==
  ASSUME Store = "postgres", OneExecutes, TypeOK', NEW d \in Drivers, ResumeEmit(d)
  PROVE  /\ log' = log \/ \E type, n, s : Wrote1(d, type, n, s)
         /\ \/ pc' = [pc EXCEPT ![d] = "raised"]
            \/ /\ pc' = [pc EXCEPT ![d] = "loop"]
               /\ \A e \in Drivers : pc[e] \notin Executing
               /\ \A i \in DOMAIN checkpoints :
                    checkpoints[i].seq <= seq'[d] /\ Taken(log', checkpoints[i].seq + 1)
<1>0. /\ TypeOK /\ checkpoints \in Seq(Checkpoint) /\ log \in Seq(Event) /\ log' \in Seq(Event)
      /\ cur[d] \in Targets \cup {EndName}
  BY DEF OneExecutes, TypeOK
<1>s. \A i \in DOMAIN checkpoints : checkpoints[i].seq \in Nat
  BY <1>0, CheckpointSeqs
<1>1. /\ pc[d] = "resuming" /\ Emit(d, "InterruptResumed", cur[d], "loop", "raised")
      /\ "InterruptResumed" \in EventTypes
  BY DEF ResumeEmit, EventTypes
<1>2. PICK c \in DOMAIN checkpoints : seq[d] = checkpoints[c].seq
  BY <1>1 DEF OneExecutes
<1>3. /\ seq' = [seq EXCEPT ![d] = seq[d] + 1]
      /\ \/ Wrote1(d, "InterruptResumed", cur[d], seq[d] + 1) /\ pc' = [pc EXCEPT ![d] = "loop"]
         \/ log' = log /\ pc' = [pc EXCEPT ![d] = "raised"]
  BY <1>0, <1>1, EmitWrites
<1>4. CASE log' = log /\ Goto(d, "raised")
  BY <1>4 DEF Goto
<1>5. CASE /\ Storable(seq[d] + 1) /\ Goto(d, "loop")
           /\ Append1(d, "InterruptResumed", cur[d], seq[d] + 1)
  <2>0. Wrote1(d, "InterruptResumed", cur[d], seq[d] + 1) /\ pc' = [pc EXCEPT ![d] = "loop"]
    <3>1. Append1(d, "InterruptResumed", cur[d], seq[d] + 1)
          /\ pc' = [pc EXCEPT ![d] = "loop"]
      BY <1>5 DEF Goto
    <3>2. seq[d] + 1 \in Nat
      BY <1>2, <1>s
    <3> QED BY <1>0, <1>1, <3>1, <3>2, AppendWrites
  <2>1. ~Taken(log, checkpoints[c].seq + 1)
    BY <1>2, <1>5 DEF Storable, Taken
  <2>2. c = Len(checkpoints) /\ \A e \in Drivers : pc[e] \notin Executing
    BY <2>1 DEF OneExecutes
  <2>3. \A i \in DOMAIN checkpoints : checkpoints[i].seq <= checkpoints[c].seq
    <3>1. CheckpointsClimb /\ DOMAIN checkpoints = 1 .. Len(checkpoints)
      BY <1>0 DEF OneExecutes
    <3> QED BY <1>s, <2>2, <3>1 DEF CheckpointsClimb
  <2>4. seq'[d] = checkpoints[c].seq + 1
    BY <1>0, <1>2, <1>3 DEF TypeOK
  <2>5. log'[Len(log')].seq = checkpoints[c].seq + 1 /\ Len(log') \in DOMAIN log'
    <3>1. log'[Len(log')].seq = seq[d] + 1
      BY <2>0 DEF Wrote1
    <3> QED BY <1>0, <1>2, <2>0, <3>1 DEF Wrote1, Extends
  <2>6. \A i \in DOMAIN checkpoints : Taken(log', checkpoints[i].seq + 1)
    <3> SUFFICES ASSUME NEW i \in DOMAIN checkpoints PROVE Taken(log', checkpoints[i].seq + 1)
      OBVIOUS
    <3>1. CASE i = c
      BY <2>5, <3>1 DEF Taken, OneExecutes
    <3>2. CASE i # c
      BY <1>0, <2>0, <2>2, <3>2, TakenStays DEF OneExecutes
    <3> QED BY <3>1, <3>2
  <2> QED BY <1>s, <2>0, <2>2, <2>3, <2>4, <2>6
<1> QED BY <1>1, <1>4, <1>5 DEF Emit

LEMMA OneExecutesStep ==
  ASSUME Store = "postgres", OneExecutes, [Next]_vars
  PROVE  OneExecutes'
<1>0. /\ TypeOK /\ AtNode /\ TypeOK' /\ AtNode'
      /\ checkpoints \in Seq(Checkpoint) /\ checkpoints' \in Seq(Checkpoint)
      /\ \A d \in Drivers : seq[d] \in Nat \cup {-1}
  BY TypeStep DEF OneExecutes, TypeOK
<1>s. \A i \in DOMAIN checkpoints : checkpoints[i].seq \in Nat
  BY <1>0, CheckpointSeqs
<1>t. ASSUME NEW s, Taken(log, s), log' = log \/ \E d, type, n, k : Wrote1(d, type, n, k)
      PROVE  Taken(log', s)
  BY <1>0, <1>t, TakenStays
<1>1. CASE UNCHANGED vars \/ Fork
  <2>1. UNCHANGED <<checkpoints, pc, seq>>
    BY <1>1 DEF vars, store, Fork
  <2>2. log' = log \/ \E d, type, n, k : Wrote1(d, type, n, k)
    <3>1. Append1(Forker, "ForkCreated", Entry, 0) => Wrote1(Forker, "ForkCreated", Entry, 0)
      BY <1>0, AppendWrites, GraphAssumption DEF EventTypes, Targets
    <3> QED BY <1>1, <3>1 DEF vars, store, Fork
  <2> QED BY <1>0, <1>t, <2>1, <2>2 DEF OneExecutes, CheckpointsClimb
<1>2. CASE \E d \in Drivers : ResumeLoad(d)
  <2>1. PICK d \in Drivers : ResumeLoad(d)
    BY <1>2
  <2>2. PICK i \in DOMAIN checkpoints : seq' = [seq EXCEPT ![d] = checkpoints[i].seq]
    BY <2>1 DEF ResumeLoad, ResumeSeq
  <2>3. pc' = [pc EXCEPT ![d] = "resuming"] /\ UNCHANGED <<log, checkpoints>>
    BY <2>1 DEF ResumeLoad, Goto, store
  <2>4. /\ seq'[d] = checkpoints[i].seq /\ pc'[d] = "resuming"
        /\ \A e \in Drivers : e # d => pc'[e] = pc[e] /\ seq'[e] = seq[e]
    BY <1>0, <2>2, <2>3 DEF TypeOK
  <2>5. "resuming" \notin Executing
    BY DEF Executing
  <2> QED BY <1>0, <2>3, <2>4, <2>5 DEF OneExecutes, CheckpointsClimb
<1>3. ASSUME NEW d \in Drivers, Step(d) \/ Cancel(d) PROVE OneExecutes'
  <2>1. /\ pc[d] \in Active /\ Moves(d)
        /\ pc[d] = "resuming" => ResumeEmit(d) \/ Cancel(d)
        /\ SaveCheckpoint(d) \/ (checkpoints' = checkpoints /\ Logs(d))
    BY <1>0, <1>3, Footprint
  <2>2. /\ pc'[d] # "resuming"
        /\ \A e \in Drivers : e # d => pc'[e] = pc[e]
    BY <1>0, <2>1 DEF Moves, TypeOK
  <2>3. CASE SaveCheckpoint(d)
    <3>1. /\ seq' = [seq EXCEPT ![d] = seq[d] + 1] /\ log' = log
          /\ pc[d] = "save" /\ pc' = [pc EXCEPT ![d] = "interrupted"]
          /\ Len(checkpoints') = Len(checkpoints) + 1
          /\ \A i \in DOMAIN checkpoints : checkpoints'[i] = checkpoints[i]
          /\ checkpoints'[Len(checkpoints')].seq = seq[d] + 1
      BY <1>0, <2>3, SaveAppends, Zenon
    <3>2. pc[d] \in Executing /\ "interrupted" \notin Executing
      BY <3>1 DEF Executing, Active
    <3>3. \A e \in Drivers : pc'[e] \notin Executing
      BY <1>0, <3>1, <3>2 DEF OneExecutes, TypeOK
    <3>4. \A i \in DOMAIN checkpoints :
            checkpoints[i].seq <= seq[d] /\ Taken(log, checkpoints[i].seq + 1)
      BY <3>2 DEF OneExecutes
    <3>5. \A i \in DOMAIN checkpoints' : i \in DOMAIN checkpoints \/ i = Len(checkpoints')
      BY <1>0, <3>1
    <3>6. CheckpointsClimb'
      <4> SUFFICES ASSUME NEW i \in DOMAIN checkpoints', NEW j \in DOMAIN checkpoints', i < j
                   PROVE  checkpoints'[i].seq < checkpoints'[j].seq
        BY DEF CheckpointsClimb
      <4>1. i \in DOMAIN checkpoints
        BY <1>0, <3>1, <3>5
      <4>2. CASE j \in DOMAIN checkpoints
        BY <3>1, <4>1, <4>2 DEF OneExecutes, CheckpointsClimb
      <4>3. CASE j = Len(checkpoints')
        BY <1>0, <1>s, <3>1, <3>4, <4>1, <4>3
      <4> QED BY <3>5, <4>2, <4>3
    <3>7. \A i \in DOMAIN checkpoints' :
            i # Len(checkpoints') => Taken(log', checkpoints'[i].seq + 1)
      BY <3>1, <3>4, <3>5
    <3>8. ASSUME NEW e \in Drivers, pc'[e] = "resuming"
          PROVE  \E i \in DOMAIN checkpoints' : seq'[e] = checkpoints'[i].seq
      <4>1. pc[e] = "resuming" /\ seq'[e] = seq[e]
        BY <1>0, <2>2, <3>1, <3>8 DEF TypeOK
      <4>2. PICK i \in DOMAIN checkpoints : seq[e] = checkpoints[i].seq
        BY <4>1 DEF OneExecutes
      <4>3. i \in DOMAIN checkpoints' /\ checkpoints'[i] = checkpoints[i]
        BY <1>0, <3>1
      <4> QED BY <4>1, <4>2, <4>3
    <3> QED BY <1>0, <3>3, <3>6, <3>7, <3>8 DEF OneExecutes
  <2>4. CASE checkpoints' = checkpoints /\ Logs(d)
    <3>1. /\ \A e \in Drivers : e # d => seq'[e] = seq[e]
          /\ seq'[d] = seq[d] \/ seq'[d] = seq[d] + 1
      BY <1>0, <2>4 DEF Logs, TypeOK
    <3>2. \A i \in DOMAIN checkpoints :
            Taken(log, checkpoints[i].seq + 1) => Taken(log', checkpoints[i].seq + 1)
      BY <1>t, <2>4 DEF Logs
    <3>3. CASE pc[d] \in Executing
      <4>1. \A i \in DOMAIN checkpoints :
              checkpoints[i].seq <= seq'[d] /\ Taken(log', checkpoints[i].seq + 1)
        <5>1. \A i \in DOMAIN checkpoints :
                checkpoints[i].seq <= seq[d] /\ Taken(log, checkpoints[i].seq + 1)
          BY <3>3 DEF OneExecutes
        <5>2. \A k \in Nat, m \in Nat \cup {-1} : k <= m => k <= m + 1
          OBVIOUS
        <5>3. \A i \in DOMAIN checkpoints : checkpoints[i].seq <= seq'[d]
          BY <1>0, <1>s, <3>1, <5>1, <5>2
        <5> QED BY <3>2, <5>1, <5>3
      <4>2. \A e \in Drivers : pc'[e] \in Executing => e = d
        BY <2>2, <3>3 DEF OneExecutes
      <4> QED BY <1>0, <2>2, <2>4, <3>1, <3>2, <4>1, <4>2 DEF OneExecutes, CheckpointsClimb
    <3>4. CASE pc[d] = "resuming" /\ ResumeEmit(d)
      <4>1. \/ pc' = [pc EXCEPT ![d] = "raised"]
            \/ /\ pc' = [pc EXCEPT ![d] = "loop"]
               /\ \A e \in Drivers : pc[e] \notin Executing
               /\ \A i \in DOMAIN checkpoints :
                    checkpoints[i].seq <= seq'[d] /\ Taken(log', checkpoints[i].seq + 1)
        BY <1>0, <3>4, ResumeTakesOver
      <4>2. CASE pc' = [pc EXCEPT ![d] = "raised"]
        <5>1. pc'[d] \notin Executing
          BY <1>0, <4>2 DEF TypeOK, Executing, Active
        <5> QED BY <1>0, <2>2, <2>4, <3>1, <3>2, <5>1 DEF OneExecutes, CheckpointsClimb
      <4>3. CASE /\ \A e \in Drivers : pc[e] \notin Executing
                 /\ \A i \in DOMAIN checkpoints :
                      checkpoints[i].seq <= seq'[d] /\ Taken(log', checkpoints[i].seq + 1)
        <5>1. \A e \in Drivers : pc'[e] \in Executing => e = d
          BY <2>2, <4>3
        <5> QED BY <1>0, <2>2, <2>4, <3>1, <3>2, <4>3, <5>1 DEF OneExecutes, CheckpointsClimb
      <4> QED BY <4>1, <4>2, <4>3
    <3>5. CASE pc[d] = "resuming" /\ Cancel(d)
      <4>1. pc'[d] \notin Executing
        BY <1>0, <3>5 DEF TypeOK, Cancel, Goto, Executing, Active
      <4> QED BY <1>0, <2>2, <2>4, <3>1, <3>2, <4>1 DEF OneExecutes, CheckpointsClimb
    <3> QED BY <2>1, <3>3, <3>4, <3>5 DEF Executing
  <2> QED BY <2>1, <2>3, <2>4
<1> QED BY <1>1, <1>2, <1>3 DEF Next

(* On Postgres, UNIQUE(run_id, sequence) alone keeps a run to one driver:  *)
(* whatever is resumed, cancelled or lost and however often, of two active *)
(* drivers one has yet to log its first event.                             *)
THEOREM OneDriver == Store = "postgres" => (Spec => []SingleDriver)
<1> SUFFICES ASSUME Store = "postgres" PROVE Spec => []SingleDriver
  OBVIOUS
<1>1. Spec => []OneExecutes
  <2>1. OneExecutes /\ [Next]_vars => OneExecutes'
    BY OneExecutesStep
  <2> QED BY OneExecutesInit, <2>1, PTL DEF Spec
<1>2. OneExecutes => SingleDriver
  BY DEF OneExecutes, SingleDriver, Executing
<1> QED BY <1>1, <1>2, PTL

--------------------------------------------------------------------------------
(* The refinement.  What GraphExecution sees of the run, by where its      *)
(* latest driver is.                                                       *)

Running == {"starting", "resuming", "loop", "exec", "called", "finish", "finish2"}

Views ==
  /\ pc[latest] \in Stopped =>
       AbsAt = End /\ AbsState = EmptyState /\ AbsPhase = "failed"
  /\ pc[latest] \in Running =>
       AbsAt = AbsNode(cur[latest]) /\ AbsState = st[latest] /\ AbsPhase = "at"
  /\ pc[latest] \in {"ask", "save"} =>
       AbsAt = dest[latest] /\ AbsState = st[latest] /\ AbsPhase = "at"
  /\ pc[latest] \in {"route", "fan"} =>
       AbsAt = AbsNode(cur[latest]) /\ AbsState = st[latest] /\ AbsPhase = "ran"
  /\ pc[latest] = "done" =>
       AbsAt = AbsNode(cur[latest]) /\ AbsState = st[latest] /\ AbsPhase = "done"
  /\ pc[latest] = "interrupted" =>
       /\ AbsAt = AbsNode(LatestCheckpoint.node) /\ AbsState = LatestCheckpoint.state
       /\ AbsPhase = "at"

LEMMA ViewsHold == Views
BY DEF Views, AbsAt, AbsState, AbsPhase, Stopped, Running

LEMMA ViewsHoldNext == Views'
BY ViewsHold, PTL

(* The names of checkpoints lead back to the nodes they stand for.         *)
LEMMA NodeNames ==
  /\ \A t \in Targets : AbsNode(t) = t /\ AbsNode(Name(t)) = t
  /\ \A n \in Nodes : n \in Targets /\ n # End
  /\ End \in Targets /\ AbsNode(EndName) = End
BY GraphAssumption DEF AbsNode, Name, Targets

(* The operators of the instance are those of this module.                 *)
LEMMA SamePure ==
  /\ Abstract!EmptyState = EmptyState
  /\ \A s, fs, w : /\ Abstract!ApplyUpdate(s, fs, w) = ApplyUpdate(s, fs, w)
                   /\ Abstract!Overwrite(s, fs, w) = Overwrite(s, fs, w)
  /\ \A s, ts : Abstract!MergeParallel(s, ts) = MergeParallel(s, ts)
  /\ \A s, n : Abstract!HandoffUpdate(s, n) = HandoffUpdate(s, n)
BY DEF Abstract!EmptyState, EmptyState, Abstract!ApplyUpdate, ApplyUpdate, Abstract!Overwrite,
       Overwrite, Abstract!MergeParallel, MergeParallel, Abstract!Wrote, Wrote,
       Abstract!HandoffUpdate, HandoffUpdate

AbsStep == [Abstract!ANext]_(Abstract!avars)

(* A driver that fails, raises or is cancelled fails the abstract run, or  *)
(* goes on failing.                                                        *)
LEMMA FailureRefines ==
  ASSUME pc[latest] \in Active, pc'[latest'] \in Stopped
  PROVE  AbsStep
<1>1. AbsAt' = End /\ AbsState' = EmptyState /\ AbsPhase' = "failed"
  BY ViewsHoldNext DEF Views
<1>2. CASE pc[latest] \in Stopped
  BY <1>1, <1>2, ViewsHold DEF Views, AbsStep, Abstract!avars
<1>3. CASE pc[latest] \notin Stopped
  <2>1. AbsPhase \in {"at", "ran"}
    BY <1>3, ViewsHold DEF Views, Running, Active, Stopped
  <2> QED BY <1>1, <2>1, SamePure DEF AbsStep, Abstract!ANext, Abstract!Fail
<1> QED BY <1>2, <1>3

LEMMA StutterRefines ==
  ASSUME AbsAt' = AbsAt, AbsState' = AbsState, AbsPhase' = AbsPhase
  PROVE  AbsStep
BY DEF AbsStep, Abstract!avars

(* Nodes whose next step is lost or repeated by an interrupt after them    *)
(* have no such interrupt: of a fan-out or a handoff, interrupt_after      *)
(* keeps where to go and drops what was written on the way.                *)
Lossless == \A n \in After : Edges[n].kind \notin {"parallel", "send", "handoff"}

(* A run that finishes is at the end, and one whose branches run is at a   *)
(* node that fans out.                                                     *)
Placed ==
  /\ pc[latest] \in {"finish", "finish2"} => cur[latest] = End
  /\ pc[latest] = "fan" => Edges[cur[latest]].kind \in {"parallel", "send"}

LEMMA HeadRefines ==
  ASSUME TypeOK, AtNode, Placed, NEW d \in Drivers, d = latest,
         Start(d) \/ ResumeEmit(d) \/ Loop(d)
  PROVE  AbsStep /\ Placed'
<1>0. /\ pc \in [Drivers -> PCs] /\ cur[d] \in Targets \cup {EndName}
      /\ latest' = d /\ cur' = cur /\ st' = st /\ pc[d] \in Running /\ pc[d] \in Active
      /\ dest \in [Drivers -> Targets]
  BY DEF TypeOK, PCs, Running, Active, Start, ResumeEmit, Loop, UnknownNode, InterruptBefore,
         StartNode, TurnLimit, ReachEnd, NewTurn, context
<1>v. AbsAt = AbsNode(cur[d]) /\ AbsState = st[d] /\ AbsPhase = "at"
  BY <1>0, ViewsHold DEF Views
<1>1. CASE InterruptBefore(d)
  <2>1. /\ pc' = [pc EXCEPT ![d] = "save"] \/ pc' = [pc EXCEPT ![d] = "failing"]
        /\ cur[d] \in Nodes /\ dest' = [dest EXCEPT ![d] = cur[d]]
    BY <1>1, EmitMoves, GraphAssumption DEF InterruptBefore
  <2>2. CASE pc' = [pc EXCEPT ![d] = "save"]
    <3>1. pc'[latest'] = "save" /\ dest'[latest'] = cur[d]
      BY <1>0, <2>1, <2>2
    <3>2. AbsAt' = cur[d] /\ AbsState' = st[d] /\ AbsPhase' = "at"
      BY <1>0, <3>1, ViewsHoldNext DEF Views
    <3>3. AbsNode(cur[d]) = cur[d]
      BY <2>1, NodeNames
    <3> QED BY <1>v, <3>1, <3>2, <3>3, StutterRefines DEF Placed
  <2>3. CASE pc' = [pc EXCEPT ![d] = "failing"]
    <3>1. pc'[latest'] = "failing"
      BY <1>0, <2>3
    <3> QED BY <1>0, <3>1, FailureRefines DEF Stopped, Placed
  <2> QED BY <2>1, <2>2, <2>3
<1>2. CASE ~InterruptBefore(d)
  <2>1. \/ pc'[d] \in {"loop", "exec", "finish"} /\ (pc'[d] = "finish" => cur[d] = End)
        \/ pc'[d] \in {"raised", "failing"}
    <3>1. CASE Start(d) \/ ResumeEmit(d) \/ StartNode(d)
      BY <3>1, EmitMoves DEF Start, ResumeEmit, StartNode
    <3>2. CASE UnknownNode(d) \/ TurnLimit(d) \/ ReachEnd(d)
      BY <3>2, GotoMoves DEF UnknownNode, TurnLimit, ReachEnd
    <3> QED BY <1>2, <3>1, <3>2 DEF Loop
  <2>2. CASE pc'[d] \in {"loop", "exec", "finish"} /\ (pc'[d] = "finish" => cur[d] = End)
    <3>1. AbsAt' = AbsNode(cur[d]) /\ AbsState' = st[d] /\ AbsPhase' = "at"
      BY <1>0, <2>2, ViewsHoldNext DEF Views, Running
    <3>2. Placed'
      BY <1>0, <2>2 DEF Placed
    <3> QED BY <1>v, <3>1, <3>2, StutterRefines
  <2>3. CASE pc'[d] \in {"raised", "failing"}
    BY <1>0, <2>3, FailureRefines DEF Stopped, Placed
  <2> QED BY <2>1, <2>2, <2>3
<1> QED BY <1>1, <1>2

LEMMA NodeRefines ==
  ASSUME TypeOK, AtNode, NEW d \in Drivers, d = latest, Execute(d)
  PROVE  AbsStep /\ Placed'
<1>0. /\ cur[d] \in Nodes /\ latest' = d /\ cur' = cur /\ pc[d] \in Running /\ pc[d] \in Active
      /\ st \in [Drivers -> State]
  BY DEF TypeOK, AtNode, Running, Active, Execute, LLMCall, NodeReturn, NodeRaise, context
<1>v. AbsAt = cur[d] /\ AbsState = st[d] /\ AbsPhase = "at"
  BY <1>0, ViewsHold, NodeNames DEF Views
<1>1. CASE pc'[d] = "failing"
  BY <1>0, <1>1, FailureRefines DEF Stopped, Placed
<1>2. CASE LLMCall(d) /\ pc'[d] # "failing"
  <2>1. pc'[d] = "called" /\ st' = st
    BY <1>2, GotoMoves DEF LLMCall, context
  <2>2. AbsAt' = cur[d] /\ AbsState' = st[d] /\ AbsPhase' = "at"
    BY <1>0, <2>1, ViewsHoldNext, NodeNames DEF Views, Running
  <2> QED BY <1>0, <1>v, <2>1, <2>2, StutterRefines DEF Placed
<1>3. CASE NodeReturn(d) /\ pc'[d] # "failing"
  <2>1. /\ pc'[d] = "route"
        /\ st' = [st EXCEPT ![d] = ApplyUpdate(st[d], Writes[cur[d]], cur[d])]
    BY <1>3, EmitMoves DEF NodeReturn
  <2>2. st'[d] = ApplyUpdate(st[d], Writes[cur[d]], cur[d])
    BY <1>0, <2>1
  <2>3. AbsAt' = cur[d] /\ AbsState' = st'[d] /\ AbsPhase' = "ran"
    BY <1>0, <2>1, ViewsHoldNext, NodeNames DEF Views
  <2>4. Abstract!RunNode
    BY <1>0, <1>v, <2>2, <2>3, SamePure DEF Abstract!RunNode
  <2> QED BY <1>0, <2>1, <2>4 DEF AbsStep, Abstract!ANext, Placed
<1>4. CASE NodeRaise(d)
  BY <1>1, <1>4, GotoMoves DEF NodeRaise
<1> QED BY <1>1, <1>2, <1>3, <1>4 DEF Execute

(* Where Deliver leaves the run, whether or not it interrupts after.       *)
LEMMA DeliverViews ==
  ASSUME TypeOK, AtNode, NEW d \in Drivers, d = latest, latest' = latest, cur[d] \in Nodes,
         NEW t \in Targets, NEW s, Deliver(d, t, s), pc' = [pc EXCEPT ![d] = Routed(d)],
         cur[d] \in After => s = st[d]
  PROVE  AbsAt' = t /\ AbsState' = s /\ AbsPhase' = "at" /\ Placed'
<1>0. pc \in [Drivers -> PCs] /\ cur \in [Drivers -> Targets \cup {EndName}]
      /\ dest \in [Drivers -> Targets] /\ st \in [Drivers -> State]
  BY DEF TypeOK, PCs
<1>1. CASE cur[d] \in After
  <2>1. pc'[latest'] = "ask" /\ dest'[latest'] = t /\ st'[latest'] = s
    BY <1>0, <1>1 DEF Routed, Deliver, ResumePoint
  <2> QED BY <2>1, ViewsHoldNext DEF Views, Placed
<1>2. CASE cur[d] \notin After
  <2>1. pc'[latest'] = "loop" /\ cur'[latest'] = t /\ st'[latest'] = s
    BY <1>0, <1>2 DEF Routed, Deliver
  <2>2. AbsNode(t) = t
    BY NodeNames
  <2> QED BY <2>1, <2>2, ViewsHoldNext DEF Views, Running, Placed
<1> QED BY <1>1, <1>2

LEMMA RouteRefines ==
  ASSUME Lossless, TypeOK, AtNode, Placed, NEW d \in Drivers, d = latest, ResolveNext(d)
  PROVE  AbsStep /\ Placed'
<1>0. /\ cur[d] \in Nodes /\ latest' = latest /\ pc[d] \in {"route", "fan"} /\ pc[d] \in Active
      /\ pc \in [Drivers -> PCs] /\ cur \in [Drivers -> Targets \cup {EndName}]
      /\ st \in [Drivers -> State] /\ st[d] \in State
  BY DEF TypeOK, AtNode, PCs, Active, ResolveNext, FollowEdge, LoopEdge, RouteRaise, NoHandoff,
         Handoff, FanOut, Join, BranchCall, BranchEnd
<1>v. AbsAt = cur[d] /\ AbsState = st[d] /\ AbsPhase = "ran"
  BY <1>0, ViewsHold, NodeNames DEF Views
<1>e. /\ Edges[cur[d]].exits \subseteq Targets /\ Edges[cur[d]].join \in Targets
      /\ End \in Targets /\ cur[d] \in Targets
      /\ cur[d] \in After => Edges[cur[d]].kind \notin {"parallel", "send", "handoff"}
  BY <1>0, EdgeParts, NodeNames DEF Lossless
<1>f. ASSUME pc'[d] = "failing" PROVE AbsStep /\ Placed'
  BY <1>0, <1>f, FailureRefines DEF Stopped, Placed
<1>d. ASSUME NEW t \in Targets, NEW s, Deliver(d, t, s), pc' = [pc EXCEPT ![d] = Routed(d)],
             cur[d] \in After => s = st[d]
      PROVE  AbsAt' = t /\ AbsState' = s /\ AbsPhase' = "at" /\ Placed'
  BY <1>0, <1>d, DeliverViews
<1>1. CASE FollowEdge(d)
  <2>1. PICK t \in IF Edges[cur[d]].kind = "none" THEN {End} ELSE Edges[cur[d]].exits :
          Deliver(d, t, st[d])
    BY <1>1 DEF FollowEdge, Edge
  <2>2. /\ pc' = [pc EXCEPT ![d] = Routed(d)] /\ t \in Targets
        /\ Edges[cur[d]].kind \in {"none", "edge", "conditional"}
    BY <1>1, <1>e, <2>1 DEF FollowEdge, Goto, Edge
  <2>3. AbsAt' = t /\ AbsState' = st[d] /\ AbsPhase' = "at" /\ Placed'
    BY <1>d, <2>1, <2>2
  <2>4. Abstract!Route
    BY <1>v, <2>1, <2>2, <2>3 DEF Abstract!Route
  <2> QED BY <2>3, <2>4 DEF AbsStep, Abstract!ANext
<1>2. CASE LoopEdge(d)
  <2>1. PICK t \in {cur[d], End} : Deliver(d, t, st[d])
    BY <1>2 DEF LoopEdge
  <2>2. pc' = [pc EXCEPT ![d] = Routed(d)] /\ t \in Targets /\ Edges[cur[d]].kind = "loop"
    BY <1>2, <1>e, <2>1 DEF LoopEdge, Goto, Edge
  <2>3. AbsAt' = t /\ AbsState' = st[d] /\ AbsPhase' = "at" /\ Placed'
    BY <1>d, <2>1, <2>2
  <2>4. Abstract!Route
    BY <1>v, <2>1, <2>2, <2>3 DEF Abstract!Route
  <2> QED BY <2>3, <2>4 DEF AbsStep, Abstract!ANext
<1>3. CASE RouteRaise(d)
  BY <1>f, <1>3, GotoMoves DEF RouteRaise
<1>4. CASE NoHandoff(d)
  <2>1. /\ Deliver(d, End, st[d]) /\ pc' = [pc EXCEPT ![d] = Routed(d)]
        /\ Edges[cur[d]].kind = "handoff"
    BY <1>4 DEF NoHandoff, Goto, Edge
  <2>2. AbsAt' = End /\ AbsState' = st[d] /\ AbsPhase' = "at" /\ Placed'
    BY <1>d, <1>e, <2>1
  <2>3. Abstract!Route
    BY <1>v, <2>1, <2>2 DEF Abstract!Route
  <2> QED BY <2>2, <2>3 DEF AbsStep, Abstract!ANext
<1>5. CASE Handoff(d)
  <2>1. CASE pc'[d] = "failing"
    BY <1>f, <2>1
  <2>2. CASE pc'[d] # "failing"
    <3>1. PICK t \in Edges[cur[d]].exits : Deliver(d, t, HandoffUpdate(st[d], cur[d]))
      BY <1>5, <2>2 DEF Handoff, Edge
    <3>2. pc' = [pc EXCEPT ![d] = Routed(d)] /\ Edges[cur[d]].kind = "handoff"
      BY <1>0, <1>5, <2>2 DEF Handoff, Emit, Goto, Edge
    <3>3. /\ AbsAt' = t /\ AbsState' = HandoffUpdate(st[d], cur[d]) /\ AbsPhase' = "at"
          /\ Placed'
      BY <1>d, <1>e, <3>1, <3>2
    <3>4. Abstract!Route
      BY <1>v, <3>1, <3>2, <3>3, SamePure DEF Abstract!Route
    <3> QED BY <3>3, <3>4 DEF AbsStep, Abstract!ANext
  <2> QED BY <2>1, <2>2
<1>6. CASE FanOut(d) \/ \E n \in Nodes : BranchCall(d, n) \/ BranchEnd(d, n)
  <2>1. pc'[latest'] = "fan" /\ cur' = cur /\ st' = st
    BY <1>0, <1>6 DEF FanOut, BranchCall, BranchEnd, Goto
  <2>2. AbsAt' = cur[d] /\ AbsState' = st[d] /\ AbsPhase' = "ran"
    BY <1>0, <2>1, ViewsHoldNext, NodeNames DEF Views
  <2>3. Edges[cur[d]].kind \in {"parallel", "send"}
    BY <1>6 DEF FanOut, Edge, BranchCall, BranchEnd, Placed
  <2>4. Placed'
    BY <1>0, <2>1, <2>3 DEF Placed
  <2> QED BY <1>v, <2>2, <2>4, StutterRefines
<1>7. CASE Join(d)
  <2>1. CASE \E n \in Branches(d) : branch[d][n] = "err"
    <3>1. Goto(d, "failing")
      BY <1>7, <2>1 DEF Join
    <3> QED BY <1>f, <3>1, GotoMoves
  <2>2. CASE ~ \E n \in Branches(d) : branch[d][n] = "err"
    <3> DEFINE t == IF Edges[cur[d]].kind = "send" THEN End ELSE Edges[cur[d]].join
               s == MergeParallel(st[d], Edges[cur[d]].to)
    <3>1. Deliver(d, t, s) /\ pc' = [pc EXCEPT ![d] = Routed(d)] /\ t \in Targets
      BY <1>7, <1>e, <2>2 DEF Join, Goto, Edge
    <3>2. Edges[cur[d]].kind \in {"parallel", "send"}
      BY <1>7 DEF Join, Placed
    <3>3. AbsAt' = t /\ AbsState' = s /\ AbsPhase' = "at" /\ Placed'
      BY <1>d, <1>e, <3>1, <3>2
    <3>4. Abstract!Route
      BY <1>v, <3>2, <3>3, SamePure DEF Abstract!Route
    <3> QED BY <3>3, <3>4 DEF AbsStep, Abstract!ANext
  <2> QED BY <2>1, <2>2
<1> QED BY <1>1, <1>2, <1>3, <1>4, <1>5, <1>6, <1>7 DEF ResolveNext

LEMMA NewestView ==
  TypeOK /\ CheckpointsClimb /\ checkpoints # << >> =>
    LatestCheckpoint = checkpoints[Len(checkpoints)]
BY LastIsLatest

LEMMA NewestViewNext ==
  (TypeOK /\ CheckpointsClimb /\ checkpoints # << >> =>
     LatestCheckpoint = checkpoints[Len(checkpoints)])'
BY NewestView, PTL

LEMMA SettleRefines ==
  ASSUME OneAtATime, OneAtATime', Placed, NEW d \in Drivers, d = latest, Settle(d) \/ Cancel(d)
  PROVE  AbsStep /\ Placed'
<1>0. /\ TypeOK /\ pc \in [Drivers -> PCs] /\ pc[d] \in Active /\ dest[d] \in Targets
      /\ latest' = d /\ cur' = cur /\ st' = st /\ dest' = dest
  BY DEF OneAtATime, TypeOK, PCs, Active, Settle, Cancel, InterruptAfter, SaveCheckpoint,
         SaveFails, Fail, FailCompleted, FailStatus, Finish, FinishStatus, context
<1>f. ASSUME pc'[d] \in {"failing", "failing2", "failing3", "failed", "raised", "cancelled"}
      PROVE  AbsStep /\ Placed'
  BY <1>0, <1>f, FailureRefines DEF Stopped, Placed
<1>1. CASE InterruptAfter(d)
  <2>1. pc[d] = "ask" /\ pc'[d] \in {"save", "failing"}
    BY <1>0, <1>1, EmitMoves DEF InterruptAfter
  <2>2. CASE pc'[d] = "save"
    <3>1. AbsAt = dest[d] /\ AbsState = st[d] /\ AbsPhase = "at"
      BY <1>0, <2>1, ViewsHold DEF Views
    <3>2. AbsAt' = dest[d] /\ AbsState' = st[d] /\ AbsPhase' = "at"
      BY <1>0, <2>2, ViewsHoldNext DEF Views
    <3> QED BY <1>0, <2>2, <3>1, <3>2, StutterRefines DEF Placed
  <2> QED BY <1>f, <2>1, <2>2
<1>2. CASE SaveCheckpoint(d)
  <2> DEFINE cp == [node |-> Name(dest[d]), itype |-> itype[d], state |-> st[d],
                    seq |-> seq[d] + 1, counters |-> counters[d], order |-> order[d]]
  <2>1. /\ pc[d] = "save" /\ pc' = [pc EXCEPT ![d] = "interrupted"]
        /\ Len(checkpoints') = Len(checkpoints) + 1
        /\ checkpoints'[Len(checkpoints')] = cp
    BY <1>0, <1>2, SaveAppends, Zenon
  <2>2. cp.node = Name(dest[d]) /\ cp.state = st[d]
    OBVIOUS
  <2> HIDE DEF cp
  <2>3. checkpoints' # << >>
    <3>1. checkpoints \in Seq(Checkpoint) /\ checkpoints' \in Seq(Checkpoint)
      BY DEF OneAtATime, TypeOK
    <3> QED BY <2>1, <3>1
  <2>4. LatestCheckpoint' = cp
    BY <2>1, <2>3, NewestViewNext DEF OneAtATime
  <2>5. AbsAt = dest[d] /\ AbsState = st[d] /\ AbsPhase = "at"
    BY <1>0, <2>1, ViewsHold DEF Views
  <2>6. pc'[latest'] = "interrupted"
    BY <1>0, <2>1
  <2>7. AbsAt' = AbsNode(cp.node) /\ AbsState' = cp.state /\ AbsPhase' = "at"
    BY <2>4, <2>6, ViewsHoldNext DEF Views
  <2>8. AbsNode(cp.node) = dest[d]
    BY <1>0, <2>2, NodeNames
  <2> QED BY <2>2, <2>5, <2>6, <2>7, <2>8, StutterRefines DEF Placed
<1>3. CASE Fail(d) \/ FailCompleted(d)
  BY <1>0, <1>3, <1>f, EmitMoves DEF Fail, FailCompleted
<1>4. CASE FailStatus(d) \/ SaveFails(d) \/ Cancel(d)
  BY <1>0, <1>4, <1>f, GotoMoves DEF FailStatus, SaveFails, Cancel, AfterFailure
<1>5. CASE Finish(d)
  <2>1. pc[d] = "finish" /\ pc'[d] \in {"finish2", "raised"}
    BY <1>0, <1>5, EmitMoves DEF Finish
  <2>2. CASE pc'[d] = "finish2"
    <3>1. AbsAt = AbsNode(cur[d]) /\ AbsState = st[d] /\ AbsPhase = "at"
      BY <1>0, <2>1, ViewsHold DEF Views, Running
    <3>2. AbsAt' = AbsNode(cur[d]) /\ AbsState' = st[d] /\ AbsPhase' = "at"
      BY <1>0, <2>2, ViewsHoldNext DEF Views, Running
    <3> QED BY <1>0, <2>1, <2>2, <3>1, <3>2, StutterRefines DEF Placed
  <2> QED BY <1>f, <2>1, <2>2
<1>6. CASE FinishStatus(d)
  <2>1. pc[d] = "finish2" /\ pc'[d] = "done" /\ cur[d] = End
    BY <1>0, <1>6, GotoMoves DEF FinishStatus, Placed
  <2>2. AbsAt = End /\ AbsState = st[d] /\ AbsPhase = "at"
    BY <1>0, <2>1, ViewsHold, NodeNames DEF Views, Running
  <2>3. AbsAt' = End /\ AbsState' = st[d] /\ AbsPhase' = "done"
    BY <1>0, <2>1, ViewsHoldNext, NodeNames DEF Views
  <2>4. Abstract!Finish
    BY <2>2, <2>3 DEF Abstract!Finish
  <2> QED BY <1>0, <2>1, <2>4 DEF AbsStep, Abstract!ANext, Placed
<1> QED BY <1>1, <1>2, <1>3, <1>4, <1>5, <1>6 DEF Settle

LEMMA ResumeRefines ==
  ASSUME ResumePolicy = "interrupted", OneAtATime, NEW d \in Drivers, ResumeLoad(d)
  PROVE  AbsStep /\ Placed'
<1>0. /\ pc \in [Drivers -> PCs] /\ cur \in [Drivers -> Targets \cup {EndName}]
      /\ st \in [Drivers -> State]
  BY DEF OneAtATime, TypeOK, PCs
<1>1. /\ pc[latest] = "interrupted" /\ pc' = [pc EXCEPT ![d] = "resuming"] /\ latest' = d
  BY DEF ResumeLoad, MayResume, Goto
<1>2. PICK i \in DOMAIN checkpoints, fs \in HumanWrites :
        /\ IsLatest(i)
        /\ st' = [st EXCEPT ![d] = Overwrite(checkpoints[i].state, fs, Human)]
        /\ cur' = [cur EXCEPT ![d] = checkpoints[i].node]
  BY DEF ResumeLoad
<1>3. checkpoints[i] = LatestCheckpoint
  <2>1. TypeOK /\ CheckpointsClimb /\ checkpoints # << >>
    BY <1>2 DEF OneAtATime
  <2> QED BY <1>2, <2>1, LastIsLatest
<1>4. /\ AbsAt = AbsNode(checkpoints[i].node) /\ AbsState = checkpoints[i].state
      /\ AbsPhase = "at"
  BY <1>1, <1>3, ViewsHold DEF Views
<1>5. /\ pc'[latest'] = "resuming" /\ cur'[latest'] = checkpoints[i].node
      /\ st'[latest'] = Overwrite(checkpoints[i].state, fs, Human)
  BY <1>0, <1>1, <1>2
<1>6. /\ AbsAt' = AbsNode(checkpoints[i].node)
      /\ AbsState' = Overwrite(checkpoints[i].state, fs, Human) /\ AbsPhase' = "at"
  BY <1>5, ViewsHoldNext DEF Views, Running
<1>7. Abstract!Edit
  BY <1>4, <1>6, SamePure DEF Abstract!Edit
<1> QED BY <1>5, <1>7 DEF AbsStep, Abstract!ANext, Placed

LEMMA RunRefines ==
  ASSUME ResumePolicy = "interrupted", Lossless,
         OneAtATime, OneAtATime', Placed, [Next]_vars
  PROVE  AbsStep /\ Placed'
<1>0. TypeOK /\ AtNode /\ \A d \in Drivers : pc[d] \in Active => d = latest
  BY DEF OneAtATime
<1>1. CASE UNCHANGED vars \/ Fork
  <2>1. UNCHANGED <<checkpoints, pc, cur, st, dest, latest>>
    BY <1>1 DEF vars, store, context, Fork
  <2>2. AbsAt' = AbsAt /\ AbsState' = AbsState /\ AbsPhase' = AbsPhase
    BY <2>1 DEF AbsAt, AbsState, AbsPhase, LatestCheckpoint, IsLatest, Older
  <2> QED BY <2>1, <2>2, StutterRefines DEF Placed
<1>2. ASSUME NEW d \in Drivers, Step(d) \/ Cancel(d) PROVE AbsStep /\ Placed'
  <2>1. d = latest
    BY <1>0, <1>2, Footprint
  <2> QED BY <1>0, <1>2, <2>1, HeadRefines, NodeRefines, RouteRefines, SettleRefines DEF Step
<1>3. ASSUME NEW d \in Drivers, ResumeLoad(d) PROVE AbsStep /\ Placed'
  BY <1>3, ResumeRefines
<1> QED BY <1>1, <1>2, <1>3 DEF Next

(* Where callers resume a run that returned as interrupted, and no node    *)
(* with interrupt_after fans out or hands off, every run implements        *)
(* GraphExecution, for every graph, store, cancellation, fork and number   *)
(* of interrupts: however it is cut into drivers, the run executes what an *)
(* uninterrupted one would, on the same states.                            *)
THEOREM RunIsTransparent ==
  ResumePolicy = "interrupted" /\ Lossless => (Spec => InterruptsAreTransparent)
<1> SUFFICES ASSUME ResumePolicy = "interrupted", Lossless
             PROVE  Spec => InterruptsAreTransparent
  OBVIOUS
<1>1. Init => OneAtATime /\ Placed /\ Abstract!AInit
  <2> SUFFICES ASSUME Init PROVE Placed /\ Abstract!AInit
    BY OneAtATimeInit
  <2>1. /\ pc[latest] = "starting" /\ cur[latest] = Entry /\ st[latest] = EmptyState
    BY DriverAssumption DEF Init
  <2>2. AbsAt = Entry /\ AbsState = EmptyState /\ AbsPhase = "at"
    BY <2>1, ViewsHold, NodeNames, GraphAssumption DEF Views, Running
  <2> QED BY <2>1, <2>2, SamePure DEF Placed, Abstract!AInit
<1>2. OneAtATime /\ [Next]_vars => OneAtATime'
  BY OneAtATimeStep
<1>3. OneAtATime /\ OneAtATime' /\ Placed /\ [Next]_vars =>
        Placed' /\ [Abstract!ANext]_(Abstract!avars)
  BY RunRefines DEF AbsStep
<1> QED BY <1>1, <1>2, <1>3, PTL DEF Spec, InterruptsAreTransparent, Abstract!ASpec

--------------------------------------------------------------------------------
(***************************************************************************)
(* The event log that a run leaves behind, across all the drivers that     *)
(* resume it: its numbers, its end, its agreement with the checkpoints and *)
(* the stored status, and the iterations of its loops.                     *)
(***************************************************************************)

(* The runs the theorems are about.  Each of the first four would put an   *)
(* event with a low number into the log, or leave the status to the event  *)
(* type or unset.                                                          *)
Ordered ==
  /\ ResumePolicy = "interrupted"
  /\ Agents = {} /\ MaxForks = 0
  /\ Store # "memory" /\ Recorded

(* Those whose checkpoints also keep the execution order and the loop      *)
(* counters, which Postgres does not; and a loop node always runs once, so *)
(* a limit of 0 is exceeded.                                               *)
Keeping == Store # "postgres"
Orderly ==
  /\ Ordered /\ Keeping
  /\ \A n \in Nodes : Edges[n].kind = "loop" => Edges[n].limit # 0

--------------------------------------------------------------------------------
(* Counting positions.                                                     *)

(* S extended by a position behind all of it.                              *)
LEMMA OneMore ==
  ASSUME NEW S \in SUBSET Nat, IsFiniteSet(S), NEW k \in Nat, \A i \in S : i < k
  PROVE  /\ Cardinality(S) \in Nat /\ Cardinality(S \cup {k}) = Cardinality(S) + 1
         /\ {j \in S \cup {k} : j <= k} = S \cup {k}
         /\ \A i \in S : /\ {j \in S \cup {k} : j <= i} = {j \in S : j <= i}
                         /\ Cardinality({j \in S : j <= i}) \in 1 .. Cardinality(S)
<1>1. k \notin S /\ Cardinality(S) \in Nat
  BY FS_CardinalityType
<1>2. Cardinality(S \cup {k}) = Cardinality(S) + 1
  BY <1>1, FS_AddElement
<1>3. {j \in S \cup {k} : j <= k} = S \cup {k}
  <2>1. \A j \in S \cup {k} : j <= k
    OBVIOUS
  <2> QED BY <2>1, Zenon
<1>4. ASSUME NEW i \in S
      PROVE  /\ {j \in S \cup {k} : j <= i} = {j \in S : j <= i}
             /\ Cardinality({j \in S : j <= i}) \in 1 .. Cardinality(S)
  <2> DEFINE T == {j \in S : j <= i}
  <2>1. {j \in S \cup {k} : j <= i} = T
    OBVIOUS
  <2>2. T \in SUBSET S /\ T # {}
    OBVIOUS
  <2>3. IsFiniteSet(T) /\ Cardinality(T) <= Cardinality(S)
    BY <2>2, FS_Subset
  <2>4. Cardinality(T) \in Nat /\ Cardinality(T) # 0
    BY <2>2, <2>3, FS_EmptySet, FS_CardinalityType
  <2> QED BY <1>1, <2>1, <2>3, <2>4
<1> QED BY <1>1, <1>2, <1>3, <1>4

(* An event more, and its node, keep a list of completed nodes in step     *)
(* with the log.                                                           *)
LEMMA ListsOneMore ==
  ASSUME NEW o \in Seq(Nodes), NEW l \in Seq(Event), NEW m \in Seq(Event), NEW by,
         Extends(l, m, by), NEW S \in SUBSET (DOMAIN l), Lists(o, l, S),
         NEW n \in Nodes, m[Len(m)].node = n
  PROVE  Lists(Append(o, n), m, S \cup {Len(m)})
<1> DEFINE k == Len(m)
           U == S \cup {k}
<1>0. Len(l) \in Nat /\ k = Len(l) + 1 /\ \A i \in 1 .. Len(l) : m[i] = l[i]
  BY DEF Extends
<1>1. S \in SUBSET Nat /\ IsFiniteSet(S) /\ \A i \in S : i < k /\ m[i] = l[i]
  <2>1. S \in SUBSET (1 .. Len(l)) /\ IsFiniteSet(1 .. Len(l))
    <3>1. DOMAIN l = 1 .. Len(l) /\ IsFiniteSet(1 .. Len(l))
      BY <1>0, FS_Interval
    <3> QED BY <3>1
  <2> QED BY <1>0, <2>1, FS_Subset
<1>2. k \in Nat
  BY <1>0
<1>3. /\ Cardinality(S) \in Nat /\ Cardinality(U) = Cardinality(S) + 1
      /\ {j \in U : j <= k} = U
      /\ \A i \in S : /\ {j \in U : j <= i} = {j \in S : j <= i}
                      /\ Cardinality({j \in S : j <= i}) \in 1 .. Cardinality(S)
  BY <1>1, <1>2, OneMore
<1>4. Len(o) = Cardinality(S) /\ \A i \in S : o[Cardinality({j \in S : j <= i})] = l[i].node
  BY DEF Lists
<1>5. /\ Len(Append(o, n)) = Cardinality(S) + 1
      /\ \A c \in 1 .. Cardinality(S) : Append(o, n)[c] = o[c]
      /\ Append(o, n)[Cardinality(S) + 1] = n
  BY <1>3, <1>4
<1>6. ASSUME NEW i \in U PROVE Append(o, n)[Cardinality({j \in U : j <= i})] = m[i].node
  <2>1. CASE i = k
    BY <1>3, <1>5, <2>1
  <2>2. CASE i \in S
    BY <1>1, <1>3, <1>4, <1>5, <2>2
  <2> QED BY <2>1, <2>2
<1> QED BY <1>3, <1>5, <1>6 DEF Lists

(* Nothing changes for positions the new event is not among.               *)
LEMMA ListsStay ==
  ASSUME NEW o, NEW l \in Seq(Event), NEW m \in Seq(Event), NEW by,
         m = l \/ Extends(l, m, by), NEW S \in SUBSET (DOMAIN l), Lists(o, l, S)
  PROVE  Lists(o, m, S)
<1>1. \A i \in S : m[i] = l[i]
  BY DEF Extends
<1> QED BY <1>1 DEF Lists

--------------------------------------------------------------------------------
(* What a step writes, in a run without agents.                            *)

(* Where a driver is whose ExecutionCompleted may be in the log.           *)
Over == {"failing3", "failed", "finish2", "done", "cancelled"}

(* d logs one event, with the next of its numbers; a completed node also   *)
(* joins its execution order.                                              *)
Says(d, type, n) ==
  /\ Wrote1(d, type, n, seq[d] + 1) /\ seq'[d] = seq[d] + 1
  /\ pc[d] \notin Over
  /\ type = "ExecutionCompleted" => pc'[d] \in Over
  /\ type = "NodeCompleted" => n \in Nodes /\ order'[d] = Append(order[d], n)
  /\ type # "NodeCompleted" => order'[d] = order[d]

Silent(d) ==
  /\ log' = log /\ seq'[d] \in {seq[d], seq[d] + 1}
  /\ pc[d] \in Over => pc'[d] \in Over
  /\ order'[d] = order[d] \/ pc'[d] \in Stopped

Writes1(d) ==
  /\ pc[d] \in Stopped => pc'[d] \in Stopped
  /\ Silent(d) \/ \E type \in EventTypes, n \in Targets \cup {EndName} : Says(d, type, n)

LEMMA StepWrites ==
  ASSUME Agents = {}, TypeOK, AtNode, NEW d \in Drivers, Step(d) \/ Cancel(d)
  PROVE  Writes1(d)
<1> USE DEF Over, Stopped
<1>0. /\ pc \in [Drivers -> PCs] /\ seq \in [Drivers -> Nat \cup {-1}]
      /\ order \in [Drivers -> Seq(Nodes)] /\ cur[d] \in Targets \cup {EndName}
      /\ Entry \in Targets \cup {EndName}
  BY GraphAssumption DEF TypeOK, PCs, Targets
<1>e. ASSUME NEW type \in EventTypes, NEW n \in Targets \cup {EndName},
             NEW ok \in PCs, NEW raised \in {"failing", "raised"},
             Emit(d, type, n, ok, raised), pc[d] \notin Over,
             type = "ExecutionCompleted" => ok \in Over,
             pc[d] \in Stopped => ok \in Stopped,
             \/ type # "NodeCompleted" /\ order' = order
             \/ type = "NodeCompleted" /\ n \in Nodes /\
                  order' = [order EXCEPT ![d] = Append(order[d], n)]
      PROVE  Writes1(d)
  <2>1. /\ seq' = [seq EXCEPT ![d] = seq[d] + 1]
        /\ \/ Wrote1(d, type, n, seq[d] + 1) /\ pc' = [pc EXCEPT ![d] = ok]
           \/ log' = log /\ pc' = [pc EXCEPT ![d] = raised]
    BY <1>e, EmitWrites
  <2>2. CASE Wrote1(d, type, n, seq[d] + 1) /\ pc' = [pc EXCEPT ![d] = ok]
    <3>1. Says(d, type, n)
      BY <1>0, <1>e, <2>1, <2>2 DEF Says
    <3>2. pc'[d] = ok
      BY <1>0, <2>2
    <3> QED BY <1>e, <3>1, <3>2 DEF Writes1
  <2>3. CASE log' = log /\ pc' = [pc EXCEPT ![d] = raised]
    <3>1. Silent(d)
      BY <1>0, <1>e, <2>1, <2>3 DEF Silent
    <3>2. pc'[d] \in Stopped
      BY <1>0, <2>3
    <3> QED BY <3>1, <3>2 DEF Writes1
  <2> QED BY <2>1, <2>2, <2>3
<1>s. ASSUME log' = log, seq' = seq, order' = order, pc[d] \in Over => pc'[d] \in Over,
             pc[d] \in Stopped => pc'[d] \in Stopped
      PROVE  Writes1(d)
  BY <1>s DEF Writes1, Silent
<1> USE DEF EventTypes, PCs, Active, Settled
<1>1. CASE Start(d) \/ ResumeEmit(d)
  BY <1>0, <1>1, <1>e DEF Start, ResumeEmit, context
<1>2. CASE Loop(d)
  <2>1. CASE InterruptBefore(d) \/ StartNode(d)
    BY <1>0, <1>e, <2>1 DEF InterruptBefore, StartNode, NewTurn
  <2>2. CASE UnknownNode(d) \/ TurnLimit(d) \/ ReachEnd(d)
    BY <1>s, <2>2 DEF UnknownNode, TurnLimit, ReachEnd, NewTurn, store, context
  <2> QED BY <1>2, <2>1, <2>2 DEF Loop
<1>3. CASE Execute(d)
  <2>1. cur[d] \in Nodes
    BY <1>3 DEF AtNode, Execute, LLMCall, NodeReturn, NodeRaise
  <2>2. ~LLMCall(d)
    BY DEF LLMCall
  <2>3. CASE NodeReturn(d)
    BY <1>0, <1>e, <2>1, <2>3 DEF NodeReturn
  <2>4. CASE NodeRaise(d)
    BY <1>s, <2>4 DEF NodeRaise, store, context
  <2> QED BY <1>3, <2>2, <2>3, <2>4 DEF Execute
<1>4. CASE ResolveNext(d)
  <2>1. CASE Handoff(d)
    BY <1>0, <1>e, <2>1 DEF Handoff, Routed
  <2>2. CASE ~Handoff(d)
    <3>1. log' = log /\ seq' = seq /\ order' = order /\ pc[d] \in {"route", "fan"}
      BY <1>4, <2>2 DEF ResolveNext, FollowEdge, LoopEdge, RouteRaise, NoHandoff, FanOut,
                        Join, BranchCall, BranchEnd, store, context
    <3> QED BY <1>s, <3>1
  <2> QED BY <2>1, <2>2
<1>5. CASE Settle(d)
  <2>1. CASE InterruptAfter(d) \/ Fail(d) \/ FailCompleted(d) \/ Finish(d)
    BY <1>0, <1>e, <2>1 DEF InterruptAfter, Fail, FailCompleted, Finish, context
  <2>2. CASE FailStatus(d) \/ FinishStatus(d)
    <3>1. /\ pc'[d] \in Over
          /\ pc[d] \in Stopped => pc'[d] \in Stopped
      BY <2>2, GotoMoves DEF FailStatus, FinishStatus, AfterFailure
    <3> QED BY <1>s, <2>2, <3>1 DEF FailStatus, FinishStatus, context
  <2>3. CASE SaveCheckpoint(d)
    <3>1. /\ log' = log /\ order' = order /\ pc[d] = "save"
          /\ seq' = [seq EXCEPT ![d] = seq[d] + 1]
      BY <2>3 DEF SaveCheckpoint, context
    <3> QED BY <1>0, <3>1 DEF Writes1, Silent
  <2>4. CASE SaveFails(d)
    <3>1. /\ log' = log /\ order' = order /\ pc[d] = "save" /\ pc'[d] = "failing"
          /\ seq' = [seq EXCEPT ![d] = seq[d] + 1]
      BY <2>4, GotoMoves DEF SaveFails, store, context
    <3> QED BY <1>0, <3>1 DEF Writes1, Silent
  <2> QED BY <1>5, <2>1, <2>2, <2>3, <2>4 DEF Settle
<1>6. CASE Cancel(d)
  <2>1. pc'[d] = "cancelled"
    BY <1>6, GotoMoves DEF Cancel
  <2> QED BY <1>s, <1>6, <2>1 DEF Cancel, store, context
<1> QED BY <1>1, <1>2, <1>3, <1>4, <1>5, <1>6 DEF Step

--------------------------------------------------------------------------------
(* The order of the log, its end and the checkpoints.                      *)

(* While a run waits, its newest checkpoint holds what its last driver had.*)
Kept ==
  pc[latest] = "interrupted" =>
    /\ Len(checkpoints) \in DOMAIN checkpoints
    /\ checkpoints[Len(checkpoints)].seq = seq[latest]
    /\ checkpoints[Len(checkpoints)].order = order[latest]
    /\ checkpoints[Len(checkpoints)].counters = counters[latest]
    /\ checkpoints[Len(checkpoints)].node = Name(dest[latest])

LEMMA KeptStep ==
  ASSUME OneAtATime, TypeOK', Kept, [Next]_vars
  PROVE  Kept'
<1>0. TypeOK /\ AtNode /\ pc \in [Drivers -> PCs] /\ seq \in [Drivers -> Nat \cup {-1}]
      /\ \A d \in Drivers : pc[d] \in Active => d = latest
  BY DEF OneAtATime, TypeOK, PCs
<1>1. CASE UNCHANGED vars \/ Fork
  <2>1. UNCHANGED <<checkpoints, pc, seq, order, counters, dest, latest>>
    BY <1>1 DEF vars, store, context, Fork
  <2> QED BY <2>1 DEF Kept
<1>2. ASSUME NEW d \in Drivers, Step(d) \/ Cancel(d) PROVE Kept'
  <2>1. d = latest /\ latest' = latest /\ Moves(d)
    BY <1>0, <1>2, Footprint
  <2>2. CASE SaveCheckpoint(d)
    <3> DEFINE cp == [node |-> Name(dest[d]), itype |-> itype[d], state |-> st[d],
                      seq |-> seq[d] + 1, counters |-> counters[d], order |-> order[d]]
    <3>1. /\ seq' = [seq EXCEPT ![d] = seq[d] + 1]
          /\ Len(checkpoints') = Len(checkpoints) + 1
          /\ checkpoints'[Len(checkpoints')] = cp
      BY <1>0, <2>2, SaveAppends, Zenon
    <3>2. order' = order /\ counters' = counters /\ dest' = dest
      BY <2>2 DEF SaveCheckpoint, context
    <3>3. /\ cp.node = Name(dest[d]) /\ cp.seq = seq[d] + 1
          /\ cp.order = order[d] /\ cp.counters = counters[d]
      OBVIOUS
    <3> HIDE DEF cp
    <3>4. Len(checkpoints') \in DOMAIN checkpoints'
      <4>1. checkpoints \in Seq(Checkpoint) /\ checkpoints' \in Seq(Checkpoint)
        BY <1>0 DEF TypeOK
      <4> QED BY <3>1, <4>1
    <3>5. seq'[d] = seq[d] + 1
      BY <1>0, <3>1
    <3> QED BY <2>1, <3>1, <3>2, <3>3, <3>4, <3>5 DEF Kept
  <2>3. CASE ~SaveCheckpoint(d)
    <3>1. pc'[latest'] # "interrupted"
      BY <1>0, <2>1, <2>3 DEF Moves
    <3> QED BY <3>1 DEF Kept
  <2> QED BY <2>2, <2>3
<1>3. ASSUME NEW d \in Drivers, ResumeLoad(d) PROVE Kept'
  <2>1. pc'[latest'] = "resuming"
    BY <1>0, <1>3 DEF ResumeLoad, Goto
  <2> QED BY <2>1 DEF Kept
<1> QED BY <1>1, <1>2, <1>3 DEF Next

(* What a resume takes from that checkpoint.                               *)
LEMMA ResumeContinues ==
  ASSUME ResumePolicy = "interrupted", OneAtATime, Kept, NEW d \in Drivers, ResumeLoad(d)
  PROVE  /\ pc[latest] = "interrupted" /\ pc' = [pc EXCEPT ![d] = "resuming"]
         /\ latest' = d /\ UNCHANGED store
         /\ seq'[d] = seq[latest] /\ cur'[d] = Name(dest[latest])
         /\ Keeping => order'[d] = order[latest] /\ counters'[d] = counters[latest]
<1>0. /\ TypeOK /\ CheckpointsClimb
      /\ seq \in [Drivers -> Nat \cup {-1}] /\ order \in [Drivers -> Seq(Nodes)]
      /\ counters \in [Drivers -> [Nodes -> Nat]]
      /\ cur \in [Drivers -> Targets \cup {EndName}]
  BY DEF OneAtATime, TypeOK
<1>1. /\ pc[latest] = "interrupted" /\ pc' = [pc EXCEPT ![d] = "resuming"]
      /\ latest' = d /\ UNCHANGED store
  BY DEF ResumeLoad, MayResume, Goto
<1>2. PICK i \in DOMAIN checkpoints :
        /\ IsLatest(i)
        /\ cur' = [cur EXCEPT ![d] = checkpoints[i].node]
        /\ seq' = [seq EXCEPT ![d] = checkpoints[i].seq]
        /\ order' = [order EXCEPT ![d] = ResumeOrder(checkpoints[i])]
        /\ counters' = [counters EXCEPT ![d] = ResumeCounters(checkpoints[i])]
  BY DEF ResumeLoad, ResumeSeq
<1>3. i = Len(checkpoints)
  BY <1>0, <1>2, LastIsLatest
<1>4. /\ cur'[d] = checkpoints[i].node /\ seq'[d] = checkpoints[i].seq
      /\ order'[d] = ResumeOrder(checkpoints[i])
      /\ counters'[d] = ResumeCounters(checkpoints[i])
  BY <1>0, <1>2
<1>5. Keeping => /\ ResumeOrder(checkpoints[i]) = checkpoints[i].order
                 /\ ResumeCounters(checkpoints[i]) = checkpoints[i].counters
  BY DEF Keeping, ResumeOrder, ResumeCounters
<1> QED BY <1>1, <1>3, <1>4, <1>5 DEF Kept

Completed(l) == {i \in DOMAIN l : l[i].type = "NodeCompleted"}

(* The latest driver has counted every event, is past its last append once *)
(* the end is in the log, and has the execution order of the whole log,    *)
(* unless the store lost it.                                               *)
LogShape ==
  /\ OneAtATime /\ Kept
  /\ SequencesIncrease /\ \A i \in DOMAIN log : log[i].seq <= seq[latest]
  /\ EndsOnce
  /\ \A i \in DOMAIN log : log[i].type = "ExecutionCompleted" => pc[latest] \in Over
  /\ Keeping => CheckpointMatchesLog
  /\ Keeping /\ pc[latest] \notin Stopped => Lists(order[latest], log, Completed(log))

LEMMA LogShapeInit == Init => LogShape
<1> SUFFICES ASSUME Init PROVE LogShape
  OBVIOUS
<1>1. OneAtATime
  BY OneAtATimeInit
<1>2. /\ log = << >> /\ checkpoints = << >> /\ order[latest] = << >>
      /\ pc[latest] # "interrupted"
  BY DriverAssumption DEF Init
<1>3. Lists(order[latest], log, Completed(log))
  <2>1. Completed(log) = {} /\ Len(order[latest]) = 0
    BY <1>2 DEF Completed
  <2> QED BY <2>1, FS_EmptySet DEF Lists
<1> QED BY <1>1, <1>2, <1>3
        DEF LogShape, Kept, SequencesIncrease, EndsOnce, CheckpointMatchesLog

LEMMA LogTypes ==
  TypeOK => \A i \in DOMAIN log : log[i].seq \in Nat /\ log[i].type \in EventTypes
<1> SUFFICES ASSUME TypeOK, NEW i \in DOMAIN log
             PROVE  log[i].seq \in Nat /\ log[i].type \in EventTypes
  OBVIOUS
<1>1. log[i] \in Event
  BY DEF TypeOK
<1> QED BY <1>1 DEF Event

(* One more event of the latest driver.                                    *)
LEMMA LogShapeSays ==
  ASSUME LogShape, OneAtATime', Kept', NEW d \in Drivers, d = latest, latest' = latest,
         checkpoints' = checkpoints, NEW type \in EventTypes, NEW n, Says(d, type, n),
         pc[d] \in Stopped => pc'[d] \in Stopped
  PROVE  LogShape'
<1>0. /\ TypeOK /\ log \in Seq(Event) /\ log' \in Seq(Event) /\ Len(log) \in Nat
      /\ seq[d] \in Nat \cup {-1} /\ order[d] \in Seq(Nodes)
      /\ \A i \in DOMAIN log : log[i].seq \in Nat /\ log[i].seq <= seq[d]
      /\ \A i \in DOMAIN checkpoints : checkpoints[i].seq \in Nat /\ checkpoints[i].seq <= seq[d]
  <2>1. TypeOK /\ TypeOK'
    BY DEF LogShape, OneAtATime
  <2>2. \A i \in DOMAIN log : log[i].seq \in Nat /\ log[i].seq <= seq[d]
    BY <2>1, LogTypes DEF LogShape
  <2>3. \A i \in DOMAIN checkpoints : checkpoints[i].seq \in Nat /\ checkpoints[i].seq <= seq[d]
    BY <2>1, CheckpointSeqs DEF LogShape, OneAtATime
  <2> QED BY <2>1, <2>2, <2>3 DEF TypeOK
<1>1. /\ Extends(log, log', d) /\ seq'[d] = seq[d] + 1 /\ pc[d] \notin Over
      /\ log'[Len(log')].seq = seq[d] + 1 /\ log'[Len(log')].type = type
      /\ log'[Len(log')].node = n
  BY DEF Says, Wrote1
<1>2. /\ Len(log') = Len(log) + 1
      /\ \A i \in DOMAIN log : log'[i] = log[i]
      /\ \A i \in DOMAIN log' : i \in DOMAIN log \/ i = Len(log')
      /\ DOMAIN log = 1 .. Len(log) /\ DOMAIN log' = 1 .. Len(log) + 1
  BY <1>0, <1>1 DEF Extends
<1>3. SequencesIncrease'
  <2> SUFFICES ASSUME NEW i \in DOMAIN log', NEW j \in DOMAIN log', i < j
               PROVE  log'[i].seq < log'[j].seq
    BY DEF SequencesIncrease
  <2>1. i \in DOMAIN log
    BY <1>2
  <2>2. CASE j \in DOMAIN log
    BY <1>2, <2>1, <2>2 DEF LogShape, SequencesIncrease
  <2>3. CASE j = Len(log')
    BY <1>0, <1>1, <1>2, <2>1, <2>3
  <2> QED BY <1>2, <2>2, <2>3
<1>4. \A i \in DOMAIN log' : log'[i].seq <= seq'[d]
  BY <1>0, <1>1, <1>2
<1>5. \A i \in DOMAIN log : log[i].type # "ExecutionCompleted"
  BY <1>1 DEF LogShape
<1>6. EndsOnce' /\ \A i \in DOMAIN log' : log'[i].type = "ExecutionCompleted" => pc'[d] \in Over
  BY <1>1, <1>2, <1>5 DEF EndsOnce, Says
<1>7. ASSUME Keeping PROVE CheckpointMatchesLog'
  <2> SUFFICES ASSUME NEW c \in DOMAIN checkpoints
               PROVE  Lists(checkpoints[c].order, log', CompletedBefore(checkpoints[c].seq)')
    BY DEF CheckpointMatchesLog, CompletedBefore
  <2> DEFINE S == CompletedBefore(checkpoints[c].seq)
  <2>1. CompletedBefore(checkpoints[c].seq)' = S
    BY <1>0, <1>1, <1>2 DEF CompletedBefore
  <2>2. S \in SUBSET (DOMAIN log) /\ Lists(checkpoints[c].order, log, S)
    BY <1>7 DEF LogShape, CheckpointMatchesLog, CompletedBefore
  <2>3. Lists(checkpoints[c].order, log', S)
    BY <1>0, <1>1, <2>2, ListsStay
  <2> QED BY <2>1, <2>3
<1>8. ASSUME Keeping, pc'[d] \notin Stopped PROVE Lists(order'[d], log', Completed(log'))
  <2>0. pc[d] \notin Stopped /\ Completed(log) \in SUBSET (DOMAIN log)
    BY <1>8 DEF Completed
  <2>1. Lists(order[d], log, Completed(log))
    BY <1>8, <2>0 DEF LogShape
  <2>2. CASE type = "NodeCompleted"
    <3>1. Completed(log') = Completed(log) \cup {Len(log')}
      BY <1>1, <1>2, <2>2 DEF Completed
    <3>2. order'[d] = Append(order[d], n) /\ n \in Nodes
      BY <2>2 DEF Says
    <3>3. Lists(Append(order[d], n), log', Completed(log) \cup {Len(log')})
      BY <1>0, <1>1, <2>0, <2>1, <3>2, ListsOneMore
    <3> QED BY <3>1, <3>2, <3>3
  <2>3. CASE type # "NodeCompleted"
    <3>1. Completed(log') = Completed(log)
      BY <1>1, <1>2, <2>3 DEF Completed
    <3>2. order'[d] = order[d]
      BY <2>3 DEF Says
    <3> QED BY <1>0, <1>1, <2>0, <2>1, <3>1, <3>2, ListsStay
  <2> QED BY <2>2, <2>3
<1> QED BY <1>3, <1>4, <1>6, <1>7, <1>8 DEF LogShape, Keeping

(* No event, perhaps a checkpoint.                                         *)
LEMMA LogShapeSilent ==
  ASSUME LogShape, OneAtATime', Kept', NEW d \in Drivers, d = latest, latest' = latest,
         SaveCheckpoint(d) \/ checkpoints' = checkpoints, Silent(d),
         pc[d] \in Stopped => pc'[d] \in Stopped
  PROVE  LogShape'
<1>0. /\ TypeOK /\ log \in Seq(Event) /\ log' = log /\ seq[d] \in Nat \cup {-1}
      /\ order[d] \in Seq(Nodes) /\ order \in [Drivers -> Seq(Nodes)]
      /\ \A i \in DOMAIN log : log[i].seq \in Nat /\ log[i].seq <= seq[d]
  <2>1. TypeOK
    BY DEF LogShape, OneAtATime
  <2>2. \A i \in DOMAIN log : log[i].seq \in Nat /\ log[i].seq <= seq[d]
    BY <2>1, LogTypes DEF LogShape
  <2> QED BY <2>1, <2>2 DEF TypeOK, Silent
<1>1. SequencesIncrease' /\ EndsOnce'
  BY <1>0 DEF LogShape, SequencesIncrease, EndsOnce
<1>2. \A i \in DOMAIN log' : log'[i].seq <= seq'[d]
  BY <1>0 DEF Silent
<1>3. \A i \in DOMAIN log' : log'[i].type = "ExecutionCompleted" => pc'[d] \in Over
  BY <1>0 DEF LogShape, Silent
<1>4. Keeping /\ pc'[d] \notin Stopped => Lists(order'[d], log', Completed(log'))
  BY <1>0 DEF LogShape, Silent
<1>5. ASSUME Keeping PROVE CheckpointMatchesLog'
  <2>1. CASE checkpoints' = checkpoints
    BY <1>0, <1>5, <2>1 DEF LogShape, CheckpointMatchesLog, CompletedBefore
  <2>2. CASE SaveCheckpoint(d)
    <3> DEFINE cp == [node |-> Name(dest[d]), itype |-> itype[d], state |-> st[d],
                      seq |-> seq[d] + 1, counters |-> counters[d], order |-> order[d]]
    <3>1. /\ Len(checkpoints') = Len(checkpoints) + 1 /\ pc[d] = "save"
          /\ \A i \in DOMAIN checkpoints : checkpoints'[i] = checkpoints[i]
          /\ checkpoints'[Len(checkpoints')] = cp
      BY <1>0, <2>2, SaveAppends, Zenon
    <3>2. cp.seq = seq[d] + 1 /\ cp.order = order[d]
      OBVIOUS
    <3> HIDE DEF cp
    <3>3. \A i \in DOMAIN checkpoints' : i \in DOMAIN checkpoints \/ i = Len(checkpoints')
      <4>1. checkpoints \in Seq(Checkpoint) /\ checkpoints' \in Seq(Checkpoint)
        BY DEF LogShape, OneAtATime, TypeOK
      <4> QED BY <3>1, <4>1
    <3>4. \A s : CompletedBefore(s)' = CompletedBefore(s)
      BY <1>0 DEF CompletedBefore
    <3>5. CompletedBefore(seq[d] + 1) = Completed(log)
      BY <1>0 DEF CompletedBefore, Completed
    <3>6. Lists(order[d], log, Completed(log))
      BY <1>5, <3>1 DEF LogShape, Stopped
    <3> SUFFICES ASSUME NEW c \in DOMAIN checkpoints'
                 PROVE  Lists(checkpoints'[c].order, log, CompletedBefore(checkpoints'[c].seq))
      BY <1>0 DEF CheckpointMatchesLog, CompletedBefore
    <3>7. CASE c \in DOMAIN checkpoints
      BY <1>5, <3>1, <3>7 DEF LogShape, CheckpointMatchesLog
    <3>8. CASE c = Len(checkpoints')
      BY <3>1, <3>2, <3>5, <3>6, <3>8
    <3> QED BY <3>3, <3>7, <3>8
  <2> QED BY <2>1, <2>2
<1> QED BY <1>1, <1>2, <1>3, <1>4, <1>5 DEF LogShape, Keeping

LEMMA NoFork == ASSUME Ordered, TypeOK PROVE ~Fork
<1> DEFINE S == {i \in DOMAIN log : log[i].by = Forker}
<1>1. DOMAIN log = 1 .. Len(log) /\ Len(log) \in Nat
  BY DEF TypeOK
<1>2. IsFiniteSet(1 .. Len(log)) /\ S \in SUBSET (1 .. Len(log))
  BY <1>1, FS_Interval
<1>3. Cardinality(S) \in Nat
  BY <1>2, FS_Subset, FS_CardinalityType
<1>4. ~(Cardinality(S) < MaxForks)
  BY <1>3 DEF Ordered
<1> QED BY <1>4 DEF Fork

LEMMA LogShapeStep ==
  ASSUME Ordered, LogShape, [Next]_vars
  PROVE  LogShape'
<1>0. TypeOK /\ AtNode /\ \A d \in Drivers : pc[d] \in Active => d = latest
  BY DEF LogShape, OneAtATime
<1>t. OneAtATime'
  BY OneAtATimeStep DEF Ordered, LogShape
<1>k. Kept'
  BY <1>t, KeptStep DEF LogShape, OneAtATime
<1>1. CASE UNCHANGED vars
  <2>1. UNCHANGED <<log, checkpoints, pc, seq, order, latest>>
    BY <1>1 DEF vars, store, context
  <2> QED BY <1>t, <1>k, <2>1
          DEF LogShape, SequencesIncrease, EndsOnce, CheckpointMatchesLog, CompletedBefore, Keeping
<1>2. ASSUME NEW d \in Drivers, Step(d) \/ Cancel(d) PROVE LogShape'
  <2>1. /\ d = latest /\ latest' = latest
        /\ SaveCheckpoint(d) \/ checkpoints' = checkpoints
    BY <1>0, <1>2, Footprint
  <2>2. Writes1(d)
    BY <1>0, <1>2, StepWrites DEF Ordered
  <2>3. CASE Silent(d)
    BY <1>t, <1>k, <2>1, <2>2, <2>3, LogShapeSilent DEF Writes1
  <2>4. ASSUME NEW type \in EventTypes, NEW n, Says(d, type, n) PROVE LogShape'
    <3>1. log' # log
      BY <2>4 DEF Says, Wrote1, Extends
    <3>2. checkpoints' = checkpoints
      BY <2>1, <3>1 DEF SaveCheckpoint
    <3> QED BY <1>t, <1>k, <2>1, <2>2, <2>4, <3>2, LogShapeSays DEF Writes1
  <2> QED BY <2>2, <2>3, <2>4 DEF Writes1
<1>3. ASSUME NEW d \in Drivers, ResumeLoad(d) PROVE LogShape'
  <2>1. /\ pc[latest] = "interrupted" /\ latest' = d
        /\ UNCHANGED <<log, checkpoints>>
        /\ seq'[d] = seq[latest] /\ (Keeping => order'[d] = order[latest])
    BY <1>3, ResumeContinues DEF Ordered, LogShape, store
  <2>2. /\ Keeping => Lists(order[latest], log, Completed(log))
        /\ \A i \in DOMAIN log : log[i].type # "ExecutionCompleted"
    BY <2>1 DEF LogShape, Stopped, Over
  <2> QED BY <1>t, <1>k, <2>1, <2>2
          DEF LogShape, SequencesIncrease, EndsOnce, CheckpointMatchesLog, CompletedBefore, Keeping
<1> QED BY <1>0, <1>1, <1>2, <1>3, NoFork DEF Next

--------------------------------------------------------------------------------
(* The stored status.                                                      *)

StatusKept ==
  /\ pc[latest] \notin {"starting", "raised", "cancelled", "failed", "done"} =>
       runStatus = "running"
  /\ pc[latest] = "failed" => runStatus \in {"failed"} \cup Unsaid
  /\ pc[latest] = "done" => runStatus \in {"completed"} \cup Unsaid

LEMMA StatusStep ==
  ASSUME Ordered, OneAtATime, StatusKept, [Next]_vars
  PROVE  StatusKept'
<1>0. TypeOK /\ AtNode /\ pc \in [Drivers -> PCs]
      /\ \A d \in Drivers : pc[d] \in Active => d = latest
  BY DEF OneAtATime, TypeOK, PCs
<1>1. CASE UNCHANGED vars
  <2>1. UNCHANGED <<pc, latest, runStatus>>
    BY <1>1 DEF vars, store
  <2> QED BY <2>1 DEF StatusKept
<1>2. ASSUME NEW d \in Drivers, Step(d) \/ Cancel(d) PROVE StatusKept'
  <2>1. d = latest /\ latest' = latest /\ pc[d] \in Active
    BY <1>0, <1>2, Footprint
  <2>2. CASE Start(d)
    <3>1. pc'[d] = "raised" \/ (pc'[d] = "loop" /\ runStatus' = "running")
      BY <1>0, <2>2, EmitMoves DEF Start, Ordered
    <3> QED BY <2>1, <3>1 DEF StatusKept
  <2>3. CASE FailStatus(d)
    <3>1. pc[d] = "failing3" /\ pc'[d] = "failed"
      BY <1>0, <2>3, GotoMoves DEF FailStatus, AfterFailure
    <3>2. runStatus = "running"
      BY <2>1, <3>1 DEF StatusKept
    <3>3. runStatus' \in {"failed"} \cup Unsaid
      BY <2>3, <3>2 DEF FailStatus, UpdateRunStatus, Unsaid, Ordered
    <3> QED BY <2>1, <3>1, <3>3 DEF StatusKept
  <2>4. CASE FinishStatus(d)
    <3>1. pc[d] = "finish2" /\ pc'[d] = "done"
      BY <1>0, <2>4, GotoMoves DEF FinishStatus
    <3>2. runStatus = "running"
      BY <2>1, <3>1 DEF StatusKept
    <3>3. runStatus' \in {"completed"} \cup Unsaid
      BY <2>4, <3>2 DEF FinishStatus, UpdateRunStatus, Unsaid, Ordered
    <3> QED BY <2>1, <3>1, <3>3 DEF StatusKept
  <2>5. CASE Cancel(d)
    <3>1. pc'[d] = "cancelled"
      BY <1>0, <2>5, GotoMoves DEF Cancel
    <3> QED BY <2>1, <3>1 DEF StatusKept
  <2>6. CASE ~(Start(d) \/ FailStatus(d) \/ FinishStatus(d) \/ Cancel(d))
    <3>1. runStatus' = runStatus /\ pc[d] # "starting"
      BY <1>2, <2>6 DEF Step, ResumeEmit, Loop, UnknownNode, InterruptBefore, StartNode,
         TurnLimit, ReachEnd, NewTurn, Execute, LLMCall, NodeReturn, NodeRaise, ResolveNext,
         FollowEdge, LoopEdge, RouteRaise, NoHandoff, Handoff, FanOut, Join, BranchCall,
         BranchEnd, Settle, InterruptAfter, SaveCheckpoint, SaveFails, Fail, FailCompleted,
         Finish, StatusOnCompleted, Ordered, store, context
    <3>2. pc'[d] \notin {"failed", "done"}
      <4>1. CASE \E n \in Nodes : BranchCall(d, n) \/ BranchEnd(d, n)
        BY <2>1, <4>1 DEF BranchCall, BranchEnd, Active
      <4>2. CASE ResolveNext(d) /\ ~ \E n \in Nodes : BranchCall(d, n) \/ BranchEnd(d, n)
        BY <1>0, <4>2, RouteOutcome DEF Delivered, Undelivered, Routed
      <4>3. CASE ResumeEmit(d) \/ Loop(d) \/ Execute(d)
        BY <1>0, <4>3, EmitMoves, GotoMoves
           DEF ResumeEmit, Loop, UnknownNode, InterruptBefore, StartNode, TurnLimit, ReachEnd,
               Execute, LLMCall, NodeReturn, NodeRaise
      <4>4. CASE Settle(d)
        BY <1>0, <2>6, <4>4, EmitMoves, GotoMoves
           DEF Settle, InterruptAfter, SaveCheckpoint, SaveFails, Fail, FailCompleted, Finish
      <4> QED BY <1>2, <2>6, <4>1, <4>2, <4>3, <4>4 DEF Step
    <3> QED BY <2>1, <3>1, <3>2 DEF StatusKept, Active
  <2> QED BY <2>2, <2>3, <2>4, <2>5, <2>6
<1>3. ASSUME NEW d \in Drivers, ResumeLoad(d) PROVE StatusKept'
  <2>1. /\ pc[latest] = "interrupted" /\ latest' = d /\ pc' = [pc EXCEPT ![d] = "resuming"]
        /\ runStatus' = runStatus
    BY <1>3 DEF ResumeLoad, MayResume, Goto, store, Ordered
  <2>2. pc'[latest'] = "resuming"
    BY <1>0, <2>1
  <2> QED BY <2>1, <2>2 DEF StatusKept
<1> QED BY <1>0, <1>1, <1>2, <1>3, NoFork DEF Next

LEMMA StatusInit == Init => StatusKept
BY DriverAssumption DEF Init, StatusKept

--------------------------------------------------------------------------------
(* The iterations of a loop.                                               *)

Starts(l, n) == {i \in DOMAIN l : l[i].type = "NodeStarted" /\ l[i].node = n}

(* Where d is, or is to be resumed, and whether it has run that node yet.  *)
At(d) == IF pc[d] \in {"ask", "save", "interrupted"} THEN dest[d] ELSE cur[d]
Ran(d) == pc[d] \in {"exec", "called", "route", "fan"}

(* A loop node that has been started k times and counted c iterations: the *)
(* count is one behind while the node runs, and the node is left for good. *)
Iterated(n, k, c, at, ran) ==
  /\ at = n /\ ~ran => k = c /\ c < Edges[n].limit
  /\ at = n /\ ran => k = c + 1
  /\ at \in Nodes \ {n} => k = 0 /\ c = 0

LoopKept ==
  \A n \in Nodes : Edges[n].kind = "loop" =>
    /\ Cardinality(Starts(log, n)) <= Edges[n].limit
    /\ pc[latest] \notin Stopped =>
         Iterated(n, Cardinality(Starts(log, n)), counters[latest][n], At(latest), Ran(latest))
    /\ ~(pc[latest] = "fan" /\ cur[latest] = n)

LEMMA LoopInit == Orderly /\ Init => LoopKept
<1> SUFFICES ASSUME Orderly, Init, NEW n \in Nodes, Edges[n].kind = "loop"
             PROVE  /\ Cardinality(Starts(log, n)) <= Edges[n].limit
                    /\ Iterated(n, Cardinality(Starts(log, n)), counters[latest][n],
                                At(latest), Ran(latest))
  BY DriverAssumption DEF LoopKept, Init
<1>1. Starts(log, n) = {}
  BY DEF Init, Starts
<1>2. Cardinality(Starts(log, n)) = 0
  BY <1>1, FS_EmptySet
<1>3. Edges[n].limit \in Nat /\ Edges[n].limit # 0
  BY EdgeParts DEF Orderly
<1>4. counters[latest][n] = 0 /\ ~Ran(latest)
  BY DriverAssumption DEF Init, Ran
<1> QED BY <1>2, <1>3, <1>4 DEF Iterated

(* One event more is a start of n or leaves the starts of n as they are.   *)
LEMMA StartsGrow ==
  ASSUME NEW l \in Seq(Event), NEW m \in Seq(Event), NEW by, Extends(l, m, by), NEW n
  PROVE  /\ Cardinality(Starts(l, n)) \in Nat
         /\ m[Len(m)].type = "NodeStarted" /\ m[Len(m)].node = n =>
              Cardinality(Starts(m, n)) = Cardinality(Starts(l, n)) + 1
         /\ ~(m[Len(m)].type = "NodeStarted" /\ m[Len(m)].node = n) =>
              Starts(m, n) = Starts(l, n)
<1> DEFINE k == Len(m)
<1>0. /\ Len(l) \in Nat /\ k = Len(l) + 1 /\ \A i \in 1 .. Len(l) : m[i] = l[i]
      /\ DOMAIN l = 1 .. Len(l) /\ DOMAIN m = 1 .. Len(l) + 1
  BY DEF Extends
<1>1. Starts(l, n) \in SUBSET (1 .. Len(l)) /\ IsFiniteSet(1 .. Len(l))
  BY <1>0, FS_Interval DEF Starts
<1>2. IsFiniteSet(Starts(l, n)) /\ k \notin Starts(l, n)
  BY <1>0, <1>1, FS_Subset
<1>3. CASE m[k].type = "NodeStarted" /\ m[k].node = n
  <2>1. Starts(m, n) = Starts(l, n) \cup {k}
    BY <1>0, <1>3 DEF Starts
  <2> QED BY <1>2, <1>3, <2>1, FS_AddElement, FS_CardinalityType
<1>4. CASE ~(m[k].type = "NodeStarted" /\ m[k].node = n)
  <2>1. Starts(m, n) = Starts(l, n)
    BY <1>0, <1>4 DEF Starts
  <2> QED BY <1>2, <1>4, <2>1, FS_CardinalityType
<1> QED BY <1>3, <1>4

(* Only StartNode logs a start.                                            *)
LEMMA EmitStarts ==
  ASSUME TypeOK, TypeOK', NEW d \in Drivers, NEW type \in EventTypes \ {"NodeStarted"},
         NEW n \in Targets \cup {EndName}, NEW ok, NEW raised,
         Emit(d, type, n, ok, raised)
  PROVE  \A x : Starts(log', x) = Starts(log, x)
<1>1. Wrote1(d, type, n, seq[d] + 1) \/ log' = log
  BY EmitWrites
<1>2. log \in Seq(Event) /\ log' \in Seq(Event)
  BY DEF TypeOK
<1>3. CASE Wrote1(d, type, n, seq[d] + 1)
  <2>1. Extends(log, log', d) /\ log'[Len(log')].type # "NodeStarted"
    BY <1>3 DEF Wrote1
  <2> QED BY <1>2, <2>1, StartsGrow
<1> QED BY <1>1, <1>3

(* A step that starts nothing and stays at its node, or stops the run.     *)
LEMMA LoopStays ==
  ASSUME LoopKept, latest' = latest, \A x : Starts(log', x) = Starts(log, x),
         \/ pc'[latest] \in Stopped
         \/ /\ pc[latest] \notin Stopped /\ counters'[latest] = counters[latest]
            /\ At(latest)' = At(latest) /\ (Ran(latest)' <=> Ran(latest)),
         pc'[latest] = "fan" => cur'[latest] = cur[latest] /\
           (pc[latest] = "fan" \/ Edges[cur[latest]].kind # "loop")
  PROVE  LoopKept'
BY DEF LoopKept, Iterated

(* Resuming, the head of the loop and running a node.                      *)
LEMMA LoopHead ==
  ASSUME TypeOK, TypeOK', AtNode, LoopKept, NEW d \in Drivers, d = latest, latest' = latest,
         Start(d) \/ ResumeEmit(d) \/ Loop(d) \/ Execute(d), Agents = {}
  PROVE  LoopKept'
<1> USE DEF Stopped
<1>0. /\ cur[d] \in Targets \cup {EndName} /\ Entry \in Targets \cup {EndName}
      /\ log \in Seq(Event) /\ log' \in Seq(Event) /\ pc \in [Drivers -> PCs]
      /\ counters \in [Drivers -> [Nodes -> Nat]] /\ dest \in [Drivers -> Targets]
  BY GraphAssumption DEF TypeOK, PCs, Targets
<1>1. CASE Start(d) \/ ResumeEmit(d)
  <2>1. \A x : Starts(log', x) = Starts(log, x)
    BY <1>0, <1>1, EmitStarts DEF Start, ResumeEmit, EventTypes
  <2>2. /\ pc'[d] \in {"loop", "raised"} /\ UNCHANGED context
        /\ pc[d] \in {"starting", "resuming"}
    BY <1>0, <1>1, EmitMoves DEF Start, ResumeEmit
  <2> QED BY <2>1, <2>2, LoopStays DEF At, Ran, context
<1>2. CASE InterruptBefore(d)
  <2>1. \A x : Starts(log', x) = Starts(log, x)
    BY <1>0, <1>2, EmitStarts DEF InterruptBefore, EventTypes
  <2>2. pc'[d] \in {"save", "failing"}
    BY <1>0, <1>2, EmitMoves DEF InterruptBefore
  <2>3. pc[d] = "loop" /\ dest'[d] = cur[d] /\ counters' = counters
    BY <1>0, <1>2 DEF InterruptBefore, NewTurn
  <2> QED BY <2>1, <2>2, <2>3, LoopStays DEF At, Ran
<1>3. CASE UnknownNode(d) \/ TurnLimit(d)
  <2>1. pc'[d] = "failing" /\ log' = log
    BY <1>3, GotoMoves DEF UnknownNode, TurnLimit, store
  <2> QED BY <2>1, LoopStays
<1>4. CASE ReachEnd(d)
  <2>1. pc[d] = "loop" /\ pc'[d] = "finish" /\ log' = log /\ UNCHANGED context
    BY <1>4, GotoMoves DEF ReachEnd, store
  <2> QED BY <2>1, LoopStays DEF At, Ran, context
<1>5. CASE StartNode(d)
  <2>0. /\ pc[d] = "loop" /\ cur[d] \in Nodes /\ cur' = cur /\ counters' = counters
        /\ Emit(d, "NodeStarted", cur[d], "exec", "failing")
    BY <1>5 DEF StartNode, NewTurn
  <2>1. \/ Wrote1(d, "NodeStarted", cur[d], seq[d] + 1) /\ pc' = [pc EXCEPT ![d] = "exec"]
        \/ log' = log /\ pc' = [pc EXCEPT ![d] = "failing"]
    <3>1. "NodeStarted" \in EventTypes
      BY DEF EventTypes
    <3>2. cur[d] \in Targets \cup {EndName}
      BY <1>0
    <3> QED BY <2>0, <3>1, <3>2, EmitWrites
  <2>2. CASE log' = log /\ pc' = [pc EXCEPT ![d] = "failing"]
    BY <1>0, <2>2, LoopStays
  <2>3. CASE Wrote1(d, "NodeStarted", cur[d], seq[d] + 1) /\ pc' = [pc EXCEPT ![d] = "exec"]
    <3>1. /\ Extends(log, log', d) /\ pc'[d] = "exec"
          /\ log'[Len(log')].type = "NodeStarted" /\ log'[Len(log')].node = cur[d]
      BY <1>0, <2>3 DEF Wrote1
    <3> SUFFICES ASSUME NEW n \in Nodes, Edges[n].kind = "loop"
                 PROVE  /\ Cardinality(Starts(log', n)) <= Edges[n].limit
                        /\ Iterated(n, Cardinality(Starts(log', n)), counters'[d][n], cur[d], TRUE)
      BY <1>0, <2>0, <3>1 DEF LoopKept, At, Ran
    <3>2. /\ Cardinality(Starts(log, n)) <= Edges[n].limit
          /\ Iterated(n, Cardinality(Starts(log, n)), counters[d][n], cur[d], FALSE)
      BY <2>0 DEF LoopKept, At, Ran, Iterated
    <3>3. /\ Cardinality(Starts(log, n)) \in Nat
          /\ cur[d] = n => Cardinality(Starts(log', n)) = Cardinality(Starts(log, n)) + 1
          /\ cur[d] # n => Starts(log', n) = Starts(log, n)
      BY <1>0, <3>1, StartsGrow
    <3>4. Edges[n].limit \in Nat /\ counters[d][n] \in Nat
      BY <1>0, EdgeParts
    <3> QED BY <2>0, <3>2, <3>3, <3>4 DEF Iterated
  <2> QED BY <2>1, <2>2, <2>3
<1>6. CASE NodeReturn(d)
  <2>1. \A x : Starts(log', x) = Starts(log, x)
    BY <1>0, <1>6, EmitStarts DEF NodeReturn, EventTypes
  <2>2. pc'[d] \in {"route", "failing"}
    BY <1>0, <1>6, EmitMoves DEF NodeReturn
  <2>3. pc[d] \in {"exec", "called"} /\ counters' = counters /\ cur' = cur
    BY <1>6 DEF NodeReturn
  <2> QED BY <2>1, <2>2, <2>3, LoopStays DEF At, Ran
<1>7. CASE NodeRaise(d)
  <2>1. pc'[d] = "failing" /\ log' = log
    BY <1>7, GotoMoves DEF NodeRaise, store
  <2> QED BY <2>1, LoopStays
<1> QED BY <1>1, <1>2, <1>3, <1>4, <1>5, <1>6, <1>7 DEF Loop, Execute, LLMCall

(* Routing.  Only a loop node's own edge touches its count, and it leads   *)
(* back to the node or to the end.                                         *)
LEMMA LoopRoute ==
  ASSUME TypeOK, TypeOK', AtNode, LoopKept, NEW d \in Drivers, d = latest, latest' = latest,
         ResolveNext(d), Orderly
  PROVE  LoopKept'
<1> USE DEF Stopped
<1>0. /\ cur \in [Drivers -> Targets \cup {EndName}] /\ pc \in [Drivers -> PCs]
      /\ counters \in [Drivers -> [Nodes -> Nat]] /\ dest \in [Drivers -> Targets]
      /\ log \in Seq(Event) /\ log' \in Seq(Event) /\ pc[d] \in {"route", "fan"}
      /\ cur[d] \in Nodes
  BY DEF TypeOK, PCs, AtNode, ResolveNext, FollowEdge, LoopEdge, RouteRaise, NoHandoff,
         Handoff, FanOut, Join, BranchCall, BranchEnd
<1>c. \A n \in Nodes : /\ Cardinality(Starts(log, n)) \in Nat
                       /\ Edges[n].limit \in Nat /\ counters[d][n] \in Nat
  <2> SUFFICES ASSUME NEW n \in Nodes PROVE Cardinality(Starts(log, n)) \in Nat
    BY <1>0, EdgeParts
  <2>1. DOMAIN log = 1 .. Len(log) /\ Len(log) \in Nat
    BY <1>0
  <2>2. Starts(log, n) \in SUBSET (1 .. Len(log)) /\ IsFiniteSet(1 .. Len(log))
    BY <2>1, FS_Interval DEF Starts
  <2> QED BY <2>2, FS_Subset, FS_CardinalityType
<1>l. \A n \in Nodes : Edges[n].kind = "loop" =>
        /\ Cardinality(Starts(log, n)) <= Edges[n].limit
        /\ Iterated(n, Cardinality(Starts(log, n)), counters[d][n], cur[d], TRUE)
  BY <1>0 DEF LoopKept, At, Ran, Iterated
<1>s. \A x : Starts(log', x) = Starts(log, x)
  <2>1. CASE Handoff(d)
    BY <1>0, <2>1, EmitStarts DEF Handoff, EventTypes
  <2>2. CASE ~Handoff(d)
    <3>1. log' = log
      BY <2>2 DEF ResolveNext, FollowEdge, LoopEdge, RouteRaise, NoHandoff, FanOut, Join,
                  BranchCall, BranchEnd, store, Orderly, Ordered
    <3> QED BY <3>1
  <2> QED BY <2>1, <2>2
<1>d. ASSUME NEW t, NEW s, Deliver(d, t, s), pc' = [pc EXCEPT ![d] = Routed(d)]
      PROVE  At(d)' = t /\ ~Ran(d)' /\ pc'[d] \notin Stopped \cup {"fan"}
  BY <1>0, <1>d DEF Deliver, ResumePoint, Routed, At, Ran
<1>1. CASE LoopEdge(d)
  <2> DEFINE m == cur[d]
             c == counters[d][m] + 1
  <2>1. PICK t, x : /\ \/ c < Edges[m].limit /\ t = m /\ x = c
                       \/ t = End /\ x = 0
                    /\ counters' = [counters EXCEPT ![d][m] = x]
                    /\ Deliver(d, t, st[d]) /\ pc' = [pc EXCEPT ![d] = Routed(d)]
    <3>1. /\ pc' = [pc EXCEPT ![d] = Routed(d)]
          /\ \/ /\ c < Edges[m].limit
                /\ counters' = [counters EXCEPT ![d][m] = c] /\ Deliver(d, m, st[d])
             \/ counters' = [counters EXCEPT ![d][m] = 0] /\ Deliver(d, End, st[d])
      BY <1>1 DEF LoopEdge, Edge, Goto
    <3> QED BY <3>1
  <2>2. /\ At(d)' = t /\ ~Ran(d)' /\ pc'[d] \notin Stopped \cup {"fan"}
        /\ counters'[d][m] = x /\ \A n \in Nodes \ {m} : counters'[d][n] = counters[d][n]
    BY <1>0, <1>d, <2>1
  <2> SUFFICES ASSUME NEW n \in Nodes, Edges[n].kind = "loop"
               PROVE  Iterated(n, Cardinality(Starts(log, n)), counters'[d][n], t, FALSE)
    BY <1>l, <1>s, <2>2 DEF LoopKept, Iterated
  <2>3. CASE n = m
    BY <1>0, <1>c, <1>l, <2>1, <2>2, <2>3, GraphAssumption DEF Iterated
  <2>4. CASE n # m
    BY <1>0, <1>l, <2>1, <2>2, <2>4, GraphAssumption DEF Iterated
  <2> QED BY <2>3, <2>4
<1>2. CASE \E t, s : Deliver(d, t, s) /\ pc' = [pc EXCEPT ![d] = Routed(d)]
                     /\ counters' = counters /\ Edges[cur[d]].kind # "loop"
  <2>1. PICK t, s : Deliver(d, t, s) /\ pc' = [pc EXCEPT ![d] = Routed(d)]
                     /\ counters' = counters /\ Edges[cur[d]].kind # "loop"
    BY <1>2
  <2>2. At(d)' = t /\ ~Ran(d)' /\ pc'[d] \notin Stopped \cup {"fan"}
    BY <1>d, <2>1
  <2> SUFFICES ASSUME NEW n \in Nodes, Edges[n].kind = "loop"
               PROVE  Iterated(n, Cardinality(Starts(log, n)), counters[d][n], t, FALSE)
    BY <1>l, <1>s, <2>1, <2>2 DEF LoopKept, Iterated
  <2>3. Cardinality(Starts(log, n)) = 0 /\ counters[d][n] = 0
    BY <1>0, <1>l, <2>1 DEF Iterated
  <2>4. 0 < Edges[n].limit
    BY <1>c DEF Orderly
  <2> QED BY <2>3, <2>4 DEF Iterated
<1>3. CASE /\ pc'[d] \in {"failing", "fan"} /\ counters' = counters /\ cur' = cur
           /\ pc'[d] = "fan" => pc[d] = "fan" \/ Edges[cur[d]].kind # "loop"
  BY <1>0, <1>3, <1>s, LoopStays DEF At, Ran
<1>4. CASE FollowEdge(d) \/ NoHandoff(d)
  BY <1>2, <1>4 DEF FollowEdge, NoHandoff, Edge, Goto
<1>5. CASE Handoff(d)
  <2>0. pc' = [pc EXCEPT ![d] = Routed(d)] \/ pc' = [pc EXCEPT ![d] = "failing"]
    BY <1>5, EmitMoves DEF Handoff
  <2>1. CASE pc'[d] # "failing"
    <3>1. pc' = [pc EXCEPT ![d] = Routed(d)]
      BY <1>0, <2>0, <2>1
    <3> QED BY <1>2, <1>5, <2>1, <3>1 DEF Handoff, Edge
  <2>2. CASE pc'[d] = "failing"
    <3>1. counters' = counters /\ cur' = cur
      BY <1>5, <2>2 DEF Handoff
    <3> QED BY <1>3, <2>2, <3>1
  <2> QED BY <2>1, <2>2
<1>6. CASE RouteRaise(d) \/ FanOut(d)
  BY <1>0, <1>3, <1>6 DEF RouteRaise, FanOut, Edge, Goto, context
<1>7. CASE Join(d)
  <2>1. CASE \E n \in Branches(d) : branch[d][n] = "err"
    BY <1>0, <1>3, <1>7, <2>1 DEF Join, Goto
  <2>2. CASE ~ \E n \in Branches(d) : branch[d][n] = "err"
    <3>1. Edges[cur[d]].kind # "loop"
      BY <1>0, <1>7 DEF Join, LoopKept
    <3> QED BY <1>2, <1>7, <2>2, <3>1 DEF Join, Goto
  <2> QED BY <2>1, <2>2
<1>8. CASE \E n \in Nodes : BranchCall(d, n) \/ BranchEnd(d, n)
  <2>1. pc[d] = "fan" /\ pc'[d] = "fan" /\ counters' = counters /\ cur' = cur
    BY <1>8 DEF BranchCall, BranchEnd
  <2> QED BY <1>3, <2>1
<1> QED BY <1>1, <1>4, <1>5, <1>6, <1>7, <1>8 DEF ResolveNext

LEMMA LoopSettle ==
  ASSUME TypeOK, TypeOK', AtNode, LoopKept, NEW d \in Drivers, d = latest, latest' = latest,
         Settle(d) \/ Cancel(d)
  PROVE  LoopKept'
<1> USE DEF Stopped
<1>0. cur[d] \in Targets \cup {EndName} /\ pc \in [Drivers -> PCs]
  BY DEF TypeOK, PCs
<1>1. CASE InterruptAfter(d) \/ Finish(d)
  <2>1. \A x : Starts(log', x) = Starts(log, x)
    BY <1>0, <1>1, EmitStarts DEF InterruptAfter, Finish, EventTypes
  <2>2. CASE InterruptAfter(d)
    <3>1. pc[d] = "ask" /\ pc'[d] \in {"save", "failing"} /\ UNCHANGED context
      BY <1>0, <2>2, EmitMoves DEF InterruptAfter
    <3> QED BY <2>1, <3>1, LoopStays DEF At, Ran, context
  <2>3. CASE Finish(d)
    <3>1. pc[d] = "finish" /\ pc'[d] \in {"finish2", "raised"} /\ UNCHANGED context
      BY <1>0, <2>3, EmitMoves DEF Finish
    <3> QED BY <2>1, <3>1, LoopStays DEF At, Ran, context
  <2> QED BY <1>1, <2>2, <2>3
<1>2. CASE Fail(d) \/ FailCompleted(d)
  <2>1. \A x : Starts(log', x) = Starts(log, x)
    BY <1>0, <1>2, EmitStarts DEF Fail, FailCompleted, EventTypes
  <2>2. pc'[d] \in {"failing2", "failing3", "raised"}
    BY <1>0, <1>2, EmitMoves DEF Fail, FailCompleted
  <2> QED BY <2>1, <2>2, LoopStays
<1>3. CASE FailStatus(d) \/ SaveFails(d) \/ Cancel(d)
  <2>1. pc'[d] \in {"failed", "failing", "cancelled"} /\ log' = log
    BY <1>3, GotoMoves DEF FailStatus, AfterFailure, SaveFails, Cancel, store
  <2> QED BY <2>1, LoopStays
<1>4. CASE SaveCheckpoint(d)
  <2>1. pc[d] = "save" /\ pc'[d] = "interrupted" /\ log' = log /\ UNCHANGED context
    BY <1>4, GotoMoves DEF SaveCheckpoint
  <2> QED BY <2>1, LoopStays DEF At, Ran, context
<1>5. CASE FinishStatus(d)
  <2>1. pc[d] = "finish2" /\ pc'[d] = "done" /\ log' = log /\ UNCHANGED context
    BY <1>5, GotoMoves DEF FinishStatus
  <2> QED BY <2>1, LoopStays DEF At, Ran, context
<1> QED BY <1>1, <1>2, <1>3, <1>4, <1>5 DEF Settle

LEMMA LoopStep ==
  ASSUME Orderly, OneAtATime, OneAtATime', Kept, LoopKept, [Next]_vars
  PROVE  LoopKept'
<1>0. TypeOK /\ TypeOK' /\ AtNode /\ \A d \in Drivers : pc[d] \in Active => d = latest
  BY DEF OneAtATime
<1>1. CASE UNCHANGED vars
  <2>1. UNCHANGED <<log, pc, cur, counters, dest, latest>>
    BY <1>1 DEF vars, store, context
  <2> QED BY <2>1 DEF LoopKept, Iterated, At, Ran
<1>2. ASSUME NEW d \in Drivers, Step(d) \/ Cancel(d) PROVE LoopKept'
  <2>1. d = latest /\ latest' = latest
    BY <1>0, <1>2, Footprint
  <2> QED BY <1>0, <1>2, <2>1, LoopHead, LoopRoute, LoopSettle DEF Step, Orderly, Ordered
<1>3. ASSUME NEW d \in Drivers, ResumeLoad(d) PROVE LoopKept'
  <2>1. /\ pc[latest] = "interrupted" /\ pc' = [pc EXCEPT ![d] = "resuming"]
        /\ latest' = d /\ log' = log
        /\ counters'[d] = counters[latest] /\ cur'[d] = Name(dest[latest])
    BY <1>3, ResumeContinues DEF Orderly, Ordered, store
  <2>2. pc'[latest'] = "resuming" /\ dest[latest] \in Targets
    BY <1>0, <2>1 DEF TypeOK
  <2>3. \A n \in Nodes : (Name(dest[latest]) = n <=> dest[latest] = n)
                          /\ (Name(dest[latest]) \in Nodes => dest[latest] \in Nodes)
    BY <2>2, GraphAssumption DEF Name, Targets
  <2>4. At(latest) = dest[latest] /\ ~Ran(latest) /\ pc[latest] \notin Stopped
    BY <2>1 DEF At, Ran, Stopped
  <2> SUFFICES ASSUME NEW n \in Nodes, Edges[n].kind = "loop"
               PROVE  /\ Cardinality(Starts(log, n)) <= Edges[n].limit
                      /\ Iterated(n, Cardinality(Starts(log, n)), counters[latest][n],
                                  Name(dest[latest]), FALSE)
    BY <2>1, <2>2 DEF LoopKept, At, Ran, Iterated
  <2>5. /\ Cardinality(Starts(log, n)) <= Edges[n].limit
        /\ Iterated(n, Cardinality(Starts(log, n)), counters[latest][n], dest[latest], FALSE)
    BY <2>4 DEF LoopKept, Iterated
  <2> QED BY <2>3, <2>5 DEF Iterated
<1> QED BY <1>0, <1>1, <1>2, <1>3, NoFork DEF Next, Orderly

(* The log of a run without agents and forks, kept in a SQL store that has *)
(* a row for the run, and resumed where it returned as interrupted: it is  *)
(* numbered in order across all drivers, ends once and agrees with the     *)
(* stored status, for every graph.  This much holds of Postgres too.       *)
THEOREM LogStaysInOrder ==
  Ordered => (Spec => [](SequencesIncrease /\ EndsOnce /\ StatusAgrees))
<1> SUFFICES ASSUME Ordered PROVE Spec => [](SequencesIncrease /\ EndsOnce /\ StatusAgrees)
  OBVIOUS
<1> DEFINE Inv == LogShape /\ StatusKept
<1>1. Init => Inv
  BY LogShapeInit, StatusInit
<1>2. Inv /\ [Next]_vars => Inv'
  BY LogShapeStep, StatusStep DEF LogShape
<1>3. Inv => SequencesIncrease /\ EndsOnce /\ StatusAgrees
  BY DEF LogShape, StatusKept, StatusAgrees
<1> HIDE DEF Inv
<1> QED BY <1>1, <1>2, <1>3, PTL DEF Spec

(* Where the store also gives back the execution order and the counters of *)
(* a checkpoint, the log stays sound altogether, for every graph whose     *)
(* loops may run at all: it agrees with every checkpoint, and holds no     *)
(* more iterations of a loop than loop() allows.                           *)
THEOREM LogStaysSound == Orderly => (Spec => []LogIsSound)
<1> SUFFICES ASSUME Orderly PROVE Spec => []LogIsSound
  OBVIOUS
<1>0. Ordered /\ Keeping
  BY DEF Orderly
<1> DEFINE Inv == LogShape /\ StatusKept /\ LoopKept
<1>1. Init => Inv
  BY LogShapeInit, StatusInit, LoopInit
<1>2. Inv /\ [Next]_vars => Inv'
  <2> SUFFICES ASSUME Inv, [Next]_vars PROVE Inv'
    OBVIOUS
  <2>1. LogShape'
    BY <1>0, LogShapeStep
  <2>2. OneAtATime /\ OneAtATime' /\ Kept
    BY <2>1 DEF LogShape
  <2> QED BY <1>0, <2>1, <2>2, StatusStep, LoopStep
<1>3. Inv => LogIsSound
  BY <1>0 DEF LogShape, StatusKept, LoopKept, Starts, LogIsSound, StatusAgrees, LoopBounded
<1> HIDE DEF Inv
<1> QED BY <1>1, <1>2, <1>3, PTL DEF Spec

--------------------------------------------------------------------------------
(* The log and the state.                                                  *)

(* The runs whose state is what their nodes logged: no reducers, no human  *)
(* edits, no merged branches and no handoff payload, none of which         *)
(* NodeCompleted events carry.  Postgres keeps the drivers apart.          *)
Replayable ==
  /\ Store = "postgres" /\ Reduced = {} /\ HumanWrites \subseteq {{}}
  /\ \A n \in Nodes : /\ Edges[n].kind \notin {"parallel", "send"}
                      /\ Edges[n].kind = "handoff" => Payload \notin Fields

(* Every field of state s holds what its last writer in l wrote.           *)
ShownIn(l, s, f) ==
  IF WritersOf(f, l) = {} THEN s[f] = << >>
  ELSE \E i \in WritersOf(f, l) : s[f] = <<l[i].node>> /\ \A j \in WritersOf(f, l) : j <= i
Shows(l, s) == \A f \in Fields : ShownIn(l, s, f)

(* Where a driver is that may still complete nodes.                        *)
Holding == {"starting", "loop", "exec", "called", "route", "ask", "save"}

(* The driver that executes the run holds the state its log shows; so does *)
(* a checkpoint that can still be resumed, and whoever resumes it.         *)
ShowInv ==
  /\ OneExecutes
  /\ \A d \in Drivers : pc[d] # "fan" /\ (pc[d] \in Holding => Shows(log, st[d]))
  /\ \A d \in Drivers : pc[d] = "resuming" => Taken(log, seq[d] + 1) \/ Shows(log, st[d])
  /\ \A i \in DOMAIN checkpoints :
       Taken(log, checkpoints[i].seq + 1) \/ Shows(log, checkpoints[i].state)

(* Events other than NodeCompleted change nothing of what a log shows.     *)
LEMMA WritersStay ==
  ASSUME NEW l \in Seq(Event), NEW m \in Seq(Event), NEW by, Extends(l, m, by),
         m[Len(m)].type # "NodeCompleted", NEW f \in Fields
  PROVE  /\ WritersOf(f, m) = WritersOf(f, l)
         /\ \A i \in WritersOf(f, l) : m[i].node = l[i].node
<1>1. /\ DOMAIN l = 1 .. Len(l) /\ DOMAIN m = 1 .. Len(m) /\ Len(l) \in Nat
      /\ Len(m) = Len(l) + 1 /\ \A i \in 1 .. Len(l) : m[i] = l[i]
  BY DEF Extends
<1>2. \A i \in DOMAIN m : i \in DOMAIN l \/ i = Len(m)
  BY <1>1
<1>3. DOMAIN l \subseteq DOMAIN m
  BY <1>1
<1> QED BY <1>1, <1>2, <1>3 DEF WritersOf

LEMMA ShowsStays ==
  ASSUME TypeOK, TypeOK', NEW s, Shows(log, s),
         \/ log' = log
         \/ \E d, type, n, k : Wrote1(d, type, n, k) /\ type # "NodeCompleted"
  PROVE  Shows(log', s)
<1>1. CASE log' = log
  BY <1>1
<1>2. CASE \E d, type, n, k : Wrote1(d, type, n, k) /\ type # "NodeCompleted"
  <2>1. PICK d : Extends(log, log', d) /\ log'[Len(log')].type # "NodeCompleted"
    BY <1>2 DEF Wrote1
  <2>2. log \in Seq(Event) /\ log' \in Seq(Event)
    BY DEF TypeOK
  <2> SUFFICES ASSUME NEW f \in Fields PROVE ShownIn(log', s, f)
    BY DEF Shows
  <2>3. /\ WritersOf(f, log') = WritersOf(f, log)
        /\ \A i \in WritersOf(f, log) : log'[i].node = log[i].node
    BY <2>1, <2>2, WritersStay
  <2>4. ShownIn(log, s, f)
    BY DEF Shows
  <2> QED BY <2>3, <2>4 DEF ShownIn
<1> QED BY <1>1, <1>2

(* A completed node: its fields hold its contribution, the others stay.    *)
LEMMA ShowsMore ==
  ASSUME TypeOK, TypeOK', Reduced = {}, NEW s, Shows(log, s), NEW d, NEW n \in Nodes, NEW k,
         Wrote1(d, "NodeCompleted", n, k)
  PROVE  Shows(log', ApplyUpdate(s, Writes[n], n))
<1> SUFFICES ASSUME NEW f \in Fields PROVE ShownIn(log', ApplyUpdate(s, Writes[n], n), f)
  BY DEF Shows
<1>0. log \in Seq(Event) /\ log' \in Seq(Event)
  BY DEF TypeOK
<1>1. /\ DOMAIN log = 1 .. Len(log) /\ DOMAIN log' = 1 .. Len(log') /\ Len(log) \in Nat
      /\ Len(log') = Len(log) + 1 /\ \A i \in 1 .. Len(log) : log'[i] = log[i]
  BY <1>0 DEF Wrote1, Extends
<1>2. log'[Len(log')].type = "NodeCompleted" /\ log'[Len(log')].node = n
  BY DEF Wrote1
<1>3. /\ \A i \in DOMAIN log' : i \in DOMAIN log \/ i = Len(log')
      /\ DOMAIN log \subseteq DOMAIN log' /\ Len(log') \in DOMAIN log'
      /\ Len(log') \notin DOMAIN log
  BY <1>1
<1>4. ShownIn(log, s, f)
  BY DEF Shows
<1>5. CASE f \in Writes[n]
  <2>1. ApplyUpdate(s, Writes[n], n)[f] = <<n>>
    BY <1>5 DEF ApplyUpdate
  <2>2. Len(log') \in WritersOf(f, log')
    BY <1>2, <1>3, <1>5 DEF WritersOf
  <2>3. \A j \in WritersOf(f, log') : j <= Len(log')
    BY <1>1 DEF WritersOf
  <2> QED BY <1>2, <2>1, <2>2, <2>3 DEF ShownIn
<1>6. CASE f \notin Writes[n]
  <2>1. ApplyUpdate(s, Writes[n], n)[f] = s[f]
    BY <1>6 DEF ApplyUpdate
  <2>2. /\ WritersOf(f, log') = WritersOf(f, log)
        /\ \A i \in WritersOf(f, log) : log'[i].node = log[i].node
    BY <1>1, <1>2, <1>3, <1>6 DEF WritersOf
  <2> QED BY <1>4, <2>1, <2>2 DEF ShownIn
<1> QED BY <1>5, <1>6

LEMMA ShownIsProjected ==
  ASSUME TypeOK, NEW s \in State, Shows(log, s)
  PROVE  s = [f \in Fields |-> Projected(f)]
<1>1. ASSUME NEW f \in Fields PROVE s[f] = Projected(f)
  <2>1. ShownIn(log, s, f)
    BY DEF Shows
  <2>2. \A i \in WritersOf(f, log) : i \in Nat
    BY DEF WritersOf, TypeOK
  <2>3. CASE WritersOf(f, log) = {}
    BY <2>1, <2>3 DEF ShownIn, Projected
  <2>4. CASE WritersOf(f, log) # {}
    <3>1. PICK i \in WritersOf(f, log) :
            s[f] = <<log[i].node>> /\ \A j \in WritersOf(f, log) : j <= i
      BY <2>1, <2>4 DEF ShownIn
    <3>2. \A e \in WritersOf(f, log) : (\A j \in WritersOf(f, log) : j <= e) => e = i
      BY <2>2, <3>1
    <3>3. (CHOOSE e \in WritersOf(f, log) : \A j \in WritersOf(f, log) : j <= e) = i
      BY <3>1, <3>2
    <3> QED BY <2>4, <3>1, <3>3 DEF Projected
  <2> QED BY <2>3, <2>4
<1> QED BY <1>1 DEF State

(* What a step adds to the log and to its driver's state.                  *)
Unshown ==
  log' = log \/ \E d, type, n, k : Wrote1(d, type, n, k) /\ type # "NodeCompleted"
Keeps(d) ==
  /\ Unshown /\ st' = st /\ pc'[d] # "fan"
  /\ pc'[d] \in Holding => pc[d] \in Holding \cup {"resuming"}

LEMMA HandoffIsPure ==
  ASSUME Replayable, TypeOK, NEW d \in Drivers, cur[d] \in Nodes, Edge(d).kind = "handoff"
  PROVE  HandoffUpdate(st[d], cur[d]) = st[d]
<1>1. Payload \notin Fields /\ Reduced = {}
  BY DEF Replayable, Edge
<1>2. st[d] \in [Fields -> Seq(Writers)]
  BY DEF TypeOK, State
<1>3. HandoffUpdate(st[d], cur[d]) = [f \in Fields |-> st[d][f]]
  BY <1>1 DEF HandoffUpdate
<1> QED BY <1>2, <1>3

LEMMA DeliverKeeps ==
  ASSUME TypeOK, NEW d \in Drivers, NEW t, Deliver(d, t, st[d])
  PROVE  st' = st
BY DEF Deliver, TypeOK

LEMMA StateSteps ==
  ASSUME Replayable, TypeOK, AtNode, NEW d \in Drivers, pc[d] # "fan", Step(d) \/ Cancel(d)
  PROVE  NodeReturn(d) \/ Keeps(d)
<1> USE DEF Holding
<1>0. pc \in [Drivers -> PCs] /\ cur[d] \in Targets \cup {EndName} /\ Entry \in Targets \cup {EndName}
  BY GraphAssumption DEF TypeOK, PCs, Targets
<1>e. ASSUME NEW type \in EventTypes \ {"NodeCompleted"}, NEW n \in Targets \cup {EndName},
             NEW ok \in PCs \ {"fan"}, NEW raised \in {"failing", "raised"},
             Emit(d, type, n, ok, raised), st' = st,
             ok \in Holding => pc[d] \in Holding \cup {"resuming"}
      PROVE  Keeps(d)
  <2>1. Unshown
    <3>1. \/ Wrote1(d, type, n, seq[d] + 1)
          \/ log' = log
      BY <1>e, EmitWrites
    <3> QED BY <1>e, <3>1 DEF Unshown
  <2>2. pc'[d] \in {ok, raised}
    BY <1>e, EmitMoves
  <2> QED BY <1>e, <2>1, <2>2 DEF Keeps
<1>g. ASSUME NEW l \in PCs \ {"fan"}, Goto(d, l), log' = log, st' = st,
             l \in Holding => pc[d] \in Holding
      PROVE  Keeps(d)
  <2>1. pc'[d] = l
    BY <1>g, GotoMoves
  <2> QED BY <1>g, <2>1 DEF Keeps, Unshown
<1> USE DEF EventTypes, PCs, Active, Settled
<1>1. CASE Start(d) \/ ResumeEmit(d)
  BY <1>0, <1>1, <1>e DEF Start, ResumeEmit, context
<1>2. CASE Loop(d)
  <2>1. CASE InterruptBefore(d) \/ StartNode(d)
    BY <1>0, <1>e, <2>1 DEF InterruptBefore, StartNode, NewTurn
  <2>2. CASE UnknownNode(d) \/ TurnLimit(d) \/ ReachEnd(d)
    BY <1>g, <2>2 DEF UnknownNode, TurnLimit, ReachEnd, NewTurn, store, context
  <2> QED BY <1>2, <2>1, <2>2 DEF Loop
<1>3. CASE Execute(d) /\ ~NodeReturn(d)
  <2>1. CASE LLMCall(d)
    <3>1. pc'[d] \in {"called", "failing"} /\ pc[d] = "exec" /\ st' = st
      BY <1>0, <2>1 DEF LLMCall, Goto, context
    <3>2. Unshown
      <4>1. Append1(d, "LLMCalled", cur[d], 0) \/ log' = log
        BY <2>1 DEF LLMCall
      <4>2. Append1(d, "LLMCalled", cur[d], 0) => Wrote1(d, "LLMCalled", cur[d], 0)
        BY <1>0, AppendWrites
      <4> QED BY <4>1, <4>2 DEF Unshown
    <3> QED BY <3>1, <3>2 DEF Keeps
  <2>2. CASE NodeRaise(d)
    BY <1>g, <2>2 DEF NodeRaise, store, context
  <2> QED BY <1>3, <2>1, <2>2 DEF Execute
<1>4. CASE ResolveNext(d)
  <2>1. /\ pc[d] = "route" /\ cur[d] \in Nodes
        /\ FollowEdge(d) \/ LoopEdge(d) \/ RouteRaise(d) \/ NoHandoff(d) \/ Handoff(d)
    <3>1. pc[d] \in {"route", "fan"}
      BY <1>4 DEF ResolveNext, FollowEdge, LoopEdge, RouteRaise, NoHandoff, Handoff, FanOut,
                  Join, BranchCall, BranchEnd
    <3>2. pc[d] = "route" /\ cur[d] \in Nodes
      BY <3>1 DEF AtNode
    <3>3. Edge(d).kind \notin {"parallel", "send"}
      BY <3>2 DEF Replayable, Edge
    <3> QED BY <1>4, <3>2, <3>3 DEF ResolveNext, FanOut, Join, BranchCall, BranchEnd
  <2>2. CASE Handoff(d)
    <3>1. Emit(d, "HandoffInitiated", cur[d], Routed(d), "failing")
      BY <2>2 DEF Handoff
    <3>2. st' = st
      <4>1. CASE pc'[d] # "failing"
        <5>1. PICK t : Deliver(d, t, HandoffUpdate(st[d], cur[d]))
          BY <2>2, <4>1 DEF Handoff
        <5>2. HandoffUpdate(st[d], cur[d]) = st[d]
          BY <2>1, <2>2, HandoffIsPure DEF Handoff
        <5> QED BY <5>1, <5>2, DeliverKeeps
      <4>2. CASE pc'[d] = "failing"
        BY <2>2, <4>2 DEF Handoff
      <4> QED BY <4>1, <4>2
    <3> QED BY <1>0, <1>e, <2>1, <3>1, <3>2 DEF Routed
  <2>3. CASE RouteRaise(d)
    BY <1>g, <2>3 DEF RouteRaise, store, context
  <2>4. CASE FollowEdge(d) \/ LoopEdge(d) \/ NoHandoff(d)
    <3>1. PICK t : Deliver(d, t, st[d])
      BY <2>4 DEF FollowEdge, LoopEdge, NoHandoff
    <3>2. st' = st
      BY <3>1, DeliverKeeps
    <3>3. Goto(d, Routed(d)) /\ log' = log
      BY <2>4 DEF FollowEdge, LoopEdge, NoHandoff, store
    <3> QED BY <1>g, <2>1, <3>2, <3>3 DEF Routed
  <2> QED BY <2>1, <2>2, <2>3, <2>4
<1>5. CASE Settle(d)
  <2>1. CASE InterruptAfter(d) \/ Fail(d) \/ FailCompleted(d) \/ Finish(d)
    BY <1>0, <1>e, <2>1 DEF InterruptAfter, Fail, FailCompleted, Finish, context
  <2>2. CASE FailStatus(d) \/ FinishStatus(d)
    BY <1>g, <2>2 DEF FailStatus, FinishStatus, AfterFailure, context
  <2>3. CASE SaveCheckpoint(d)
    BY <1>g, <2>3 DEF SaveCheckpoint, context
  <2>4. CASE SaveFails(d)
    BY <1>g, <2>4 DEF SaveFails, store, context
  <2> QED BY <1>5, <2>1, <2>2, <2>3, <2>4 DEF Settle
<1>6. CASE Cancel(d)
  BY <1>g, <1>6 DEF Cancel, store, context
<1> QED BY <1>1, <1>2, <1>3, <1>4, <1>5, <1>6 DEF Step, Execute

LEMMA ShowInit == Replayable /\ Init => ShowInv
<1> SUFFICES ASSUME Init PROVE ShowInv
  OBVIOUS
<1>1. OneExecutes
  BY OneExecutesInit
<1>2. Shows(log, EmptyState)
  BY DEF Init, Shows, ShownIn, WritersOf, EmptyState
<1>3. checkpoints = << >> /\ \A d \in Drivers : pc[d] \in {"idle", "starting"} /\ st[d] = EmptyState
  BY DEF Init
<1> QED BY <1>1, <1>2, <1>3 DEF ShowInv, Holding

(* The step of a driver that executes the run: no checkpoint is left that  *)
(* another one could resume.                                               *)
LEMMA ShowExecutes ==
  ASSUME Replayable, ShowInv, OneExecutes', NEW d \in Drivers, Step(d) \/ Cancel(d),
         pc[d] \in Executing, ~SaveCheckpoint(d)
  PROVE  ShowInv'
<1>0. /\ OneExecutes /\ TypeOK /\ AtNode /\ TypeOK' /\ pc[d] # "fan"
      /\ \A e \in Drivers : pc[e] # "fan"
  BY DEF ShowInv, OneExecutes
<1>1. /\ Moves(d) /\ checkpoints' = checkpoints /\ Logs(d)
  BY <1>0, Footprint
<1>2. \A i \in DOMAIN checkpoints : Taken(log', checkpoints[i].seq + 1)
  <2>1. log' = log \/ \E b, type, n, k : Wrote1(b, type, n, k)
    BY <1>1 DEF Logs
  <2> QED BY <1>0, <2>1, TakenStays DEF OneExecutes
<1>3. \A e \in Drivers : e # d => pc'[e] = pc[e] /\ seq'[e] = seq[e]
  BY <1>0, <1>1 DEF Moves, Logs, TypeOK
<1>4. ASSUME NEW e \in Drivers, pc'[e] = "resuming" PROVE Taken(log', seq'[e] + 1)
  <2>1. e # d
    BY <1>0, <1>1, <1>4 DEF Moves, TypeOK
  <2>2. PICK i \in DOMAIN checkpoints : seq[e] = checkpoints[i].seq
    BY <1>3, <1>4, <2>1 DEF OneExecutes, ShowInv
  <2> QED BY <1>2, <1>3, <2>1, <2>2
<1>5. \A e \in Drivers : pc'[e] \in Holding => e = d
  <2>1. \A e \in Drivers : pc[e] \in Holding => pc[e] \in Executing
    BY DEF Holding, Executing, Active
  <2> QED BY <1>0, <1>3, <2>1 DEF OneExecutes
<1>6. pc'[d] # "fan" /\ (pc'[d] \in Holding => Shows(log', st'[d]))
  <2>1. CASE NodeReturn(d)
    <3>1. /\ Emit(d, "NodeCompleted", cur[d], "route", "failing") /\ cur[d] \in Nodes
          /\ st' = [st EXCEPT ![d] = ApplyUpdate(st[d], Writes[cur[d]], cur[d])]
          /\ pc[d] \in {"exec", "called"}
      BY <1>0, <2>1 DEF NodeReturn, AtNode
    <3>2. \/ Wrote1(d, "NodeCompleted", cur[d], seq[d] + 1) /\ pc' = [pc EXCEPT ![d] = "route"]
          \/ pc' = [pc EXCEPT ![d] = "failing"]
      BY <1>0, <3>1, EmitWrites DEF EventTypes, Targets
    <3>3. st'[d] = ApplyUpdate(st[d], Writes[cur[d]], cur[d]) /\ Shows(log, st[d])
      BY <1>0, <3>1 DEF TypeOK, ShowInv, Holding
    <3>4. Wrote1(d, "NodeCompleted", cur[d], seq[d] + 1) => Shows(log', st'[d])
      BY <1>0, <3>1, <3>3, ShowsMore DEF Replayable
    <3>5. pc'[d] = "failing" \/ (pc'[d] = "route" /\ Shows(log', st'[d]))
      BY <1>0, <3>2, <3>4 DEF TypeOK
    <3> QED BY <3>5 DEF Holding
  <2>2. CASE Keeps(d)
    <3>1. pc'[d] \in Holding => Shows(log, st[d])
      BY <2>2 DEF Keeps, ShowInv, Executing
    <3> QED BY <1>0, <2>2, <3>1, ShowsStays DEF Keeps, Unshown
  <2> QED BY <1>0, <2>1, <2>2, StateSteps
<1>7. \A e \in Drivers : pc'[e] # "fan"
  BY <1>0, <1>3, <1>6
<1> QED BY <1>1, <1>2, <1>4, <1>5, <1>6, <1>7 DEF ShowInv

LEMMA ShowStep ==
  ASSUME Replayable, ShowInv, [Next]_vars
  PROVE  ShowInv'
<1>0. OneExecutes /\ TypeOK /\ AtNode /\ \A e \in Drivers : pc[e] # "fan"
  BY DEF ShowInv, OneExecutes
<1>1. OneExecutes' /\ TypeOK'
  <2>1. OneExecutes'
    BY <1>0, OneExecutesStep DEF Replayable
  <2> QED BY <2>1 DEF OneExecutes
<1>t. ASSUME Unshown, NEW s, Taken(log, s) PROVE Taken(log', s)
  BY <1>0, <1>1, <1>t, TakenStays DEF Unshown
<1>s. ASSUME Unshown, NEW s, Shows(log, s) PROVE Shows(log', s)
  BY <1>0, <1>1, <1>s, ShowsStays DEF Unshown
<1>2. CASE UNCHANGED vars \/ Fork
  <2>1. UNCHANGED <<checkpoints, pc, seq, st>>
    BY <1>2 DEF vars, store, context, Fork
  <2>2. Unshown
    <3>1. Append1(Forker, "ForkCreated", Entry, 0) => Wrote1(Forker, "ForkCreated", Entry, 0)
      BY <1>0, AppendWrites, GraphAssumption DEF EventTypes, Targets
    <3> QED BY <1>2, <3>1 DEF vars, store, Fork, Unshown
  <2> QED BY <1>1, <1>t, <1>s, <2>1, <2>2 DEF ShowInv
<1>3. ASSUME NEW d \in Drivers, ResumeLoad(d) PROVE ShowInv'
  <2>1. PICK i \in DOMAIN checkpoints, fs \in HumanWrites :
          /\ st' = [st EXCEPT ![d] = Overwrite(checkpoints[i].state, fs, Human)]
          /\ seq' = [seq EXCEPT ![d] = checkpoints[i].seq]
    BY <1>3 DEF ResumeLoad, ResumeSeq
  <2>2. pc' = [pc EXCEPT ![d] = "resuming"] /\ log' = log /\ checkpoints' = checkpoints
    BY <1>3 DEF ResumeLoad, Goto, store
  <2>3. /\ pc'[d] = "resuming" /\ seq'[d] = checkpoints[i].seq
        /\ \A e \in Drivers : e # d => pc'[e] = pc[e] /\ seq'[e] = seq[e] /\ st'[e] = st[e]
        /\ st'[d] = Overwrite(checkpoints[i].state, {}, Human)
    BY <1>0, <2>1, <2>2 DEF TypeOK, Replayable
  <2>4. st'[d] = checkpoints[i].state
    <3>1. checkpoints[i].state \in [Fields -> Seq(Writers)]
      <4>1. checkpoints[i] \in Checkpoint
        BY <1>0 DEF TypeOK
      <4> QED BY <4>1 DEF Checkpoint, State
    <3>2. Overwrite(checkpoints[i].state, {}, Human) = [f \in Fields |-> checkpoints[i].state[f]]
      BY DEF Overwrite
    <3> QED BY <2>3, <3>1, <3>2
  <2>5. Taken(log, seq'[d] + 1) \/ Shows(log, st'[d])
    BY <2>3, <2>4 DEF ShowInv
  <2>6. "resuming" \notin Holding
    BY DEF Holding
  <2> QED BY <1>1, <2>2, <2>3, <2>5, <2>6 DEF ShowInv
<1>4. ASSUME NEW d \in Drivers, Step(d) \/ Cancel(d) PROVE ShowInv'
  <2>1. /\ pc[d] \in Active /\ Moves(d)
        /\ pc[d] = "resuming" => ResumeEmit(d) \/ Cancel(d)
        /\ SaveCheckpoint(d) \/ (checkpoints' = checkpoints /\ Logs(d))
    BY <1>0, <1>4, Footprint
  <2>2. /\ pc'[d] # "resuming" /\ \A e \in Drivers : e # d => pc'[e] = pc[e]
    BY <1>0, <2>1 DEF Moves, TypeOK
  <2>3. CASE SaveCheckpoint(d)
    <3>1. /\ seq' = [seq EXCEPT ![d] = seq[d] + 1] /\ log' = log /\ st' = st
          /\ pc[d] = "save" /\ pc' = [pc EXCEPT ![d] = "interrupted"]
          /\ \A i \in DOMAIN checkpoints : checkpoints'[i] = checkpoints[i]
          /\ checkpoints'[Len(checkpoints')].state = st[d]
          /\ Len(checkpoints') = Len(checkpoints) + 1
      <4>1. st' = st
        BY <2>3 DEF SaveCheckpoint, context
      <4>2. checkpoints'[Len(checkpoints')] =
              [node |-> Name(dest[d]), itype |-> itype[d], state |-> st[d],
               seq |-> seq[d] + 1, counters |-> counters[d], order |-> order[d]]
        BY <1>0, <2>3, SaveAppends, Zenon
      <4>3. checkpoints'[Len(checkpoints')].state = st[d]
        BY <4>2
      <4>4. /\ seq' = [seq EXCEPT ![d] = seq[d] + 1] /\ log' = log
            /\ pc[d] = "save" /\ pc' = [pc EXCEPT ![d] = "interrupted"]
            /\ \A i \in DOMAIN checkpoints : checkpoints'[i] = checkpoints[i]
            /\ Len(checkpoints') = Len(checkpoints) + 1
        BY <1>0, <2>3, SaveAppends, Zenon
      <4> QED BY <4>1, <4>3, <4>4
    <3>2. \A i \in DOMAIN checkpoints' : i \in DOMAIN checkpoints \/ i = Len(checkpoints')
      <4>1. checkpoints \in Seq(Checkpoint) /\ checkpoints' \in Seq(Checkpoint)
        BY <1>0, <1>1 DEF TypeOK
      <4> QED BY <3>1, <4>1
    <3>3. Shows(log, st[d])
      BY <3>1 DEF ShowInv, Holding
    <3>4. \A e \in Drivers : e # d => seq'[e] = seq[e]
      BY <1>0, <3>1 DEF TypeOK
    <3>5. pc'[d] = "interrupted" /\ "interrupted" \notin Holding
      BY <1>0, <3>1 DEF TypeOK, Holding
    <3>6. \A i \in DOMAIN checkpoints' :
            Taken(log', checkpoints'[i].seq + 1) \/ Shows(log', checkpoints'[i].state)
      BY <3>1, <3>2, <3>3 DEF ShowInv
    <3> QED BY <1>1, <2>2, <3>1, <3>4, <3>5, <3>6 DEF ShowInv
  <2>4. CASE pc[d] \in Executing /\ ~SaveCheckpoint(d)
    BY <1>1, <1>4, <2>4, ShowExecutes
  <2>5. CASE pc[d] = "resuming" /\ ~SaveCheckpoint(d)
    <3>1. /\ checkpoints' = checkpoints /\ \A e \in Drivers : e # d => seq'[e] = seq[e]
      BY <1>0, <2>1, <2>5 DEF Logs, TypeOK
    <3>2. Keeps(d)
      <4>1. pc[d] # IF cur[d] \in Agents THEN "called" ELSE "exec"
        BY <2>5
      <4> QED BY <1>0, <1>4, <4>1, StateSteps DEF NodeReturn
    <3>3. pc'[d] \in Holding => Shows(log', st'[d])
      <4> SUFFICES ASSUME pc'[d] \in Holding PROVE Shows(log', st[d])
        BY <3>2 DEF Keeps
      <4>1. ResumeEmit(d)
        <5>1. Cancel(d) => pc'[d] = "cancelled"
          BY <1>0, GotoMoves DEF Cancel
        <5> QED BY <2>1, <2>5, <5>1 DEF Holding
      <4>2. Emit(d, "InterruptResumed", cur[d], "loop", "raised") /\ pc'[d] # "raised"
        BY <4>1 DEF ResumeEmit, Holding
      <4>3. Storable(seq[d] + 1)
        <5>1. Storable(seq[d] + 1) \/ Goto(d, "raised")
          BY <4>2 DEF Emit
        <5>2. Goto(d, "raised") => pc'[d] = "raised"
          BY <1>0, GotoMoves
        <5> QED BY <4>2, <5>1, <5>2
      <4>4. ~Taken(log, seq[d] + 1)
        BY <4>3 DEF Storable, Taken, Replayable
      <4> QED BY <1>s, <2>5, <3>2, <4>4 DEF ShowInv, Keeps
    <3>4. ASSUME NEW e \in Drivers, e # d, pc[e] \in Holding PROVE Shows(log', st[e])
      BY <1>s, <3>2, <3>4 DEF ShowInv, Keeps
    <3>5. ASSUME NEW e \in Drivers, e # d, pc[e] = "resuming"
          PROVE  Taken(log', seq[e] + 1) \/ Shows(log', st[e])
      BY <1>s, <1>t, <3>2, <3>5 DEF ShowInv, Keeps
    <3>6. \A i \in DOMAIN checkpoints :
            Taken(log', checkpoints[i].seq + 1) \/ Shows(log', checkpoints[i].state)
      BY <1>s, <1>t, <3>2 DEF ShowInv, Keeps
    <3> QED BY <1>0, <1>1, <2>2, <3>1, <3>2, <3>3, <3>4, <3>5, <3>6 DEF ShowInv, Keeps
  <2> QED BY <2>1, <2>3, <2>4, <2>5 DEF Executing
<1> QED BY <1>2, <1>3, <1>4 DEF Next

(* Whoever resumes the run and whatever is lost on the way, replaying the  *)
(* log gives the state that the driver at work holds after a node: the     *)
(* views of storage/store.py project_state and of debugging/timetravel.py. *)
THEOREM LogShowsState == Replayable => (Spec => []ProjectionIsState)
<1> SUFFICES ASSUME Replayable PROVE Spec => []ProjectionIsState
  OBVIOUS
<1>1. ShowInv /\ [Next]_vars => ShowInv'
  BY ShowStep
<1>2. ShowInv => ProjectionIsState
  <2> SUFFICES ASSUME ShowInv, pc[latest] = "route"
               PROVE  st[latest] = [f \in Fields |-> Projected(f)]
    BY DEF ProjectionIsState
  <2>1. TypeOK /\ latest \in Drivers /\ st[latest] \in State
    BY DEF ShowInv, OneExecutes, TypeOK
  <2>2. Shows(log, st[latest])
    BY <2>1 DEF ShowInv, Holding
  <2> QED BY <2>1, <2>2, ShownIsProjected
<1>3. Init => ShowInv
  BY ShowInit
<1> QED BY <1>1, <1>2, <1>3, PTL DEF Spec
================================================================================
