---------------------------- MODULE GraphBuilder ----------------------------
(***************************************************************************)
(* The builder of workflow graphs (core/graph.py): calls that add nodes    *)
(* and edges, fluently one after the other or explicitly in any order, and *)
(* compile(), which validates what it hands to CompiledGraph.  A call that *)
(* raises may have added nodes before.                                     *)
(*                                                                         *)
(* The engine takes the first edge of a node and ignores the others, so    *)
(* the order of the edges is part of the state.  What nodes are made of    *)
(* and their interrupts are left out; a builder is used through one half   *)
(* of its API.                                                             *)
(***************************************************************************)
EXTENDS Integers, Sequences, SequencesExt

CONSTANTS
  Names,      \* what callers call their nodes
  MaxEdges    \* bound: the edges of a builder, for each style

(* The name of the end is reserved.                                        *)
BuilderAssumption == "END" \notin Names

VARIABLES
  style,      \* the half of the API that is used, "fluent" or "explicit"
  nodes,      \* _nodes: the ids that exist
  edges,      \* _edges, in order
  handoffs,   \* _handoff_edges
  entry,      \* _entry_point
  last,       \* _last_node
  parallel,   \* _parallel_nodes
  asked,      \* <<a, b>>: a fluent call said that b follows a (not in the code)
  compiled    \* the last call was a compile() that returned the graph as it is

bVars == <<style, nodes, edges, handoffs, entry, last, parallel, asked, compiled>>

(* An id is <<name>>, or <<name, i>> when parallel() has renamed it.       *)
End == <<"END">>
None == <<>>
Plain == {<<n>> : n \in Names}
Targets == Plain \cup {End}

Edge(from, to) == [kind |-> "edge", from |-> from, to |-> <<to>>, join |-> None]
Conditional(from, to) == [kind |-> "conditional", from |-> from, to |-> to, join |-> None]
Repeat(node) == [kind |-> "loop", from |-> node, to |-> <<node, End>>, join |-> None]
Parallel(from, to, join) == [kind |-> "parallel", from |-> from, to |-> to, join |-> join]

Init ==
  /\ style \in {"fluent", "explicit"}
  /\ nodes = {} /\ edges = <<>> /\ handoffs = <<>> /\ entry = None
  /\ last = None /\ parallel = None /\ asked = {} /\ compiled = FALSE

-----------------------------------------------------------------------------
(* add_node: the first node becomes the entry.                             *)
Adds(ids) ==
  /\ nodes' = nodes \cup ToSet(ids)
  /\ entry' = IF entry = None /\ ids # <<>> THEN ids[1] ELSE entry
(* Nodes that are named are only added if they are new, and END never.     *)
AddsNew(ids) ==
  LET first == SelectInSeq(ids, LAMBDA id : id \notin nodes \cup {End}) IN
  /\ nodes' = nodes \cup (ToSet(ids) \ {End})
  /\ entry' = IF entry = None /\ first # 0 THEN ids[first] ELSE entry

(* What goes on from the last node, if there is one; what is asked for is  *)
(* only recorded where nothing was before.                                 *)
First(id) == SelectInSeq(edges, LAMBDA e : e.from = id)
GoesOn(id) == First(id) # 0
Linked(edge) == IF last = None THEN edges ELSE Append(edges, edge)
Follow(ids) == IF last = None \/ GoesOn(last) THEN {} ELSE {<<last, id>> : id \in ids}

(* then() and subgraph().                                                  *)
Then(id) ==
  /\ id \notin nodes
  /\ Adds(<<id>>)
  /\ edges' = Linked(Edge(last, id)) /\ asked' = asked \cup Follow({id})
  /\ last' = id
  /\ UNCHANGED parallel

(* parallel(): an id that exists is renamed after its position, and if     *)
(* that exists as well the call raises with the nodes before it added.     *)
Fan(ids) ==
  FoldLeft(LAMBDA f, id :
    LET new == IF id \in nodes \cup ToSet(f.ids) THEN Append(id, Len(f.ids)) ELSE id
    IN  IF f.raised \/ new \in nodes \cup ToSet(f.ids) THEN [f EXCEPT !.raised = TRUE]
        ELSE [f EXCEPT !.ids = Append(f.ids, new)],
    [ids |-> None, raised |-> FALSE], ids)

FanOut(ids) ==
  LET fan == Fan(ids) IN
  /\ Adds(fan.ids)
  /\ IF fan.raised \/ parallel # None
     THEN UNCHANGED <<edges, last, parallel, asked>>
     ELSE /\ edges' = Linked(Parallel(last, fan.ids, None))
          /\ asked' = asked \cup Follow(ToSet(fan.ids))
          /\ parallel' = fan.ids /\ last' = None

(* join(): the first parallel edge with these targets and no join gets it. *)
Unjoined == SelectInSeq(edges, LAMBDA e : e.kind = "parallel" /\ e.to = parallel /\ e.join = None)
Joined(id) == IF Unjoined = 0 THEN edges ELSE [edges EXCEPT ![Unjoined] = Parallel(@.from, @.to, id)]
Join(id) ==
  /\ parallel # None /\ id \notin nodes
  /\ Adds(<<id>>)
  /\ edges' = Joined(id)
  /\ asked' = asked \cup {<<n, id>> : n \in {n \in nodes : First(n) = Unjoined /\ GoesOn(n)}}
  /\ parallel' = None /\ last' = id

(* branch(): its targets are nodes, which are added, or only their ids.    *)
Branch(to, given) ==
  /\ last # None
  /\ AddsNew(IF given THEN to ELSE <<>>)
  /\ edges' = Append(edges, Conditional(last, to)) /\ asked' = asked \cup Follow(ToSet(to))
  /\ last' = None
  /\ UNCHANGED parallel

(* if_then(): with no last node the condition is dropped.                  *)
IfThen(yes, no) ==
  /\ AddsNew(<<yes, no>>)
  /\ edges' = Linked(Conditional(last, <<yes, no>>)) /\ asked' = asked \cup Follow({yes, no})
  /\ last' = None
  /\ UNCHANGED parallel

Loop(id) ==
  /\ AddsNew(<<id>>)
  /\ edges' = Append(IF last = id THEN edges ELSE Linked(Edge(last, id)), Repeat(id))
  /\ asked' = asked \cup Follow({id}) \cup (IF GoesOn(id) THEN {} ELSE {<<id, id>>})
  /\ last' = id
  /\ UNCHANGED parallel

Fluent ==
  /\ style = "fluent"
  /\ \E id \in Plain :
       \/ Then(id)
       \/ Join(id)
       \/ Loop(id)
       \/ \E other \in Targets : IfThen(id, other)
       \/ \E other \in Targets, given \in BOOLEAN : Branch(<<id, other>>, given)
       \/ \E other \in Plain : FanOut(<<id>>) \/ FanOut(<<id, other>>)
  /\ compiled' = FALSE
  /\ UNCHANGED <<style, handoffs>>

-----------------------------------------------------------------------------
(* The explicit calls check nothing but the id of a new node.              *)
AddNode(id) == id \notin nodes /\ Adds(<<id>>) /\ UNCHANGED edges
AddEdge(edge) == edges' = Append(edges, edge) /\ UNCHANGED <<nodes, entry>>
SetEntryPoint(id) == entry' = id /\ UNCHANGED <<nodes, edges>>

Explicit ==
  /\ style = "explicit"
  /\ \E id \in Plain :
       \/ AddNode(id)
       \/ SetEntryPoint(id)
       \/ \E to \in Targets : AddEdge(Edge(id, to))
       \/ \E to \in Targets : AddEdge(Conditional(id, <<to, End>>))
       \/ \E to \in Plain, join \in Targets \cup {None} : AddEdge(Parallel(id, <<to>>, join))
  /\ compiled' = FALSE
  /\ UNCHANGED <<style, handoffs, last, parallel, asked>>

(* Handoffs go with both halves of the API.                                *)
AddHandoff ==
  /\ handoffs = <<>>
  /\ \E from, to \in Plain : handoffs' = <<from, to>>
  /\ compiled' = FALSE
  /\ UNCHANGED <<style, nodes, edges, entry, last, parallel, asked>>

-----------------------------------------------------------------------------
(* compile(): _validate looks at sources and targets, and neither at joins *)
(* nor at handoffs; a last node that goes nowhere gets an edge to END,     *)
(* which the builder keeps.                                                *)
Exists(id) == id \in nodes \cup {End}
Slip_Validated(edge) == edge.from \in nodes
Validated(edge) ==
  /\ edge.from \in nodes
  /\ \A i \in DOMAIN edge.to : Exists(edge.to[i])
Valid == nodes # {} /\ entry \in nodes /\ \A i \in DOMAIN edges : Validated(edges[i])

Closed == IF last = None \/ GoesOn(last) THEN edges ELSE Append(edges, Edge(last, End))

Compile ==
  /\ Valid
  /\ edges' = Closed
  /\ compiled' = TRUE
  /\ UNCHANGED <<style, nodes, handoffs, entry, last, parallel, asked>>

Bounded == Len(edges') + Len(handoffs') <= MaxEdges[style]
Next == (Fluent \/ Explicit \/ AddHandoff \/ Compile) /\ Bounded
Spec == Init /\ [][Next]_bVars

-----------------------------------------------------------------------------
(* What the engine can do after a node: the first edge decides, handoffs   *)
(* are for nodes without one.                                              *)
Goes(e) == ToSet(e.to) \cup (IF e.kind = "parallel" THEN {IF e.join = None THEN End ELSE e.join} ELSE {})
After(id) ==
  IF GoesOn(id) THEN Goes(edges[First(id)])
  ELSE {IF handoffs # <<>> /\ handoffs[1] = id THEN handoffs[2] ELSE End}

(* A compiled graph is what the engine takes for granted and what the      *)
(* caller asked for: it begins and goes on at nodes that exist (a join or  *)
(* a handoff that was named explicitly is not checked), and what fluent    *)
(* calls put after a node that went nowhere, a join included, is where the *)
(* engine can go from there, whatever was called and compiled in between   *)
(* (core/graph.py compile(), core/compiled.py _resolve_next).              *)
BuiltAsAsked == compiled =>
  /\ entry \in nodes
  /\ \A e \in ToSet(edges) :
       /\ e.from \in nodes
       /\ (IF style = "fluent" THEN Goes(e) ELSE ToSet(e.to)) \subseteq nodes \cup {End}
  /\ \A p \in asked : p[2] \in After(p[1])

(* "Add a node and connect it sequentially to the previous node": does not *)
(* hold for then() behind loop(), whose node ends the run instead, nor     *)
(* behind a graph that was compiled before.                                *)
EveryNodeFollows ==
  compiled /\ style = "fluent" => \A id \in nodes \ {entry} : \E n \in nodes : id \in After(n)
=============================================================================
