---------------------------- MODULE TreeOfThoughts -----------------------------
(***************************************************************************)
(* TreeOfThoughtsAgent: the model proposes the next thoughts of a chain    *)
(* and rates each; a beam search keeps the best of every level, the        *)
(* depth-first search goes down the best and comes back from dead ends.    *)
(***************************************************************************)
EXTENDS Integers, Sequences, SequencesExt, FiniteSetsExt

CONSTANTS
  Strategies,   \* "bfs", "dfs"
  Breadth, Beam, MaxDepth

VARIABLES
  strategy,
  tree,        \* the thoughts: [parent, depth, value, terminal, expanded]; the problem is the first
  frontier,    \* of the beam; the stack of the other search, its top last
  best,        \* best_terminal or the answer; NoThought for None
  phase

rVars == <<strategy, tree, frontier, best, phase>>

NoThought == 0
Impossible == 0
Maybe == 1
Sure == 2
Root == [parent |-> NoThought, depth |-> 0, value |-> Sure, terminal |-> FALSE, expanded |-> FALSE]
Init == /\ strategy \in Strategies
        /\ tree = <<Root>> /\ frontier = <<1>> /\ best = NoThought /\ phase = "search"

(* A thought with a final answer is not rated; one whose rating fails, or  *)
(* is none of the words, counts as "maybe".                                *)
Ratings == {[terminal |-> TRUE, value |-> Sure]} \cup
           {[terminal |-> FALSE, value |-> v] : v \in {Impossible, Maybe, Sure}}
Thoughts == UNION {[1 .. k -> Ratings] : k \in 0 .. Breadth}

Node(n, r) == [parent |-> n, depth |-> tree[n].depth + 1, value |-> r.value,
               terminal |-> r.terminal, expanded |-> FALSE]
(* tree with the thoughts that each of the nodes got.                      *)
Grown(nodes, thoughts) ==
  LET marked == [i \in DOMAIN tree |->
        [tree[i] EXCEPT !.expanded = @ \/ i \in ToSet(nodes)]]
  IN  marked \o FlattenSeq([j \in DOMAIN nodes |->
        [k \in DOMAIN thoughts[j] |-> Node(nodes[j], thoughts[j][k])]])

(* What a level has, in the order of its thoughts.                         *)
Fresh(t) == [i \in 1 .. (Len(t) - Len(tree)) |-> Len(tree) + i]
Terminals(t) == SelectSeq(Fresh(t), LAMBDA n : t[n].terminal)
Rated(t, v) == SelectSeq(Fresh(t), LAMBDA n : ~t[n].terminal /\ t[n].value = v)
(* Only what is above the threshold, by value.                             *)
Slip_Descending(t) == Rated(t, Maybe) \o Rated(t, Sure)
Descending(t) == Rated(t, Sure) \o Rated(t, Maybe)
Ascending(t) == Rated(t, Maybe) \o Rated(t, Sure)

BestOf(t, nodes) ==
  IF nodes = <<>> THEN NoThought
  ELSE LET top == Max({t[n].value : n \in ToSet(nodes)}) IN SelectSeq(nodes, LAMBDA n : t[n].value = top)[1]

-----------------------------------------------------------------------------
(* _bfs: the whole frontier at once; a call that fails adds no thought.    *)
(* The best of the last frontier stands in for a final answer, the problem *)
(* itself when nothing was ever proposed.                                  *)
Close(t, nodes) ==
  /\ phase' = "done" /\ best' = BestOf(t, nodes)
  /\ tree' = IF best' = NoThought THEN t ELSE [t EXCEPT ![best'].terminal = TRUE]
Level ==
  /\ strategy = "bfs" /\ phase = "search"
  /\ \E thoughts \in [DOMAIN frontier -> Thoughts] :
       LET t == Grown(frontier, thoughts)
           kept == SubSeq(Descending(t), 1, Min({Beam, Len(Descending(t))}))
       IN  IF Fresh(t) = <<>> THEN Close(t, frontier) /\ UNCHANGED frontier
           ELSE IF Terminals(t) # <<>>
           THEN tree' = t /\ best' = Terminals(t)[1] /\ phase' = "done" /\ UNCHANGED frontier
           ELSE IF kept = <<>> \/ Last(t).depth = MaxDepth THEN frontier' = kept /\ Close(t, kept)
           ELSE tree' = t /\ frontier' = kept /\ UNCHANGED <<best, phase>>
  /\ UNCHANGED strategy

(* _dfs: a thought at the depth limit is an answer if it is better than    *)
(* the one at hand; the next expansion ends the search once there is one.  *)
Better(n) == best = NoThought \/ tree[n].value > tree[best].value
Leaf ==
  /\ strategy = "dfs" /\ phase = "search" /\ frontier # <<>>
  /\ LET n == Last(frontier) IN
     /\ tree[n].depth >= MaxDepth
     /\ IF Better(n) THEN best' = n /\ tree' = [tree EXCEPT ![n].terminal = TRUE]
                     ELSE UNCHANGED <<best, tree>>
  /\ frontier' = Front(frontier)
  /\ UNCHANGED <<strategy, phase>>
Expand ==
  /\ strategy = "dfs" /\ phase = "search" /\ frontier # <<>>
  /\ tree[Last(frontier)].depth < MaxDepth
  /\ \E thoughts \in Thoughts :
       LET n == Last(frontier)
           t == Grown(<<n>>, <<thoughts>>)
           found == IF best = NoThought /\ Terminals(t) # <<>> THEN Terminals(t)[1]
                    ELSE IF Terminals(t) # <<>> /\ tree[best].value < Sure THEN Terminals(t)[1] ELSE best
       IN  /\ tree' = t /\ best' = found
           /\ IF found # NoThought THEN phase' = "done" /\ frontier' = Front(frontier)
              ELSE phase' = phase /\ frontier' = Front(frontier) \o Ascending(t)
  /\ UNCHANGED strategy
(* A generation that fails is not caught here.                             *)
GenerateFails ==
  /\ strategy = "dfs" /\ phase = "search" /\ frontier # <<>> /\ tree[Last(frontier)].depth < MaxDepth
  /\ phase' = "failed" /\ UNCHANGED <<strategy, tree, frontier, best>>
Exhausted ==
  /\ strategy = "dfs" /\ phase = "search" /\ frontier = <<>>
  /\ phase' = "done" /\ UNCHANGED <<strategy, tree, frontier, best>>

Next == Level \/ Leaf \/ Expand \/ GenerateFails \/ Exhausted
Spec == Init /\ [][Next]_rVars

-----------------------------------------------------------------------------
(* No thought rated impossible is ever built upon, a level grows from no   *)
(* more thoughts than the beam holds, and a thought is passed over only    *)
(* for ones rated at least as high; the answer ends a chain of viable      *)
(* thoughts, and "exhausted" is said only when no chain was left to grow.  *)
LevelOf(n) == {i \in DOMAIN tree : tree[i].depth = tree[n].depth}
Rivals(n) == IF strategy = "bfs" THEN LevelOf(n) ELSE {i \in LevelOf(n) : tree[i].parent = tree[n].parent}
SearchIsSound ==
  /\ \A i \in DOMAIN tree : tree[i].expanded =>
       /\ tree[i].value > Impossible
       /\ strategy = "bfs" => Cardinality({j \in LevelOf(i) : tree[j].expanded}) <= Beam
       /\ \A j \in Rivals(i) : ~tree[j].expanded /\ ~tree[j].terminal => tree[j].value <= tree[i].value
  /\ best # NoThought => tree[best].terminal /\ tree[best].value > Impossible
  /\ phase = "done" /\ best = NoThought =>
       \A i \in DOMAIN tree : tree[i].depth < MaxDepth =>
         \/ tree[i].value = Impossible \/ tree[i].expanded
         \/ strategy = "bfs" /\ Cardinality({j \in LevelOf(i) : tree[j].expanded}) = Beam
=============================================================================
