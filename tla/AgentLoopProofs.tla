---------------------------- MODULE AgentLoopProofs ----------------------------
(***************************************************************************)
(* Proofs about the loop of an agent, for any agents, tools, prices and    *)
(* limits: the branches of a fan-out keep to their budget and leave a      *)
(* complete trail, whatever they ask for and are answered, and what is     *)
(* posted to a model's API is a conversation it can follow.  The first     *)
(* rest on what SumFunctionOnSet of the community modules, a recursive     *)
(* function on the subsets of a set, is and how it grows.                  *)
(***************************************************************************)
EXTENDS MCAgents, FiniteSetTheorems, WellFoundedInduction, TLAPS

-----------------------------------------------------------------------------
(* Induction over the naturals, from their well-foundedness: of the        *)
(* numbers outside T the least would have a predecessor inside.            *)
LEMMA Least ==
  ASSUME NEW T, T \subseteq Nat, T # {}
  PROVE  \E x \in T : \A y \in T : x <= y
<1>1. PICK x \in T : \A y \in T : <<y, x>> \notin OpToRel(<, Nat)
  BY NatLessThanWellFounded, WFMin
<1>2. \A y \in T : ~(y < x)
  BY <1>1 DEF OpToRel
<1>3. \A y \in T : x \in Nat /\ y \in Nat
  OBVIOUS
<1> QED
  BY <1>2, <1>3

LEMMA Induct ==
  ASSUME NEW T, 0 \in T, \A n \in Nat : n \in T => n + 1 \in T
  PROVE  Nat \subseteq T
<1> SUFFICES ASSUME Nat \ T # {} PROVE FALSE
  OBVIOUS
<1>1. PICK x \in Nat \ T : \A y \in Nat \ T : x <= y
  <2> DEFINE U == Nat \ T
  <2>1. U \subseteq Nat /\ U # {}
    OBVIOUS
  <2> HIDE DEF U
  <2>2. \E x \in U : \A y \in U : x <= y
    BY <2>1, Least
  <2> QED BY <2>2 DEF U
<1>2. x # 0 /\ x \in Nat
  BY <1>1
<1>3. x - 1 \in Nat /\ ~(x <= x - 1) /\ (x - 1) + 1 = x
  BY <1>2
<1>4. x - 1 \in T
  BY <1>1, <1>3
<1> QED BY <1>1, <1>3, <1>4

-----------------------------------------------------------------------------
Sum(f, S) == SumFunctionOnSet(f, S)
Pick(s) == CHOOSE x \in s : TRUE
Tallies(g, D, f) ==
  g = [s \in D |-> IF s = {} THEN 0 ELSE f[Pick(s)] + g[s \ {Pick(s)}]]
SumsOf(S, f, g) ==
  g \in [SUBSET S -> Int] /\ Tallies(g, SUBSET S, f) /\ \A R \in SUBSET S : Sum(f, R) = g[R]
Small(S, n) == {s \in SUBSET S : Cardinality(s) <= n}

LEMMA SumIs ==
  ASSUME NEW S, NEW f
  PROVE  Sum(f, S) = (CHOOSE g : Tallies(g, SUBSET S, f))[S]
BY DEF Sum, SumFunctionOnSet, FoldFunctionOnSet, MapThenFoldSet, Tallies, Pick

LEMMA Without ==
  ASSUME NEW s, IsFiniteSet(s), s # {}
  PROVE  /\ Pick(s) \in s
         /\ \A x \in s : /\ IsFiniteSet(s \ {x})
                         /\ Cardinality(s) \in Nat /\ Cardinality(s \ {x}) \in Nat
                         /\ Cardinality(s \ {x}) = Cardinality(s) - 1
<1>1. Pick(s) \in s
  BY DEF Pick
<1>2. \A x \in s : IsFiniteSet(s \ {x}) /\ Cardinality(s \ {x}) = Cardinality(s) - 1
  BY FS_RemoveElement
<1>3. Cardinality(s) \in Nat
  BY FS_CardinalityType
<1>4. \A x \in s : Cardinality(s \ {x}) \in Nat
  BY <1>2, FS_CardinalityType
<1> QED BY <1>1, <1>2, <1>3, <1>4

LEMMA TallyExists ==
  ASSUME NEW S, IsFiniteSet(S), NEW f, \A x \in S : f[x] \in Int
  PROVE  \E g \in [SUBSET S -> Int] : Tallies(g, SUBSET S, f)
<1> DEFINE T == {n \in Nat : \E g \in [Small(S, n) -> Int] : Tallies(g, Small(S, n), f)}
<1>0. \A s \in SUBSET S : /\ IsFiniteSet(s) /\ Cardinality(s) \in Nat
                          /\ Cardinality(s) = 0 => s = {}
  BY FS_Subset, FS_CardinalityType, FS_EmptySet
<1>1. 0 \in T
  <2> DEFINE g == [s \in Small(S, 0) |-> 0]
  <2>1. \A s \in Small(S, 0) : s = {}
    BY <1>0 DEF Small
  <2>2. g \in [Small(S, 0) -> Int]
    OBVIOUS
  <2>3. Tallies(g, Small(S, 0), f)
    BY <2>1 DEF Tallies
  <2> QED BY <2>2, <2>3
<1>2. ASSUME NEW n \in Nat, n \in T PROVE n + 1 \in T
  <2>1. PICK g \in [Small(S, n) -> Int] : Tallies(g, Small(S, n), f)
    BY <1>2
  <2> DEFINE h == [s \in Small(S, n + 1) |->
                     IF s = {} THEN 0 ELSE f[Pick(s)] + g[s \ {Pick(s)}]]
  <2>2. \A s \in Small(S, n) : s \in Small(S, n + 1) /\ h[s] = g[s]
    <3>1. \A s \in Small(S, n) : s \in Small(S, n + 1)
      BY <1>0 DEF Small
    <3>2. \A s \in Small(S, n) : g[s] = IF s = {} THEN 0 ELSE f[Pick(s)] + g[s \ {Pick(s)}]
      BY <2>1 DEF Tallies
    <3> QED BY <3>1, <3>2
  <2>3. ASSUME NEW s \in Small(S, n + 1), s # {}
        PROVE  Pick(s) \in S /\ s \ {Pick(s)} \in Small(S, n)
    <3>1. s \in SUBSET S /\ IsFiniteSet(s) /\ Cardinality(s) <= n + 1
      BY <1>0 DEF Small
    <3>2. Pick(s) \in s /\ Cardinality(s \ {Pick(s)}) <= n
      BY <2>3, <3>1, Without
    <3> QED BY <3>1, <3>2 DEF Small
  <2>4. h \in [Small(S, n + 1) -> Int]
    <3> SUFFICES ASSUME NEW s \in Small(S, n + 1)
                 PROVE  (IF s = {} THEN 0 ELSE f[Pick(s)] + g[s \ {Pick(s)}]) \in Int
      OBVIOUS
    <3>1. CASE s # {}
      <4>1. f[Pick(s)] \in Int /\ g[s \ {Pick(s)}] \in Int
        BY <2>3, <3>1
      <4> QED BY <4>1
    <3> QED BY <3>1
  <2>5. Tallies(h, Small(S, n + 1), f)
    <3>1. \A s \in Small(S, n + 1) : s # {} => h[s \ {Pick(s)}] = g[s \ {Pick(s)}]
      BY <2>2, <2>3
    <3> QED BY <3>1, Zenon DEF Tallies
  <2>6. n + 1 \in Nat
    OBVIOUS
  <2> HIDE DEF h
  <2> QED BY <2>4, <2>5, <2>6
<1>3. Cardinality(S) \in T
  <2> HIDE DEF T
  <2> QED BY <1>0, <1>1, <1>2, Induct
<1>4. Small(S, Cardinality(S)) = SUBSET S
  BY FS_Subset DEF Small
<1> QED BY <1>3, <1>4

(* There is one only.                                                      *)
LEMMA OneTally ==
  ASSUME NEW S, IsFiniteSet(S), NEW f, \A x \in S : f[x] \in Int,
         NEW g, Tallies(g, SUBSET S, f), NEW h, Tallies(h, SUBSET S, f)
  PROVE  g = h
<1> DEFINE T == {n \in Nat : \A s \in Small(S, n) : g[s] = h[s]}
<1>0. \A s \in SUBSET S : /\ IsFiniteSet(s) /\ Cardinality(s) \in Nat
                          /\ Cardinality(s) = 0 => s = {}
  BY FS_Subset, FS_CardinalityType, FS_EmptySet
<1>1. \A s \in SUBSET S : /\ g[s] = IF s = {} THEN 0 ELSE f[Pick(s)] + g[s \ {Pick(s)}]
                          /\ h[s] = IF s = {} THEN 0 ELSE f[Pick(s)] + h[s \ {Pick(s)}]
  BY DEF Tallies
<1>2. 0 \in T
  BY <1>0, <1>1 DEF Small
<1>3. ASSUME NEW n \in Nat, n \in T PROVE n + 1 \in T
  <2> SUFFICES ASSUME NEW s \in Small(S, n + 1) PROVE g[s] = h[s]
    OBVIOUS
  <2>1. CASE s # {}
    <3>1. s \in SUBSET S /\ IsFiniteSet(s) /\ Cardinality(s) <= n + 1
      BY <1>0 DEF Small
    <3>2. s \ {Pick(s)} \in Small(S, n)
      BY <2>1, <3>1, Without DEF Small
    <3> QED BY <1>1, <1>3, <2>1, <3>1, <3>2
  <2>2. CASE s = {}
    BY <1>1, <2>2
  <2> QED BY <2>1, <2>2
<1>4. Cardinality(S) \in T
  <2> HIDE DEF T
  <2> QED BY <1>0, <1>2, <1>3, Induct
<1>5. \A s \in SUBSET S : g[s] = h[s]
  BY <1>4, FS_Subset DEF Small
<1> QED BY <1>1, <1>5 DEF Tallies

(* So the sums over the parts of S are one tally.                          *)
LEMMA SumTallies ==
  ASSUME NEW S, IsFiniteSet(S), NEW f, \A x \in S : f[x] \in Int
  PROVE  \E g : SumsOf(S, f, g)
<1>1. PICK g \in [SUBSET S -> Int] : Tallies(g, SUBSET S, f)
  BY TallyExists
<1>2. ASSUME NEW R \in SUBSET S PROVE Sum(f, R) = g[R]
  <2> DEFINE h == [s \in SUBSET R |-> g[s]]
  <2> DEFINE c == CHOOSE k : Tallies(k, SUBSET R, f)
  <2>0. IsFiniteSet(R) /\ \A x \in R : f[x] \in Int
    BY FS_Subset
  <2>1. Tallies(h, SUBSET R, f)
    <3>1. ASSUME NEW s \in SUBSET R
          PROVE  g[s] = IF s = {} THEN 0 ELSE f[Pick(s)] + h[s \ {Pick(s)}]
      <4>1. s \in SUBSET S /\ s \ {Pick(s)} \in SUBSET R
        OBVIOUS
      <4>2. g[s] = IF s = {} THEN 0 ELSE f[Pick(s)] + g[s \ {Pick(s)}]
        BY <1>1, <4>1 DEF Tallies
      <4> QED BY <4>1, <4>2
    <3>2. h = [s \in SUBSET R |-> IF s = {} THEN 0 ELSE f[Pick(s)] + h[s \ {Pick(s)}]]
      BY <3>1
    <3> QED BY <3>2 DEF Tallies
  <2>2. Tallies(c, SUBSET R, f)
    <3>1. \E k : Tallies(k, SUBSET R, f)
      BY <2>1
    <3> QED BY <3>1
  <2>3. c = h
    <3> HIDE DEF c, h
    <3> QED BY <2>0, <2>1, <2>2, OneTally
  <2>4. Sum(f, R) = c[R]
    BY SumIs
  <2>5. h[R] = g[R]
    OBVIOUS
  <2> QED BY <2>3, <2>4, <2>5
<1> QED BY <1>1, <1>2 DEF SumsOf

LEMMA SumType ==
  ASSUME NEW S, IsFiniteSet(S), NEW f, \A x \in S : f[x] \in Int
  PROVE  \A R \in SUBSET S :
           /\ Sum(f, R) \in Int
           /\ Sum(f, R) = IF R = {} THEN 0 ELSE f[Pick(R)] + Sum(f, R \ {Pick(R)})
<1>0. PICK g : SumsOf(S, f, g)
  BY SumTallies
<1>1. g \in [SUBSET S -> Int] /\ Tallies(g, SUBSET S, f) /\ \A R \in SUBSET S : Sum(f, R) = g[R]
  BY <1>0 DEF SumsOf
<1> SUFFICES ASSUME NEW R \in SUBSET S
             PROVE  /\ Sum(f, R) \in Int
                    /\ Sum(f, R) = IF R = {} THEN 0 ELSE f[Pick(R)] + Sum(f, R \ {Pick(R)})
  OBVIOUS
<1>2. g[R] = IF R = {} THEN 0 ELSE f[Pick(R)] + g[R \ {Pick(R)}]
  BY <1>1 DEF Tallies
<1>3. Sum(f, R) = g[R] /\ Sum(f, R \ {Pick(R)}) = g[R \ {Pick(R)}] /\ g[R] \in Int
  BY <1>1
<1> QED BY <1>2, <1>3

LEMMA SumEmpty == ASSUME NEW f PROVE Sum(f, {}) = 0
<1>1. IsFiniteSet({}) /\ \A x \in {} : f[x] \in Int
  BY FS_EmptySet
<1>2. \A R \in SUBSET {} : Sum(f, R) = IF R = {} THEN 0 ELSE f[Pick(R)] + Sum(f, R \ {Pick(R)})
  BY <1>1, SumType
<1> QED BY <1>2

(* The order of the summands does not matter: any of them may be the first.*)
LEMMA SumSplit ==
  ASSUME NEW S, IsFiniteSet(S), NEW f, \A x \in S : f[x] \in Int
  PROVE  \A x \in S : Sum(f, S) = f[x] + Sum(f, S \ {x}) /\ Sum(f, S \ {x}) \in Int
<1> DEFINE T == {n \in Nat : \A s \in Small(S, n) : \A x \in s : Sum(f, s) = f[x] + Sum(f, s \ {x})}
<1>0. \A s \in SUBSET S : /\ IsFiniteSet(s) /\ Cardinality(s) \in Nat
                          /\ Cardinality(s) = 0 => s = {}
  BY FS_Subset, FS_CardinalityType, FS_EmptySet
<1>1. 0 \in T
  BY <1>0 DEF Small
<1>2. ASSUME NEW n \in Nat, n \in T PROVE n + 1 \in T
  <2> SUFFICES ASSUME NEW s \in Small(S, n + 1), NEW x \in s
               PROVE  Sum(f, s) = f[x] + Sum(f, s \ {x})
    OBVIOUS
  <2> DEFINE y == Pick(s)
  <2>1. s \in SUBSET S /\ IsFiniteSet(s) /\ Cardinality(s) <= n + 1 /\ y \in s
    BY <1>0, Without DEF Small
  <2> HIDE DEF y
  <2>2. Sum(f, s) = f[y] + Sum(f, s \ {y})
    BY <2>1, SumType DEF y
  <2>3. CASE x # y
    <3>0. \A z \in s : s \ {z} \in Small(S, n)
      <4>1. \A z \in s : Cardinality(s \ {z}) <= n
        BY <2>1, Without
      <4> QED BY <2>1, <4>1 DEF Small
    <3>1. s \ {x} \in Small(S, n) /\ s \ {y} \in Small(S, n)
      BY <2>1, <3>0
    <3>2. Sum(f, s \ {y}) = f[x] + Sum(f, (s \ {y}) \ {x})
      BY <1>2, <2>3, <3>1
    <3>3. Sum(f, s \ {x}) = f[y] + Sum(f, (s \ {x}) \ {y})
      BY <1>2, <2>1, <2>3, <3>1
    <3>4. (s \ {x}) \ {y} = (s \ {y}) \ {x}
      OBVIOUS
    <3>5. Sum(f, (s \ {y}) \ {x}) \in Int /\ f[x] \in Int /\ f[y] \in Int
      BY <2>1, SumType
    <3>6. \A a, b, c \in Int : a + (b + c) = b + (a + c)
      OBVIOUS
    <3>7. Sum(f, s) = f[y] + (f[x] + Sum(f, (s \ {y}) \ {x}))
      BY <2>2, <3>2
    <3>8. f[x] + Sum(f, s \ {x}) = f[x] + (f[y] + Sum(f, (s \ {y}) \ {x}))
      BY <3>3, <3>4
    <3> QED BY <3>5, <3>6, <3>7, <3>8
  <2> QED BY <2>2, <2>3
<1>3. Cardinality(S) \in T
  <2> HIDE DEF T
  <2> QED BY <1>0, <1>1, <1>2, Induct
<1>4. S \in Small(S, Cardinality(S))
  BY FS_CardinalityType DEF Small
<1>5. \A x \in S : Sum(f, S \ {x}) \in Int
  BY SumType
<1> QED BY <1>3, <1>4, <1>5

LEMMA SumAdd ==
  ASSUME NEW S, IsFiniteSet(S), NEW x, x \notin S, NEW f, \A y \in S \cup {x} : f[y] \in Int
  PROVE  Sum(f, S \cup {x}) = Sum(f, S) + f[x] /\ Sum(f, S) \in Int
<1>1. IsFiniteSet(S \cup {x}) /\ (S \cup {x}) \ {x} = S
  BY FS_AddElement
<1>2. Sum(f, S \cup {x}) = f[x] + Sum(f, S)
  BY <1>1, SumSplit
<1>3. Sum(f, S) \in Int /\ f[x] \in Int
  BY SumType
<1> QED BY <1>2, <1>3

(* Sums of two functions that are the same, or one of which is no greater. *)
LEMMA SumSame ==
  ASSUME NEW S, IsFiniteSet(S), NEW f, NEW g, \A x \in S : f[x] \in Int /\ f[x] = g[x]
  PROVE  Sum(f, S) = Sum(g, S)
<1>0. (\A x \in S : f[x] \in Int) /\ (\A x \in S : g[x] \in Int)
  OBVIOUS
<1>a. PICK h : SumsOf(S, f, h)
  BY <1>0, SumTallies
<1>b. PICK k : SumsOf(S, g, k)
  BY <1>0, SumTallies
<1>1. Tallies(h, SUBSET S, f) /\ \A R \in SUBSET S : Sum(f, R) = h[R]
  BY <1>a DEF SumsOf
<1>2. Tallies(k, SUBSET S, g) /\ \A R \in SUBSET S : Sum(g, R) = k[R]
  BY <1>b DEF SumsOf
<1>3. Tallies(h, SUBSET S, g)
  <2>1. ASSUME NEW s \in SUBSET S
        PROVE  (IF s = {} THEN 0 ELSE f[Pick(s)] + h[s \ {Pick(s)}])
                 = (IF s = {} THEN 0 ELSE g[Pick(s)] + h[s \ {Pick(s)}])
    <3>1. CASE s # {}
      BY <3>1 DEF Pick
    <3> QED BY <3>1
  <2>2. [s \in SUBSET S |-> IF s = {} THEN 0 ELSE f[Pick(s)] + h[s \ {Pick(s)}]]
          = [s \in SUBSET S |-> IF s = {} THEN 0 ELSE g[Pick(s)] + h[s \ {Pick(s)}]]
    BY <2>1, Zenon
  <2> QED BY <1>1, <2>2, Zenon DEF Tallies
<1>4. h = k
  BY <1>0, <1>2, <1>3, OneTally
<1> QED BY <1>1, <1>2, <1>4

LEMMA SumMono ==
  ASSUME NEW S, IsFiniteSet(S), NEW f, NEW g,
         \A x \in S : f[x] \in Int /\ g[x] \in Int /\ f[x] <= g[x]
  PROVE  Sum(f, S) <= Sum(g, S)
<1> DEFINE T == {n \in Nat : \A s \in Small(S, n) : Sum(f, s) <= Sum(g, s)}
<1>0. \A s \in SUBSET S : /\ IsFiniteSet(s) /\ Cardinality(s) \in Nat
                          /\ Cardinality(s) = 0 => s = {}
  BY FS_Subset, FS_CardinalityType, FS_EmptySet
<1>1. 0 \in T
  BY <1>0, SumEmpty DEF Small
<1>2. ASSUME NEW n \in Nat, n \in T PROVE n + 1 \in T
  <2> SUFFICES ASSUME NEW s \in Small(S, n + 1) PROVE Sum(f, s) <= Sum(g, s)
    OBVIOUS
  <2>1. s \in SUBSET S /\ IsFiniteSet(s) /\ Cardinality(s) <= n + 1
    BY <1>0 DEF Small
  <2>2. ASSUME NEW x \in s PROVE Sum(f, s) <= Sum(g, s)
    <3>1. s \ {x} \in Small(S, n)
      BY <2>1, Without DEF Small
    <3>2. /\ Sum(f, s) = f[x] + Sum(f, s \ {x}) /\ Sum(f, s \ {x}) \in Int
          /\ Sum(g, s) = g[x] + Sum(g, s \ {x}) /\ Sum(g, s \ {x}) \in Int
      BY <2>1, SumSplit
    <3>3. Sum(f, s \ {x}) <= Sum(g, s \ {x}) /\ f[x] <= g[x] /\ f[x] \in Int /\ g[x] \in Int
      BY <1>2, <2>1, <3>1
    <3> QED BY <3>2, <3>3
  <2> QED BY <2>2, SumEmpty
<1>3. Cardinality(S) \in T
  <2> HIDE DEF T
  <2> QED BY <1>0, <1>1, <1>2, Induct
<1>4. S \in Small(S, Cardinality(S))
  BY FS_CardinalityType DEF Small
<1> QED BY <1>3, <1>4

(* One summand is another.                                                 *)
LEMMA SumChange ==
  ASSUME NEW S, IsFiniteSet(S), NEW f, NEW g, NEW x \in S, f[x] \in Int,
         \A y \in S : g[y] \in Int /\ (y # x => f[y] = g[y])
  PROVE  Sum(g, S) = Sum(f, S) - f[x] + g[x] /\ Sum(f, S) \in Int
<1>1. \A y \in S : f[y] \in Int /\ g[y] \in Int
  OBVIOUS
<1>2. /\ Sum(f, S) = f[x] + Sum(f, S \ {x}) /\ Sum(f, S \ {x}) \in Int
      /\ Sum(g, S) = g[x] + Sum(g, S \ {x}) /\ Sum(g, S \ {x}) \in Int
  BY <1>1, SumSplit
<1>3. Sum(f, S \ {x}) = Sum(g, S \ {x})
  <2>1. IsFiniteSet(S \ {x})
    BY FS_RemoveElement
  <2> QED BY <1>1, <2>1, SumSame
<1> QED BY <1>1, <1>2, <1>3


-----------------------------------------------------------------------------
(***************************************************************************)
(* The loop of an agent.  The budget: what the branches drew and did not   *)
(* report is bounded by the responses at hand, and every branch that asks  *)
(* began to while the limit was not reached.  The trail: where a branch is *)
(* says whether the last tool it entered is logged, and in replay mode a   *)
(* tool that is being refused or runs was not recorded.                    *)
(***************************************************************************)
Ended == {"done", "exhausted", "failed"}
Steps == {"check", "llm", "report", "tool", "denied", "running", "reportTool", "next"} \cup Ended
Answers == [calls : Seq(Requests), tokens : Usages \cup {0}, model : Models \cup {<<>>}]
Calling == {"tool", "denied", "running", "reportTool", "next"}
IsList(s) == \E T : s \in Seq(T)

LoopTypes ==
  /\ pc \in [Branches -> Steps] /\ answer \in [Branches -> Answers]
  /\ drawn \in [Branches -> Nat] /\ totals.tokens \in Nat
  /\ DOMAIN records = Branches /\ DOMAIN trail = Branches /\ DOMAIN performed = Branches
  /\ \A a \in Branches : IsList(records[a]) /\ IsList(trail[a]) /\ IsList(performed[a])
  /\ \A a \in Branches : pc[a] \in Calling => answer[a].calls # <<>>

(* The budget.                                                             *)
Most == Loop!Max(Usages)
Worth(n) == n * Most
Debts(at, held) == [a \in Branches |-> IF at[a] \in {"report", "failed"} THEN held[a].tokens ELSE 0]
Waiting(at) == {a \in Branches : at[a] \in {"llm", "report"}}
Covered == Sum(drawn, Branches) <= totals.tokens + Sum(Debts(pc, answer), Branches)
WithinBudget ==
  HardTokens # -1 => totals.tokens + Worth(Cardinality(Waiting(pc))) < HardTokens + Worth(Cardinality(Branches))
BudgetInv == LoopTypes /\ (recording = <<>> => Covered /\ WithinBudget)

LEMMA LoopParameters ==
  /\ IsFiniteSet(Branches) /\ Branches # {} /\ Usages \subseteq Nat
  /\ Most \in Nat /\ Most > 0 /\ \A n \in Usages : n <= Most
  /\ HardTokens \in Nat \cup {-1}
<1>0. Loop!AgentAssumption
  BY AgentsAssumption
<1>1. PICK most \in Usages : most > 0 /\ \A n \in Usages : n \in Nat /\ n <= most
  BY <1>0 DEF Loop!AgentAssumption
<1>2. Most = CHOOSE x \in Usages : \A y \in Usages : x >= y
  BY DEF Most, Loop!Max
<1>3. \E x \in Usages : \A y \in Usages : x >= y
  BY <1>1
<1>4. Most \in Usages /\ \A y \in Usages : Most >= y
  BY <1>2, <1>3
<1>5. IsFiniteSet(Branches)
  BY <1>0 DEF Loop!AgentAssumption, Loop!IsFiniteSet, IsFiniteSet
<1> HIDE DEF Most
<1> QED BY <1>0, <1>1, <1>4, <1>5 DEF Loop!AgentAssumption, Loop!NoLimit

LEMMA WorthIs ==
  /\ \A n \in Nat : Worth(n) \in Nat /\ Worth(n + 1) = Worth(n) + Most
  /\ \A m, n \in Nat : m <= n => Worth(m) <= Worth(n)
<1> DEFINE w == Most
<1>1. w \in Nat
  BY LoopParameters
<1> HIDE DEF w
<1>2. \A n \in Nat : n * w \in Nat /\ (n + 1) * w = n * w + w
  BY <1>1
<1>3. \A m, n \in Nat : m <= n => m * w <= n * w
  <2> SUFFICES ASSUME NEW m \in Nat, NEW n \in Nat, m <= n PROVE m * w <= n * w
    OBVIOUS
  <2>1. n - m \in Nat /\ n = m + (n - m)
    OBVIOUS
  <2>2. PICK d \in Nat : n = m + d
    BY <2>1
  <2>3. n * w = m * w + d * w
    BY <1>1, <2>2
  <2>4. d * w \in Nat /\ m * w \in Nat
    BY <1>2
  <2> QED BY <2>3, <2>4
<1> QED BY <1>2, <1>3 DEF Worth, w

LEMMA BudgetIs == BudgetInv => Loop!BudgetHolds
<1> SUFFICES ASSUME BudgetInv, recording = <<>> PROVE Loop!BudgetHolds
  BY DEF Loop!BudgetHolds
<1>1. \A f, S : Loop!SumFunctionOnSet(f, S) = Sum(f, S)
  BY DEF Sum, SumFunctionOnSet, FoldFunctionOnSet, MapThenFoldSet,
         Loop!SumFunctionOnSet, Loop!FoldFunctionOnSet, Loop!MapThenFoldSet
<1>2. \A S : Loop!Cardinality(S) = Cardinality(S)
  BY DEF Loop!Cardinality, Cardinality
<1>3. Loop!Unreported = Debts(pc, answer) /\ Loop!Asking = Waiting(pc)
  BY DEF Loop!Unreported, Loop!Asking, Debts, Waiting
<1>4. Loop!SumFunctionOnSet(drawn, Branches) <= totals.tokens + Loop!SumFunctionOnSet(Loop!Unreported, Branches)
  BY <1>1, <1>3 DEF BudgetInv, Covered
<1>5. HardTokens # Loop!NoLimit =>
        totals.tokens + Loop!Cardinality(Loop!Asking) * Loop!Max(Usages)
          < HardTokens + Loop!Cardinality(Branches) * Loop!Max(Usages)
  BY <1>2, <1>3 DEF BudgetInv, WithinBudget, Worth, Most, Loop!NoLimit
<1> QED BY <1>4, <1>5 DEF Loop!BudgetHolds

(* Lists, whatever they hold.                                              *)
LEMMA ListFacts ==
  ASSUME NEW s, IsList(s)
  PROVE  /\ Len(s) \in Nat /\ DOMAIN s = 1 .. Len(s)
         /\ \A e : /\ IsList(Append(s, e)) /\ Len(Append(s, e)) = Len(s) + 1
                   /\ DOMAIN Append(s, e) = 1 .. (Len(s) + 1)
                   /\ Append(s, e)[Len(s) + 1] = e
                   /\ \A i \in 1 .. Len(s) : Append(s, e)[i] = s[i]
<1>1. PICK T : s \in Seq(T)
  BY DEF IsList
<1>2. Len(s) \in Nat /\ DOMAIN s = 1 .. Len(s)
  BY <1>1
<1>3. ASSUME NEW e
      PROVE  /\ IsList(Append(s, e)) /\ Len(Append(s, e)) = Len(s) + 1
             /\ DOMAIN Append(s, e) = 1 .. (Len(s) + 1)
             /\ Append(s, e)[Len(s) + 1] = e
             /\ \A i \in 1 .. Len(s) : Append(s, e)[i] = s[i]
  <2> DEFINE U == T \cup {e}
  <2>1. s \in Seq(U) /\ e \in U
    BY <1>1
  <2> HIDE DEF U
  <2>2. Append(s, e) \in Seq(U) /\ Len(Append(s, e)) = Len(s) + 1
    BY <2>1
  <2>3. DOMAIN Append(s, e) = 1 .. (Len(s) + 1) /\ Append(s, e)[Len(s) + 1] = e
    BY <2>1, <2>2
  <2>4. \A i \in 1 .. Len(s) : Append(s, e)[i] = s[i]
    BY <2>1
  <2> QED BY <2>2, <2>3, <2>4 DEF IsList
<1> QED BY <1>2, <1>3

LEMMA AnswerParts ==
  ASSUME LoopTypes, NEW a \in Branches
  PROVE  /\ answer[a] \in Answers /\ answer[a].calls \in Seq(Requests)
         /\ answer[a].tokens \in Nat /\ answer[a].tokens <= Most
<1>1. answer[a] \in Answers
  BY DEF LoopTypes
<1>2. answer[a].calls \in Seq(Requests) /\ answer[a].tokens \in Usages \cup {0}
  BY <1>1 DEF Answers
<1>3. \A u \in Usages : u \in Nat /\ u <= Most
  BY LoopParameters
<1>4. 0 <= Most
  <2>1. Most \in Nat
    BY LoopParameters
  <2> HIDE DEF Most
  <2> QED BY <2>1
<1>5. answer[a].tokens \in Nat /\ answer[a].tokens <= Most
  BY <1>2, <1>3, <1>4
<1> QED BY <1>1, <1>2, <1>5

(* What a step of branch a may touch, whichever it is.                     *)
Appends(s, t) == t = s \/ \E e : t = Append(s, e)
Touches(a) ==
  /\ \E to \in Steps : pc' = [pc EXCEPT ![a] = to]
  /\ \E s \in Answers : answer' = [answer EXCEPT ![a] = s] \/ answer' = answer
  /\ \E s : Appends(records[a], s) /\ (records' = [records EXCEPT ![a] = s] \/ records' = records)
  /\ \E s : Appends(trail[a], s) /\ (trail' = [trail EXCEPT ![a] = s] \/ trail' = trail)
  /\ \E s : Appends(performed[a], s) /\ (performed' = [performed EXCEPT ![a] = s] \/ performed' = performed)
  /\ recording' = recording

LEMMA OthersKept ==
  ASSUME LoopTypes, NEW a \in Branches, Touches(a)
  PROVE  /\ \A b \in Branches \ {a} :
              /\ pc'[b] = pc[b] /\ answer'[b] = answer[b] /\ records'[b] = records[b]
              /\ trail'[b] = trail[b] /\ performed'[b] = performed[b]
         /\ pc' \in [Branches -> Steps] /\ answer' \in [Branches -> Answers]
         /\ DOMAIN records' = Branches /\ DOMAIN trail' = Branches /\ DOMAIN performed' = Branches
         /\ \A b \in Branches : IsList(records'[b]) /\ IsList(trail'[b]) /\ IsList(performed'[b])
<1>1. pc' \in [Branches -> Steps] /\ \A b \in Branches \ {a} : pc'[b] = pc[b]
  BY DEF LoopTypes, Touches
<1>2. answer' \in [Branches -> Answers] /\ \A b \in Branches \ {a} : answer'[b] = answer[b]
  BY DEF LoopTypes, Touches
<1>3. ASSUME NEW s, NEW t, IsList(s), Appends(s, t) PROVE IsList(t)
  <2>1. \A e : IsList(Append(s, e))
    BY <1>3, ListFacts
  <2> QED BY <1>3, <2>1 DEF Appends
<1>4. /\ DOMAIN records' = Branches /\ \A b \in Branches \ {a} : records'[b] = records[b]
      /\ \A b \in Branches : IsList(records'[b])
  <2>1. PICK s : Appends(records[a], s) /\ (records' = [records EXCEPT ![a] = s] \/ records' = records)
    BY DEF Touches
  <2>2. DOMAIN records = Branches /\ \A b \in Branches : IsList(records[b])
    BY DEF LoopTypes
  <2>3. IsList(s)
    BY <1>3, <2>1, <2>2
  <2> QED BY <2>1, <2>2, <2>3
<1>5. /\ DOMAIN trail' = Branches /\ \A b \in Branches \ {a} : trail'[b] = trail[b]
      /\ \A b \in Branches : IsList(trail'[b])
  <2>1. PICK s : Appends(trail[a], s) /\ (trail' = [trail EXCEPT ![a] = s] \/ trail' = trail)
    BY DEF Touches
  <2>2. DOMAIN trail = Branches /\ \A b \in Branches : IsList(trail[b])
    BY DEF LoopTypes
  <2>3. IsList(s)
    BY <1>3, <2>1, <2>2
  <2> QED BY <2>1, <2>2, <2>3
<1>6. /\ DOMAIN performed' = Branches /\ \A b \in Branches \ {a} : performed'[b] = performed[b]
      /\ \A b \in Branches : IsList(performed'[b])
  <2>1. PICK s : Appends(performed[a], s) /\ (performed' = [performed EXCEPT ![a] = s] \/ performed' = performed)
    BY DEF Touches
  <2>2. DOMAIN performed = Branches /\ \A b \in Branches : IsList(performed[b])
    BY DEF LoopTypes
  <2>3. IsList(s)
    BY <1>3, <2>1, <2>2
  <2> QED BY <2>1, <2>2, <2>3
<1> QED BY <1>1, <1>2, <1>4, <1>5, <1>6

LEMMA SameLists == \A s : Appends(s, s)
BY DEF Appends

(* The steps of a branch that touch neither totals nor what was drawn.     *)
QuietStep(a) ==
  \/ Loop!Check(a) \/ Loop!ProviderFails(a) \/ Loop!StoreFails(a)
  \/ Loop!ReplayTool(a) \/ Loop!RefuseTool(a) \/ Loop!ReportDenial(a) \/ Loop!UnknownTool(a)
  \/ Loop!StartTool(a) \/ Loop!FinishTool(a) \/ Loop!ReportTool(a) \/ Loop!NextCall(a)

LEMMA StepsTouch ==
  ASSUME LoopTypes, NEW a \in Branches, QuietStep(a) \/ Loop!Respond(a) \/ Loop!ReportLlm(a)
  PROVE  Touches(a)
<1>0. answer[a] \in Answers /\ \A s : Appends(s, s) /\ \A e : Appends(s, Append(s, e))
  BY AnswerParts DEF Appends
<1>a. answer' = answer => \E s \in Answers : answer' = [answer EXCEPT ![a] = s] \/ answer' = answer
  BY <1>0
<1>1. CASE Loop!Check(a)
  BY <1>0, <1>1 DEF Loop!Check, Loop!Goes, Loop!Fails, Touches, Steps, Ended
<1>2. CASE Loop!ProviderFails(a) \/ Loop!StoreFails(a) \/ Loop!RefuseTool(a)
  BY <1>0, <1>2 DEF Loop!ProviderFails, Loop!StoreFails, Loop!RefuseTool, Loop!Goes, Loop!Fails, Touches, Steps, Ended
<1>3. CASE Loop!ReplayTool(a)
  BY <1>0, <1>3 DEF Loop!ReplayTool, Loop!Record, Loop!Goes, Touches, Steps
<1>4. CASE Loop!ReportDenial(a)
  BY <1>0, <1>4 DEF Loop!ReportDenial, Loop!Record, Loop!Goes, Touches, Steps
<1>5. CASE Loop!UnknownTool(a)
  BY <1>0, <1>5 DEF Loop!UnknownTool, Loop!Record, Loop!Goes, Loop!AfterTool, Touches, Steps
<1>6. CASE Loop!StartTool(a)
  BY <1>0, <1>6 DEF Loop!StartTool, Loop!Goes, Touches, Steps
<1>7. CASE Loop!FinishTool(a)
  BY <1>0, <1>7 DEF Loop!FinishTool, Loop!Record, Loop!Goes, Loop!AfterTool, Touches, Steps
<1>8. CASE Loop!ReportTool(a)
  BY <1>0, <1>8 DEF Loop!ReportTool, Loop!Goes, Touches, Steps
<1>9. CASE Loop!NextCall(a)
  <2> DEFINE rest == Tail(answer[a].calls)
  <2> DEFINE shorter == [calls |-> rest, tokens |-> answer[a].tokens, model |-> answer[a].model]
  <2>1. /\ answer' = [answer EXCEPT ![a] = IF rest = <<>> THEN Loop!Nothing ELSE shorter]
        /\ pc' = [pc EXCEPT ![a] = IF rest = <<>> THEN "check" ELSE "tool"]
        /\ UNCHANGED <<records, trail, performed, recording>>
    BY <1>9 DEF Loop!NextCall, Loop!Goes
  <2>2. Loop!Nothing \in Answers
    BY DEF Loop!Nothing, Answers
  <2>3. shorter \in Answers
    <3>1. answer[a].calls \in Seq(Requests) /\ answer[a].calls # <<>>
      BY <1>9, AnswerParts DEF Loop!NextCall, LoopTypes, Calling
    <3>2. rest \in Seq(Requests)
      BY <3>1
    <3>3. answer[a].tokens \in Usages \cup {0} /\ answer[a].model \in Models \cup {<<>>}
      BY <1>0 DEF Answers
    <3> HIDE DEF rest
    <3> QED BY <3>2, <3>3 DEF Answers
  <2> HIDE DEF shorter
  <2>4. (IF rest = <<>> THEN Loop!Nothing ELSE shorter) \in Answers
    BY <2>2, <2>3
  <2> QED BY <1>0, <2>1, <2>4 DEF Touches, Steps
<1>10. CASE Loop!Respond(a)
  <2>0. PICK n \in Usages, mo \in Models, k \in 0 .. MostRequests : \E calls \in [1 .. k -> Requests] :
          /\ answer' = [answer EXCEPT ![a] = [calls |-> calls, tokens |-> n, model |-> mo]]
          /\ Loop!Goes(a, IF Loop!replaying THEN Loop!After(a, calls) ELSE "report")
    BY <1>10 DEF Loop!Respond
  <2>1. PICK calls \in [1 .. k -> Requests] :
          /\ answer' = [answer EXCEPT ![a] = [calls |-> calls, tokens |-> n, model |-> mo]]
          /\ Loop!Goes(a, IF Loop!replaying THEN Loop!After(a, calls) ELSE "report")
    BY <2>0
  <2>2. [calls |-> calls, tokens |-> n, model |-> mo] \in Answers
    <3>1. calls \in Seq(Requests)
      BY <2>1
    <3> QED BY <3>1 DEF Answers
  <2> QED BY <1>0, <1>10, <2>1, <2>2 DEF Loop!Respond, Loop!Goes, Loop!After, Touches, Steps, Ended
<1>11. CASE Loop!ReportLlm(a)
  BY <1>0, <1>11 DEF Loop!ReportLlm, Loop!Goes, Loop!After, Touches, Steps, Ended
<1> QED BY <1>1, <1>2, <1>3, <1>4, <1>5, <1>6, <1>7, <1>8, <1>9, <1>10, <1>11 DEF QuietStep

LoopStep(a) == QuietStep(a) \/ Loop!Respond(a) \/ Loop!ReportLlm(a)

LEMMA CallingKept ==
  ASSUME LoopTypes, NEW a \in Branches, LoopStep(a)
  PROVE  pc'[a] \in Calling => answer'[a].calls # <<>>
<1>0. /\ pc \in [Branches -> Steps] /\ answer \in [Branches -> Answers]
      /\ pc[a] \in Calling => answer[a].calls # <<>>
  BY DEF LoopTypes
<1>1. CASE Loop!Check(a)
  BY <1>0, <1>1 DEF Loop!Check, Loop!Goes, Loop!Fails, Calling
<1>2. CASE Loop!ProviderFails(a) \/ Loop!StoreFails(a)
  BY <1>0, <1>2 DEF Loop!ProviderFails, Loop!StoreFails, Loop!Goes, Loop!Fails, Calling
<1>3. CASE Loop!ReplayTool(a) \/ Loop!RefuseTool(a) \/ Loop!ReportDenial(a) \/ Loop!UnknownTool(a)
  BY <1>0, <1>3 DEF Loop!ReplayTool, Loop!RefuseTool, Loop!ReportDenial, Loop!UnknownTool, Calling
<1>4. CASE Loop!StartTool(a) \/ Loop!FinishTool(a) \/ Loop!ReportTool(a)
  BY <1>0, <1>4 DEF Loop!StartTool, Loop!FinishTool, Loop!ReportTool, Calling
<1>5. CASE Loop!NextCall(a)
  <2> DEFINE rest == Tail(answer[a].calls)
  <2> DEFINE shorter == [calls |-> rest, tokens |-> answer[a].tokens, model |-> answer[a].model]
  <2>1. /\ answer' = [answer EXCEPT ![a] = IF rest = <<>> THEN Loop!Nothing ELSE shorter]
        /\ pc' = [pc EXCEPT ![a] = IF rest = <<>> THEN "check" ELSE "tool"]
    BY <1>5 DEF Loop!NextCall, Loop!Goes
  <2>2. rest # <<>> => shorter.calls # <<>>
    OBVIOUS
  <2> HIDE DEF shorter, rest
  <2> QED BY <1>0, <2>1, <2>2 DEF Calling
<1>6. CASE Loop!Respond(a)
  <2>0. PICK n \in Usages, mo \in Models, k \in 0 .. MostRequests : \E calls \in [1 .. k -> Requests] :
          /\ answer' = [answer EXCEPT ![a] = [calls |-> calls, tokens |-> n, model |-> mo]]
          /\ Loop!Goes(a, IF Loop!replaying THEN Loop!After(a, calls) ELSE "report")
    BY <1>6 DEF Loop!Respond
  <2>1. PICK calls \in [1 .. k -> Requests] :
          /\ answer' = [answer EXCEPT ![a] = [calls |-> calls, tokens |-> n, model |-> mo]]
          /\ Loop!Goes(a, IF Loop!replaying THEN Loop!After(a, calls) ELSE "report")
    BY <2>0
  <2>2. answer'[a].calls = calls
    BY <1>0, <2>1
  <2>3. pc'[a] \in Calling => calls # <<>>
    BY <1>0, <2>1 DEF Loop!Goes, Loop!After, Calling
  <2> QED BY <2>2, <2>3
<1>7. CASE Loop!ReportLlm(a)
  BY <1>0, <1>7 DEF Loop!ReportLlm, Loop!Goes, Loop!After, Calling
<1> QED BY <1>1, <1>2, <1>3, <1>4, <1>5, <1>6, <1>7 DEF LoopStep, QuietStep

(* What a step does to the amounts.                                        *)
LEMMA QuietAmounts ==
  ASSUME NEW a \in Branches, QuietStep(a)
  PROVE  totals' = totals /\ drawn' = drawn
<1>1. CASE Loop!Check(a) \/ Loop!ProviderFails(a) \/ Loop!StoreFails(a) \/ Loop!ReplayTool(a)
  BY <1>1 DEF Loop!Check, Loop!ProviderFails, Loop!StoreFails, Loop!ReplayTool
<1>2. CASE Loop!RefuseTool(a) \/ Loop!ReportDenial(a) \/ Loop!UnknownTool(a) \/ Loop!StartTool(a)
  BY <1>2 DEF Loop!RefuseTool, Loop!ReportDenial, Loop!UnknownTool, Loop!StartTool
<1>3. CASE Loop!FinishTool(a) \/ Loop!ReportTool(a) \/ Loop!NextCall(a)
  BY <1>3 DEF Loop!FinishTool, Loop!ReportTool, Loop!NextCall
<1> QED BY <1>1, <1>2, <1>3 DEF QuietStep

LEMMA RespondAmounts ==
  ASSUME LoopTypes, NEW a \in Branches, Loop!Respond(a)
  PROVE  /\ totals' = totals /\ pc[a] = "llm"
         /\ recording = <<>> => pc' = [pc EXCEPT ![a] = "report"]
         /\ \E n \in Nat : /\ drawn' = [drawn EXCEPT ![a] = drawn[a] + n] /\ answer'[a].tokens = n
                           /\ \A b \in Branches \ {a} : answer'[b] = answer[b]
<1>0. PICK n \in Usages, mo \in Models, k \in 0 .. MostRequests : \E calls \in [1 .. k -> Requests] :
        /\ answer' = [answer EXCEPT ![a] = [calls |-> calls, tokens |-> n, model |-> mo]]
        /\ drawn' = [drawn EXCEPT ![a] = drawn[a] + n]
        /\ Loop!Goes(a, IF Loop!replaying THEN Loop!After(a, calls) ELSE "report")
  BY DEF Loop!Respond
<1>1. PICK calls \in [1 .. k -> Requests] :
        /\ answer' = [answer EXCEPT ![a] = [calls |-> calls, tokens |-> n, model |-> mo]]
        /\ drawn' = [drawn EXCEPT ![a] = drawn[a] + n]
        /\ Loop!Goes(a, IF Loop!replaying THEN Loop!After(a, calls) ELSE "report")
  BY <1>0
<1>2. answer'[a].tokens = n /\ \A b \in Branches \ {a} : answer'[b] = answer[b]
  <2>1. answer \in [Branches -> Answers]
    BY DEF LoopTypes
  <2> QED BY <1>1, <2>1
<1>3. n \in Nat
  BY LoopParameters
<1>4. totals' = totals /\ pc[a] = "llm"
  BY DEF Loop!Respond
<1>5. recording = <<>> => pc' = [pc EXCEPT ![a] = "report"]
  BY <1>1 DEF Loop!Goes, Loop!replaying
<1> QED BY <1>1, <1>2, <1>3, <1>4, <1>5

LEMMA ReportAmounts ==
  ASSUME LoopTypes, NEW a \in Branches, Loop!ReportLlm(a)
  PROVE  /\ totals'.tokens = totals.tokens + answer[a].tokens /\ drawn' = drawn /\ answer' = answer
         /\ pc[a] = "report" /\ pc'[a] \in {"tool", "done"}
         /\ \A b \in Branches \ {a} : pc'[b] = pc[b]
<1>0. pc \in [Branches -> Steps]
  BY DEF LoopTypes
<1>1. totals'.tokens = totals.tokens + answer[a].tokens
  BY DEF Loop!ReportLlm, Loop!Count
<1>2. drawn' = drawn /\ answer' = answer /\ pc[a] = "report"
  BY DEF Loop!ReportLlm
<1>3. pc' = [pc EXCEPT ![a] = Loop!After(a, answer[a].calls)]
  BY DEF Loop!ReportLlm, Loop!Goes
<1> QED BY <1>0, <1>1, <1>2, <1>3 DEF Loop!After

LEMMA TypesKept ==
  ASSUME LoopTypes, NEW a \in Branches, LoopStep(a)
  PROVE  LoopTypes' /\ Touches(a)
<1>1. Touches(a)
  BY StepsTouch DEF LoopStep
<1>2. /\ \A b \in Branches \ {a} : pc'[b] = pc[b] /\ answer'[b] = answer[b]
      /\ pc' \in [Branches -> Steps] /\ answer' \in [Branches -> Answers]
      /\ DOMAIN records' = Branches /\ DOMAIN trail' = Branches /\ DOMAIN performed' = Branches
      /\ \A b \in Branches : IsList(records'[b]) /\ IsList(trail'[b]) /\ IsList(performed'[b])
  BY <1>1, OthersKept
<1>3. drawn \in [Branches -> Nat] /\ totals.tokens \in Nat
  BY DEF LoopTypes
<1>4. drawn' \in [Branches -> Nat] /\ totals'.tokens \in Nat
  <2>1. CASE QuietStep(a)
    BY <1>3, <2>1, QuietAmounts
  <2>2. CASE Loop!Respond(a)
    <3>1. totals' = totals /\ \E n \in Nat : drawn' = [drawn EXCEPT ![a] = drawn[a] + n]
      BY <2>2, RespondAmounts
    <3>2. drawn[a] \in Nat
      BY <1>3
    <3>3. \A n \in Nat : drawn[a] + n \in Nat
      BY <3>2
    <3> QED BY <1>3, <3>1, <3>3
  <2>3. CASE Loop!ReportLlm(a)
    <3>1. totals'.tokens = totals.tokens + answer[a].tokens /\ drawn' = drawn
      BY <2>3, ReportAmounts
    <3>2. answer[a].tokens \in Nat
      BY AnswerParts
    <3> QED BY <1>3, <3>1, <3>2
  <2> QED BY <2>1, <2>2, <2>3 DEF LoopStep
<1>5. \A b \in Branches : pc'[b] \in Calling => answer'[b].calls # <<>>
  <2>1. \A b \in Branches \ {a} : pc[b] \in Calling => answer[b].calls # <<>>
    BY DEF LoopTypes
  <2>2. pc'[a] \in Calling => answer'[a].calls # <<>>
    BY CallingKept
  <2> QED BY <1>2, <2>1, <2>2
<1> QED BY <1>1, <1>2, <1>4, <1>5 DEF LoopTypes

-----------------------------------------------------------------------------
(* The budget is kept.                                                     *)
LEMMA DebtsAre ==
  ASSUME LoopTypes
  PROVE  \A b \in Branches : /\ Debts(pc, answer)[b] \in Nat /\ Debts(pc, answer)[b] <= Most
                             /\ Debts(pc, answer)[b] \in Int
<1>1. \A b \in Branches : answer[b].tokens \in Nat /\ answer[b].tokens <= Most
  BY AnswerParts
<1>2. 0 <= Most
  <2>1. Most \in Nat
    BY LoopParameters
  <2> HIDE DEF Most
  <2> QED BY <2>1
<1> HIDE DEF Most
<1> QED BY <1>1, <1>2 DEF Debts

LEMMA WaitingIs ==
  ASSUME NEW p
  PROVE  /\ IsFiniteSet(Waiting(p)) /\ Waiting(p) \subseteq Branches
         /\ Cardinality(Waiting(p)) \in Nat /\ Cardinality(Branches) \in Nat
         /\ Cardinality(Waiting(p)) <= Cardinality(Branches)
<1>1. IsFiniteSet(Branches)
  BY LoopParameters
<1>2. Waiting(p) \subseteq Branches
  BY DEF Waiting
<1> HIDE DEF Waiting
<1> QED BY <1>1, <1>2, FS_Subset, FS_CardinalityType

(* Fewer branches that wait leave the budget within its limit.             *)
LEMMA FewerWait ==
  ASSUME BudgetInv, recording = <<>>, totals'.tokens = totals.tokens, Waiting(pc') \subseteq Waiting(pc)
  PROVE  WithinBudget'
<1>1. IsFiniteSet(Waiting(pc))
  BY WaitingIs
<1>2. Cardinality(Waiting(pc')) <= Cardinality(Waiting(pc))
  BY <1>1, FS_Subset
<1>3. Cardinality(Waiting(pc')) \in Nat /\ Cardinality(Waiting(pc)) \in Nat /\ Cardinality(Branches) \in Nat
  BY WaitingIs
<1>4. /\ Worth(Cardinality(Waiting(pc'))) <= Worth(Cardinality(Waiting(pc)))
      /\ Worth(Cardinality(Waiting(pc'))) \in Nat /\ Worth(Cardinality(Waiting(pc))) \in Nat
      /\ Worth(Cardinality(Branches)) \in Nat
  BY <1>2, <1>3, WorthIs
<1>5. HardTokens \in Nat \cup {-1} /\ totals.tokens \in Nat
  BY LoopParameters DEF BudgetInv, LoopTypes
<1>6. HardTokens # -1 =>
        totals.tokens + Worth(Cardinality(Waiting(pc))) < HardTokens + Worth(Cardinality(Branches))
  BY DEF BudgetInv, WithinBudget
<1>7. \A t, h, w, v, b \in Nat : t + w < h + b /\ v <= w => t + v < h + b
  OBVIOUS
<1>8. ASSUME HardTokens # -1
      PROVE totals.tokens + Worth(Cardinality(Waiting(pc'))) < HardTokens + Worth(Cardinality(Branches))
  <2>1. HardTokens \in Nat
    BY <1>5, <1>8
  <2> QED BY <1>4, <1>5, <1>6, <1>7, <1>8, <2>1
<1> QED BY <1>8 DEF WithinBudget

LEMMA QuietCovered ==
  ASSUME BudgetInv, LoopTypes', recording = <<>>, NEW a \in Branches, QuietStep(a)
  PROVE  Covered'
<1>0. LoopTypes
  BY DEF BudgetInv
<1>1. totals' = totals /\ drawn' = drawn
  BY QuietAmounts
<1>2. Touches(a)
  BY <1>0, TypesKept DEF LoopStep
<1>3. \A b \in Branches \ {a} : pc'[b] = pc[b] /\ answer'[b] = answer[b]
  BY <1>0, <1>2, OthersKept
<1>4. \/ pc[a] \notin {"report", "failed"}
      \/ pc'[a] = "failed" /\ answer' = answer
  BY <1>0 DEF QuietStep, LoopTypes, Loop!Check, Loop!ProviderFails, Loop!StoreFails, Loop!ReplayTool, Loop!RefuseTool,
       Loop!ReportDenial, Loop!UnknownTool, Loop!StartTool, Loop!FinishTool, Loop!ReportTool, Loop!NextCall,
       Loop!Goes, Loop!Fails
<1>5. (\A b \in Branches : Debts(pc, answer)[b] \in Nat)
  BY <1>0, DebtsAre
<1>6. (\A b \in Branches : Debts(pc', answer')[b] \in Nat)
  <2>1. \A b \in Branches : answer'[b].tokens \in Nat
    <3>1. \A b \in Branches : answer'[b] \in Answers
      BY DEF LoopTypes
    <3>2. \A s \in Answers : s.tokens \in Usages \cup {0}
      BY DEF Answers
    <3>3. \A u \in Usages \cup {0} : u \in Nat
      BY LoopParameters
    <3> QED BY <3>1, <3>2, <3>3
  <2> QED BY <2>1 DEF Debts
<1>7. \A b \in Branches : Debts(pc, answer)[b] <= Debts(pc', answer')[b]
  <2>1. \A b \in Branches \ {a} : Debts(pc, answer)[b] = Debts(pc', answer')[b]
    BY <1>3 DEF Debts
  <2>2. Debts(pc, answer)[a] = 0 \/ Debts(pc, answer)[a] = Debts(pc', answer')[a]
    BY <1>4 DEF Debts
  <2> HIDE DEF Debts
  <2>3. \A m, n \in Nat : m = 0 \/ m = n => m <= n
    OBVIOUS
  <2>4. \A b \in Branches : Debts(pc, answer)[b] = 0 \/ Debts(pc, answer)[b] = Debts(pc', answer')[b]
    BY <2>1, <2>2
  <2> QED BY <1>5, <1>6, <2>3, <2>4
<1> DEFINE f == Debts(pc, answer)
<1> DEFINE g == Debts(pc', answer')
<1>8. \A b \in Branches : f[b] \in Int /\ g[b] \in Int /\ f[b] <= g[b]
  BY <1>5, <1>6, <1>7
<1>9. \A b \in Branches : drawn[b] \in Int
  BY <1>0 DEF LoopTypes
<1>10. Sum(drawn, Branches) <= totals.tokens + Sum(f, Branches) /\ totals.tokens \in Int
  BY <1>0 DEF BudgetInv, Covered, LoopTypes
<1> HIDE DEF f, g
<1>11. Sum(f, Branches) <= Sum(g, Branches)
  BY <1>8, LoopParameters, SumMono
<1>12. Sum(f, Branches) \in Int /\ Sum(g, Branches) \in Int /\ Sum(drawn, Branches) \in Int
  <2>1. \A b \in Branches : f[b] \in Int
    BY <1>8
  <2>2. \A b \in Branches : g[b] \in Int
    BY <1>8
  <2>3. IsFiniteSet(Branches) /\ Branches \in SUBSET Branches
    BY LoopParameters
  <2>4. Sum(f, Branches) \in Int
    BY <2>1, <2>3, SumType
  <2>5. Sum(g, Branches) \in Int
    BY <2>2, <2>3, SumType
  <2>6. Sum(drawn, Branches) \in Int
    BY <1>9, <2>3, SumType
  <2> QED BY <2>4, <2>5, <2>6
<1>13. Sum(drawn, Branches) <= totals.tokens + Sum(g, Branches)
  BY <1>10, <1>11, <1>12
<1> QED BY <1>1, <1>13 DEF Covered, g

LEMMA QuietWithin ==
  ASSUME BudgetInv, recording = <<>>, NEW a \in Branches, QuietStep(a)
  PROVE  WithinBudget'
<1>0. LoopTypes
  BY DEF BudgetInv
<1>1. totals' = totals
  BY QuietAmounts
<1>2. Touches(a)
  BY <1>0, TypesKept DEF LoopStep
<1>3. pc \in [Branches -> Steps] /\ \A b \in Branches \ {a} : pc'[b] = pc[b]
  BY <1>0, <1>2, OthersKept DEF LoopTypes
<1>4. CASE pc'[a] \notin {"llm", "report"}
  <2>1. Waiting(pc') \subseteq Waiting(pc)
    BY <1>3, <1>4 DEF Waiting
  <2> QED BY <1>1, <2>1, FewerWait
<1>5. CASE pc'[a] \in {"llm", "report"}
  <2>1. HardTokens # -1 => ~(totals.tokens >= HardTokens)
    BY <1>3, <1>5 DEF QuietStep, Loop!Check, Loop!ProviderFails, Loop!StoreFails, Loop!ReplayTool, Loop!RefuseTool,
       Loop!ReportDenial, Loop!UnknownTool, Loop!StartTool, Loop!FinishTool, Loop!ReportTool, Loop!NextCall,
       Loop!Goes, Loop!Fails, Loop!AfterTool, Loop!HardLimitHit, Loop!Reached, Loop!NoLimit
  <2>2. /\ Cardinality(Waiting(pc')) \in Nat /\ Cardinality(Branches) \in Nat
        /\ Cardinality(Waiting(pc')) <= Cardinality(Branches)
    BY WaitingIs
  <2>3. /\ Worth(Cardinality(Waiting(pc'))) \in Nat /\ Worth(Cardinality(Branches)) \in Nat
        /\ Worth(Cardinality(Waiting(pc'))) <= Worth(Cardinality(Branches))
    BY <2>2, WorthIs
  <2>4. HardTokens \in Nat \cup {-1} /\ totals.tokens \in Nat
    BY <1>0, LoopParameters DEF LoopTypes
  <2>5. \A t, h, v, b \in Nat : ~(t >= h) /\ v <= b => t + v < h + b
    OBVIOUS
  <2>6. ASSUME HardTokens # -1
        PROVE totals.tokens + Worth(Cardinality(Waiting(pc'))) < HardTokens + Worth(Cardinality(Branches))
    <3>1. HardTokens \in Nat
      BY <2>4, <2>6
    <3> QED BY <2>1, <2>3, <2>4, <2>5, <2>6, <3>1
  <2> QED BY <1>1, <2>6 DEF WithinBudget
<1> QED BY <1>4, <1>5

(* Sums of naturals over the branches.                                     *)
LEMMA BranchSums ==
  ASSUME NEW f, \A b \in Branches : f[b] \in Nat
  PROVE  Sum(f, Branches) \in Int
<1>1. IsFiniteSet(Branches) /\ Branches \in SUBSET Branches
  BY LoopParameters
<1>2. \A b \in Branches : f[b] \in Int
  OBVIOUS
<1> QED BY <1>1, <1>2, SumType

LEMMA BranchChange ==
  ASSUME NEW f, \A b \in Branches : f[b] \in Nat, NEW g, \A b \in Branches : g[b] \in Nat,
         NEW a \in Branches, \A b \in Branches \ {a} : f[b] = g[b]
  PROVE  Sum(g, Branches) = Sum(f, Branches) - f[a] + g[a]
<1>1. IsFiniteSet(Branches)
  BY LoopParameters
<1>2. \A y \in Branches : g[y] \in Int /\ (y # a => f[y] = g[y])
  OBVIOUS
<1>3. f[a] \in Int /\ g[a] \in Int
  OBVIOUS
<1>4. Sum(g, Branches) = Sum(f, Branches) - f[a] + g[a] /\ Sum(f, Branches) \in Int
  BY <1>1, <1>2, <1>3, SumChange
<1> QED BY <1>4

LEMMA DebtsLater ==
  ASSUME LoopTypes'
  PROVE  \A b \in Branches : Debts(pc', answer')[b] \in Nat
<1>1. \A b \in Branches : answer'[b] \in Answers
  BY DEF LoopTypes
<1>2. \A s \in Answers : s.tokens \in Usages \cup {0}
  BY DEF Answers
<1>3. \A u \in Usages \cup {0} : u \in Nat
  BY LoopParameters
<1>4. \A b \in Branches : answer'[b].tokens \in Nat
  BY <1>1, <1>2, <1>3
<1> QED BY <1>4 DEF Debts

LEMMA RespondKeeps ==
  ASSUME BudgetInv, LoopTypes', recording = <<>>, NEW a \in Branches, Loop!Respond(a)
  PROVE  Covered' /\ WithinBudget'
<1>0. LoopTypes
  BY DEF BudgetInv
<1>1. totals' = totals /\ pc[a] = "llm" /\ pc' = [pc EXCEPT ![a] = "report"]
  BY <1>0, RespondAmounts
<1>2. PICK n \in Nat : /\ drawn' = [drawn EXCEPT ![a] = drawn[a] + n] /\ answer'[a].tokens = n
                       /\ \A b \in Branches \ {a} : answer'[b] = answer[b]
  BY <1>0, RespondAmounts
<1>3. pc \in [Branches -> Steps] /\ drawn \in [Branches -> Nat] /\ totals.tokens \in Nat
  BY <1>0 DEF LoopTypes
<1>4. Waiting(pc') \subseteq Waiting(pc)
  BY <1>1, <1>3 DEF Waiting
<1>5. WithinBudget'
  BY <1>1, <1>4, FewerWait
<1> DEFINE f == Debts(pc, answer)
<1> DEFINE g == Debts(pc', answer')
<1>6. f[a] = 0 /\ g[a] = n
  BY <1>1, <1>2, <1>3 DEF Debts
<1>7. \A b \in Branches \ {a} : f[b] = g[b]
  BY <1>1, <1>2, <1>3 DEF Debts
<1>8. \A b \in Branches : f[b] \in Nat
  BY <1>0, DebtsAre
<1>9. \A b \in Branches : g[b] \in Nat
  BY DebtsLater
<1>10. Sum(drawn, Branches) <= totals.tokens + Sum(f, Branches)
  BY DEF BudgetInv, Covered
<1>11. (\A b \in Branches : drawn[b] \in Nat) /\ (\A b \in Branches \ {a} : drawn[b] = drawn'[b])
  BY <1>2, <1>3
<1>12. drawn'[a] = drawn[a] + n /\ \A b \in Branches : drawn'[b] \in Nat
  BY <1>2, <1>3
<1>13. Sum(drawn', Branches) = Sum(drawn, Branches) - drawn[a] + drawn'[a]
  BY <1>11, <1>12, BranchChange
<1> HIDE DEF f, g
<1>14. Sum(g, Branches) = Sum(f, Branches) - f[a] + g[a]
  BY <1>7, <1>8, <1>9, BranchChange
<1>15. Sum(drawn, Branches) \in Int /\ Sum(f, Branches) \in Int
  BY <1>8, <1>11, BranchSums
<1>16. Sum(drawn', Branches) <= totals'.tokens + Sum(g, Branches)
  <2>1. drawn[a] \in Nat
    BY <1>11
  <2> QED BY <1>1, <1>3, <1>6, <1>10, <1>12, <1>13, <1>14, <1>15, <2>1
<1> QED BY <1>5, <1>16 DEF Covered, g

LEMMA ReportKeeps ==
  ASSUME BudgetInv, LoopTypes', recording = <<>>, NEW a \in Branches, Loop!ReportLlm(a)
  PROVE  Covered' /\ WithinBudget'
<1>0. LoopTypes
  BY DEF BudgetInv
<1> DEFINE n == answer[a].tokens
<1>1. /\ totals'.tokens = totals.tokens + n /\ drawn' = drawn /\ answer' = answer
      /\ pc[a] = "report" /\ pc'[a] \in {"tool", "done"}
      /\ \A b \in Branches \ {a} : pc'[b] = pc[b]
  BY <1>0, ReportAmounts
<1>2. n \in Nat /\ n <= Most
  BY <1>0, AnswerParts
<1>3. drawn \in [Branches -> Nat] /\ totals.tokens \in Nat
  BY <1>0 DEF LoopTypes
<1> DEFINE f == Debts(pc, answer)
<1> DEFINE g == Debts(pc', answer')
<1>4. f[a] = n /\ g[a] = 0
  BY <1>1 DEF Debts
<1>5. \A b \in Branches \ {a} : f[b] = g[b]
  BY <1>1 DEF Debts
<1>6. \A b \in Branches : f[b] \in Nat
  BY <1>0, DebtsAre
<1>7. \A b \in Branches : g[b] \in Nat
  BY DebtsLater
<1>8. Sum(drawn, Branches) <= totals.tokens + Sum(f, Branches)
  BY DEF BudgetInv, Covered
<1>9. \A b \in Branches : drawn[b] \in Nat
  BY <1>3
<1>10. Waiting(pc') = Waiting(pc) \ {a} /\ a \in Waiting(pc)
  BY <1>1 DEF Waiting
<1> HIDE DEF f, g, n
<1>11. Sum(g, Branches) = Sum(f, Branches) - f[a] + g[a]
  BY <1>5, <1>6, <1>7, BranchChange
<1>12. Sum(drawn, Branches) \in Int /\ Sum(f, Branches) \in Int
  BY <1>6, <1>9, BranchSums
<1>13. Sum(drawn', Branches) <= totals'.tokens + Sum(g, Branches)
  BY <1>1, <1>2, <1>3, <1>4, <1>8, <1>11, <1>12
<1>14. Cardinality(Waiting(pc')) = Cardinality(Waiting(pc)) - 1
  <2>1. IsFiniteSet(Waiting(pc))
    BY WaitingIs
  <2> QED BY <1>10, <2>1, FS_RemoveElement
<1>15. Cardinality(Waiting(pc')) \in Nat /\ Cardinality(Waiting(pc)) \in Nat /\ Cardinality(Branches) \in Nat
  BY WaitingIs
<1>16. /\ Worth(Cardinality(Waiting(pc'))) \in Nat /\ Worth(Cardinality(Waiting(pc))) \in Nat
       /\ Worth(Cardinality(Branches)) \in Nat
  BY <1>15, WorthIs
<1>17. Worth(Cardinality(Waiting(pc))) = Worth(Cardinality(Waiting(pc'))) + Most
  <2>1. Cardinality(Waiting(pc)) = Cardinality(Waiting(pc')) + 1
    BY <1>14, <1>15
  <2> QED BY <1>15, <2>1, WorthIs
<1>18. Most \in Nat /\ HardTokens \in Nat \cup {-1}
  BY LoopParameters
<1>19. HardTokens # -1 =>
         totals.tokens + Worth(Cardinality(Waiting(pc))) < HardTokens + Worth(Cardinality(Branches))
  BY DEF BudgetInv, WithinBudget
<1>20. \A t, h, v, w, b, m, k \in Nat : t + w < h + b /\ w = v + m /\ k <= m => (t + k) + v < h + b
  OBVIOUS
<1>21. ASSUME HardTokens # -1
       PROVE totals'.tokens + Worth(Cardinality(Waiting(pc'))) < HardTokens + Worth(Cardinality(Branches))
  <2>1. HardTokens \in Nat
    BY <1>18, <1>21
  <2> HIDE DEF Most
  <2> QED BY <1>1, <1>2, <1>3, <1>16, <1>17, <1>18, <1>19, <1>20, <1>21, <2>1
<1> QED BY <1>13, <1>21 DEF Covered, WithinBudget, g

LEMMA LoopStarts == ASSUME Loop!Init PROVE BudgetInv
<1>1. LoopTypes
  <2>1. /\ pc = [a \in Branches |-> "check"] /\ answer = [a \in Branches |-> Loop!Nothing]
        /\ records = [a \in Branches |-> <<>>] /\ totals = [usd |-> 0, tokens |-> 0]
        /\ trail = [a \in Branches |-> <<>>] /\ performed = [a \in Branches |-> <<>>]
        /\ drawn = [a \in Branches |-> 0]
    BY DEF Loop!Init
  <2>2. Loop!Nothing \in Answers
    BY DEF Loop!Nothing, Answers
  <2>3. IsList(<<>>)
    <3>1. <<>> \in Seq({})
      OBVIOUS
    <3> QED BY <3>1 DEF IsList
  <2>4. totals.tokens \in Nat
    BY <2>1
  <2>5. pc \in [Branches -> Steps] /\ \A a \in Branches : pc[a] \notin Calling
    BY <2>1 DEF Steps, Calling
  <2> QED BY <2>1, <2>2, <2>3, <2>4, <2>5 DEF LoopTypes
<1>2. Covered
  <2>1. drawn = [a \in Branches |-> 0] /\ totals.tokens = 0 /\ pc = [a \in Branches |-> "check"]
    BY DEF Loop!Init
  <2> DEFINE f == Debts(pc, answer)
  <2>2. \A b \in Branches : drawn[b] = 0 /\ f[b] = 0
    BY <2>1 DEF Debts
  <2> HIDE DEF f
  <2>3. \A b \in Branches : drawn[b] \in Int /\ drawn[b] = f[b]
    BY <2>2
  <2>4. Sum(drawn, Branches) = Sum(f, Branches)
    BY <2>3, LoopParameters, SumSame
  <2>5. Sum(drawn, Branches) \in Int
    BY <2>2, BranchSums
  <2>6. Sum(drawn, Branches) <= totals.tokens + Sum(f, Branches)
    BY <2>1, <2>4, <2>5
  <2> QED BY <2>6 DEF Covered, f
<1>3. WithinBudget
  <2>1. totals.tokens = 0 /\ pc = [a \in Branches |-> "check"]
    BY DEF Loop!Init
  <2>2. Waiting(pc) = {}
    BY <2>1 DEF Waiting
  <2>3. Cardinality(Waiting(pc)) = 0 /\ Cardinality(Branches) \in Nat /\ Cardinality(Branches) # 0
    BY <2>2, LoopParameters, FS_EmptySet, FS_CardinalityType
  <2>4. Most \in Nat /\ Most > 0 /\ HardTokens \in Nat \cup {-1}
    BY LoopParameters
  <2>5. Worth(Cardinality(Branches)) >= Most /\ Worth(Cardinality(Branches)) \in Nat
    <3>1. 1 <= Cardinality(Branches) /\ 1 \in Nat /\ 0 \in Nat
      BY <2>3
    <3>2. Worth(1) <= Worth(Cardinality(Branches)) /\ Worth(Cardinality(Branches)) \in Nat /\ Worth(1) \in Nat
      BY <2>3, <3>1, WorthIs
    <3>3. Worth(1) = Worth(0) + Most /\ Worth(0) \in Nat
      <4>1. Worth(0 + 1) = Worth(0) + Most /\ Worth(0) \in Nat
        BY <3>1, WorthIs
      <4>2. 0 + 1 = 1
        OBVIOUS
      <4> QED BY <4>1, <4>2
    <3> HIDE DEF Most
    <3> QED BY <2>4, <3>2, <3>3
  <2>6. Worth(0) = 0
    <3>1. \A w \in Nat : 0 * w = 0
      OBVIOUS
    <3> QED BY <2>4, <3>1 DEF Worth
  <2> HIDE DEF Most
  <2>7. ASSUME HardTokens # -1
        PROVE totals.tokens + Worth(Cardinality(Waiting(pc))) < HardTokens + Worth(Cardinality(Branches))
    BY <2>1, <2>3, <2>4, <2>5, <2>6, <2>7
  <2> QED BY <2>7 DEF WithinBudget
<1> QED BY <1>1, <1>2, <1>3 DEF BudgetInv

LEMMA BudgetKept ==
  ASSUME BudgetInv, NEW a \in Branches, LoopStep(a)
  PROVE  BudgetInv'
<1>1. LoopTypes' /\ recording' = recording
  BY TypesKept DEF BudgetInv, Touches
<1>2. ASSUME recording = <<>> PROVE Covered' /\ WithinBudget'
  <2>1. CASE QuietStep(a)
    BY <1>1, <1>2, <2>1, QuietCovered, QuietWithin
  <2>2. CASE Loop!Respond(a)
    BY <1>1, <1>2, <2>2, RespondKeeps
  <2>3. CASE Loop!ReportLlm(a)
    BY <1>1, <1>2, <2>3, ReportKeeps
  <2> QED BY <2>1, <2>2, <2>3 DEF LoopStep
<1> QED BY <1>1, <1>2 DEF BudgetInv

(* core/agent.py, cost/: however the branches of a fan-out interleave,     *)
(* answer and fail, the tokens the aggregator does not know are those of   *)
(* responses being reported or whose report failed, and the hard limit is  *)
(* passed by one call of each branch at most.                              *)
THEOREM BudgetIsKept == Spec => []BudgetHolds
<1> DEFINE Held == part = "loop" => BudgetInv
<1>1. Init => Held
  BY LoopStarts DEF Init
<1>2. Held /\ [Next]_vars => Held'
  <2> SUFFICES ASSUME Held, [Next]_vars, part' = "loop" PROVE BudgetInv'
    OBVIOUS
  <2>1. part = "loop" /\ BudgetInv
    BY DEF Next, vars
  <2>2. CASE Loop!Next
    <3>1. PICK a \in Branches : LoopStep(a)
      BY <2>2 DEF Loop!Next, LoopStep, QuietStep
    <3> QED BY <2>1, <3>1, BudgetKept
  <2>3. CASE UNCHANGED loop
    <3>1. /\ pc' = pc /\ answer' = answer /\ records' = records /\ totals' = totals /\ trail' = trail
          /\ performed' = performed /\ recording' = recording /\ drawn' = drawn
      BY <2>3 DEF loop
    <3> QED BY <2>1, <3>1 DEF BudgetInv, LoopTypes, Covered, WithinBudget
  <2> QED
    BY <2>1, <2>2, <2>3 DEF Next, vars
<1>3. Held => BudgetHolds
  BY BudgetIs DEF BudgetHolds
<1> QED
  BY <1>1, <1>2, <1>3, PTL DEF Spec

-----------------------------------------------------------------------------
(***************************************************************************)
(* The trail of a branch, as a matter of its values: where it stands, the  *)
(* calls that wait, its records, what is stored and what it entered.       *)
(***************************************************************************)
Unexecuted == {"denied", "unknown"}
Counts(e) == e.type = "ToolCalled" /\ e.error \notin Unexecuted
LoggedIn(tr) == {i \in DOMAIN tr : Counts(tr[i])}
Entries(tr) == Cardinality(LoggedIn(tr))
Upto(tr, i) == {j \in LoggedIn(tr) : j <= i}
PlaceIn(tr, i) == Cardinality(Upto(tr, i))
Fits(d, call) == d.tool = call.tool /\ d.args = call.args \cap OwnTools[d.tool]
InOrder(tr, done) == \A i \in LoggedIn(tr) : Fits(done[PlaceIn(tr, i)], tr[i].call)
Pending(tr, done, call) == Entries(tr) + 1 = Len(done) /\ Fits(done[Len(done)], call)

Live(at, calls, rs, tr, done) ==
  /\ InOrder(tr, done) /\ Entries(tr) \in {Len(done), Len(done) - 1}
  /\ at = "running" => Pending(tr, done, Head(calls))
  /\ at = "reportTool" =>
       /\ rs # <<>>
       /\ rs[Len(rs)].error \in Unexecuted => Entries(tr) = Len(done)
       /\ rs[Len(rs)].error \notin Unexecuted => Pending(tr, done, rs[Len(rs)].call)
  /\ at \notin {"running", "reportTool", "failed"} => Entries(tr) = Len(done)

(* In replay mode.                                                         *)
RecordedIn(rec, call) == {i \in DOMAIN rec : rec[i].call = call}
FromLog(rec, r) ==
  LET found == RecordedIn(rec, r.call) IN
  found # {} => r.result = rec[Loop!Min(found)].result /\ r.error = rec[Loop!Min(found)].error
ExecutedIn(rec, rs) == {i \in DOMAIN rs : RecordedIn(rec, rs[i].call) = {}}
Done(rec, rs) == Cardinality(ExecutedIn(rec, rs))
Replayed(rec, at, calls, rs, tr, done) ==
  /\ at \notin {"report", "reportTool"} /\ LoggedIn(tr) = {}
  /\ \A i \in DOMAIN rs : FromLog(rec, rs[i])
  /\ at \in {"denied", "running"} => RecordedIn(rec, Head(calls)) = {}
  /\ Len(done) <= Done(rec, rs) + (IF at = "running" THEN 1 ELSE 0)

BranchHolds(rec, at, calls, rs, tr, done) ==
  IF rec = <<>> THEN Live(at, calls, rs, tr, done) ELSE Replayed(rec, at, calls, rs, tr, done)
TrailInv ==
  /\ LoopTypes
  /\ \A a \in Branches : BranchHolds(recording, pc[a], answer[a].calls, records[a], trail[a], performed[a])

LEMMA TrailIs == TrailInv => Loop!TrailIsComplete
<1> SUFFICES ASSUME TrailInv PROVE Loop!TrailIsComplete
  OBVIOUS
<1>0. \A S : Loop!Cardinality(S) = Cardinality(S)
  BY DEF Loop!Cardinality, Cardinality
<1>1. ASSUME NEW a \in Branches
      PROVE  /\ Loop!Logged(a) = LoggedIn(trail[a])
             /\ Loop!Cardinality(Loop!Logged(a)) = Entries(trail[a])
             /\ \A i : Loop!Place(a, i) = PlaceIn(trail[a], i)
  BY <1>0 DEF Loop!Logged, Loop!Place, LoggedIn, Counts, Unexecuted, Entries, PlaceIn, Upto
<1>2. ASSUME NEW a \in Branches, recording = <<>>
      PROVE  LET n == Len(performed[a])   logged == Loop!Cardinality(Loop!Logged(a)) IN
             /\ logged \in {n, n - 1}
             /\ logged < n => pc[a] \in {"running", "reportTool", "failed"}
             /\ \A i \in Loop!Logged(a) : Loop!Matches(performed[a][Loop!Place(a, i)], trail[a][i])
  <2> DEFINE n == Len(performed[a])
  <2>1. Live(pc[a], answer[a].calls, records[a], trail[a], performed[a])
    BY <1>2 DEF TrailInv, BranchHolds
  <2>2. IsList(performed[a])
    BY DEF TrailInv, LoopTypes
  <2>3. n \in Nat
    BY <2>2, ListFacts
  <2>4. Entries(trail[a]) \in {n, n - 1}
    BY <2>1 DEF Live
  <2>5. Entries(trail[a]) < n => pc[a] \in {"running", "reportTool", "failed"}
    <3>1. pc[a] \notin {"running", "reportTool", "failed"} => Entries(trail[a]) = n
      BY <2>1 DEF Live
    <3> HIDE DEF n
    <3> QED BY <2>3, <3>1
  <2>6. \A i \in Loop!Logged(a) : Loop!Matches(performed[a][Loop!Place(a, i)], trail[a][i])
    BY <1>1, <2>1 DEF Live, InOrder, Fits, Loop!Matches
  <2> QED BY <1>1, <2>4, <2>5, <2>6
<1>3. ASSUME NEW a \in Branches, recording # <<>>
      PROVE  /\ \A i \in DOMAIN records[a] :
                  LET r == records[a][i] IN
                  Loop!Same(r.call) # {} =>
                    LET first == recording[Loop!Min(Loop!Same(r.call))]
                    IN  r.result = first.result /\ r.error = first.error
             /\ Loop!Logged(a) = {}
             /\ Len(performed[a]) <= Loop!Cardinality(Loop!Executed(a)) + (IF pc[a] = "running" THEN 1 ELSE 0)
  <2>1. Replayed(recording, pc[a], answer[a].calls, records[a], trail[a], performed[a])
    BY <1>3 DEF TrailInv, BranchHolds
  <2>2. \A c : Loop!Same(c) = RecordedIn(recording, c)
    BY DEF Loop!Same, RecordedIn
  <2>3. Loop!Cardinality(Loop!Executed(a)) = Done(recording, records[a])
    BY <1>0, <2>2 DEF Loop!Executed, ExecutedIn, Done
  <2> QED BY <1>1, <2>1, <2>2, <2>3 DEF Replayed, FromLog
<1> QED BY <1>2, <1>3 DEF Loop!TrailIsComplete

LEMMA LoggedFinite ==
  ASSUME NEW tr, IsList(tr)
  PROVE  /\ IsFiniteSet(LoggedIn(tr)) /\ Entries(tr) \in Nat
         /\ \A i : IsFiniteSet(Upto(tr, i))
         /\ \A i \in LoggedIn(tr) : PlaceIn(tr, i) \in 1 .. Entries(tr)
<1>1. DOMAIN tr = 1 .. Len(tr) /\ Len(tr) \in Nat
  BY ListFacts
<1>2. LoggedIn(tr) \subseteq 1 .. Len(tr)
  BY <1>1 DEF LoggedIn
<1>3. IsFiniteSet(1 .. Len(tr))
  BY <1>1, FS_Interval
<1>4. IsFiniteSet(LoggedIn(tr))
  BY <1>2, <1>3, FS_Subset
<1>5. Entries(tr) \in Nat
  BY <1>4, FS_CardinalityType DEF Entries
<1>6. \A i : Upto(tr, i) \subseteq LoggedIn(tr)
  BY DEF Upto
<1>7. \A i : IsFiniteSet(Upto(tr, i)) /\ Cardinality(Upto(tr, i)) <= Entries(tr)
  BY <1>4, <1>6, FS_Subset DEF Entries
<1>8. ASSUME NEW i \in LoggedIn(tr) PROVE PlaceIn(tr, i) \in 1 .. Entries(tr)
  <2>1. i \in Upto(tr, i)
    BY <1>2 DEF Upto
  <2>2. Cardinality(Upto(tr, i)) # 0
    BY <1>7, <2>1, FS_EmptySet
  <2>3. Cardinality(Upto(tr, i)) \in Nat
    BY <1>7, FS_CardinalityType
  <2> QED BY <1>5, <1>7, <2>2, <2>3 DEF PlaceIn
<1> QED BY <1>4, <1>5, <1>7, <1>8

(* What an appended event changes of what is logged.                       *)
LEMMA LogAppended ==
  ASSUME NEW tr, IsList(tr), NEW e
  PROVE  /\ \A i \in LoggedIn(tr) : PlaceIn(Append(tr, e), i) = PlaceIn(tr, i) /\ Append(tr, e)[i] = tr[i]
         /\ ~Counts(e) => LoggedIn(Append(tr, e)) = LoggedIn(tr)
         /\ Counts(e) => /\ LoggedIn(Append(tr, e)) = LoggedIn(tr) \cup {Len(tr) + 1}
                         /\ Entries(Append(tr, e)) = Entries(tr) + 1
                         /\ PlaceIn(Append(tr, e), Len(tr) + 1) = Entries(tr) + 1
<1> DEFINE n == Len(tr)
<1> DEFINE u == Append(tr, e)
<1>1. DOMAIN tr = 1 .. n /\ n \in Nat
  BY ListFacts
<1>2. DOMAIN u = 1 .. (n + 1) /\ u[n + 1] = e /\ \A i \in 1 .. n : u[i] = tr[i]
  BY ListFacts
<1> HIDE DEF u, n
<1>3. \A i : i \in 1 .. (n + 1) <=> i \in 1 .. n \/ i = n + 1
  BY <1>1
<1>4. n + 1 \notin 1 .. n /\ \A i \in 1 .. n : i \in Int /\ i <= n + 1 /\ ~(n + 1 <= i)
  BY <1>1
<1>5. \A i : i \in LoggedIn(u) <=> i \in LoggedIn(tr) \/ (i = n + 1 /\ Counts(e))
  BY <1>1, <1>2, <1>3, <1>4 DEF LoggedIn
<1>6. ~Counts(e) => LoggedIn(u) = LoggedIn(tr)
  BY <1>5
<1>7. Counts(e) => LoggedIn(u) = LoggedIn(tr) \cup {n + 1}
  BY <1>5
<1>8. \A i \in LoggedIn(tr) : i \in 1 .. n
  BY <1>1 DEF LoggedIn
<1>9. \A i \in LoggedIn(tr) : Upto(u, i) = Upto(tr, i) /\ u[i] = tr[i]
  BY <1>2, <1>4, <1>5, <1>8 DEF Upto
<1>10. ASSUME Counts(e)
       PROVE  Entries(u) = Entries(tr) + 1 /\ PlaceIn(u, n + 1) = Entries(tr) + 1
  <2>1. n + 1 \notin LoggedIn(tr) /\ IsFiniteSet(LoggedIn(tr))
    BY <1>4, <1>8, LoggedFinite
  <2>2. Entries(u) = Entries(tr) + 1
    BY <1>7, <1>10, <2>1, FS_AddElement DEF Entries
  <2>3. Upto(u, n + 1) = LoggedIn(u)
    <3>1. n + 1 <= n + 1
      BY <1>1
    <3> QED BY <1>4, <1>5, <1>8, <3>1 DEF Upto
  <2> QED BY <2>2, <2>3 DEF PlaceIn, Entries
<1> QED BY <1>6, <1>7, <1>9, <1>10 DEF u, n, PlaceIn

(* The ways in which the values of a branch change outside replay mode.    *)
LEMMA LiveMoves ==
  ASSUME NEW at, NEW calls, NEW rs, NEW tr, NEW done, Live(at, calls, rs, tr, done),
         NEW to, to \notin {"running", "reportTool"},
         to = "failed" \/ at \notin {"running", "reportTool", "failed"}
  PROVE  \A calls2, rs2 : Live(to, calls2, rs2, tr, done)
BY DEF Live

LEMMA LiveReports ==
  ASSUME NEW at, NEW calls, NEW rs, NEW tr, NEW done, Live(at, calls, rs, tr, done),
         IsList(tr), at \notin {"running", "reportTool", "failed"}, NEW e, ~Counts(e)
  PROVE  /\ \A to : to \notin {"running", "reportTool"} => Live(to, calls, rs, Append(tr, e), done)
         /\ \A rs2 : rs2 # <<>> /\ rs2[Len(rs2)].error \in Unexecuted =>
              Live("reportTool", calls, rs2, Append(tr, e), done)
<1>1. /\ \A i \in LoggedIn(tr) : PlaceIn(Append(tr, e), i) = PlaceIn(tr, i) /\ Append(tr, e)[i] = tr[i]
      /\ LoggedIn(Append(tr, e)) = LoggedIn(tr)
  BY LogAppended
<1>2. Entries(Append(tr, e)) = Entries(tr)
  BY <1>1 DEF Entries
<1>3. InOrder(Append(tr, e), done)
  BY <1>1 DEF Live, InOrder
<1>4. Entries(tr) = Len(done) /\ Entries(tr) \in {Len(done), Len(done) - 1}
  BY DEF Live
<1> QED BY <1>2, <1>3, <1>4 DEF Live

LEMMA LiveRefuses ==
  ASSUME NEW at, NEW calls, NEW rs, NEW tr, NEW done, Live(at, calls, rs, tr, done),
         at \notin {"running", "reportTool", "failed"},
         NEW rs2, rs2 # <<>>, rs2[Len(rs2)].error \in Unexecuted
  PROVE  Live("reportTool", calls, rs2, tr, done)
<1>1. Entries(tr) = Len(done)
  BY DEF Live
<1> QED BY <1>1 DEF Live

LEMMA LiveEnters ==
  ASSUME NEW at, NEW calls, NEW rs, NEW tr, NEW done, Live(at, calls, rs, tr, done),
         IsList(tr), IsList(done), at \notin {"running", "reportTool", "failed"},
         NEW d, Fits(d, Head(calls))
  PROVE  Live("running", calls, rs, tr, Append(done, d))
<1> DEFINE n == Len(done)
<1> DEFINE more == Append(done, d)
<1>1. n \in Nat /\ Len(more) = n + 1 /\ more[n + 1] = d /\ \A i \in 1 .. n : more[i] = done[i]
  BY ListFacts
<1>2. Entries(tr) = n /\ InOrder(tr, done)
  BY DEF Live
<1> HIDE DEF n, more
<1>3. \A i \in LoggedIn(tr) : PlaceIn(tr, i) \in 1 .. n
  BY <1>2, LoggedFinite
<1>4. InOrder(tr, more)
  BY <1>1, <1>2, <1>3 DEF InOrder
<1>5. Pending(tr, more, Head(calls))
  BY <1>1, <1>2 DEF Pending
<1>6. Entries(tr) \in {Len(more), Len(more) - 1}
  BY <1>1, <1>2
<1> QED BY <1>4, <1>5, <1>6 DEF Live, more

LEMMA LiveFinishes ==
  ASSUME NEW calls, NEW rs, NEW tr, NEW done, Live("running", calls, rs, tr, done),
         NEW rs2, rs2 # <<>>, rs2[Len(rs2)].error \notin Unexecuted, rs2[Len(rs2)].call = Head(calls)
  PROVE  Live("reportTool", calls, rs2, tr, done)
<1>1. Pending(tr, done, Head(calls))
  BY DEF Live
<1> QED BY <1>1 DEF Live

LEMMA LiveLogs ==
  ASSUME NEW calls, NEW rs, NEW tr, NEW done, Live("reportTool", calls, rs, tr, done),
         IsList(tr), IsList(done), NEW e, e.type = "ToolCalled",
         e.error = rs[Len(rs)].error, e.call = rs[Len(rs)].call
  PROVE  Live("next", calls, rs, Append(tr, e), done)
<1> DEFINE n == Len(done)
<1> DEFINE t == Append(tr, e)
<1>0. n \in Nat /\ Len(tr) \in Nat /\ t[Len(tr) + 1] = e /\ InOrder(tr, done) /\ Entries(tr) \in Nat
  BY ListFacts, LoggedFinite DEF Live
<1>1. /\ \A i \in LoggedIn(tr) : PlaceIn(t, i) = PlaceIn(tr, i) /\ t[i] = tr[i]
      /\ ~Counts(e) => LoggedIn(t) = LoggedIn(tr)
      /\ Counts(e) => /\ LoggedIn(t) = LoggedIn(tr) \cup {Len(tr) + 1}
                      /\ Entries(t) = Entries(tr) + 1
                      /\ PlaceIn(t, Len(tr) + 1) = Entries(tr) + 1
  BY LogAppended
<1> HIDE DEF t
<1>2. CASE Counts(e)
  <2>1. Entries(tr) + 1 = n /\ Fits(done[n], e.call)
    BY <1>2 DEF Live, Pending, Counts
  <2>2. InOrder(t, done)
    BY <1>0, <1>1, <1>2, <2>1 DEF InOrder
  <2>3. Entries(t) = n
    BY <1>1, <1>2, <2>1
  <2> QED BY <2>2, <2>3 DEF Live, t
<1>3. CASE ~Counts(e)
  <2>1. Entries(tr) = n
    BY <1>3 DEF Live, Counts
  <2>2. InOrder(t, done)
    BY <1>0, <1>1, <1>3 DEF InOrder
  <2>3. Entries(t) = n
    BY <1>1, <1>3, <2>1 DEF Entries
  <2> QED BY <2>2, <2>3 DEF Live, t
<1> QED BY <1>2, <1>3

(* In replay mode.                                                         *)
LEMMA ExecutedFinite ==
  ASSUME NEW rec, NEW rs, IsList(rs)
  PROVE  IsFiniteSet(ExecutedIn(rec, rs)) /\ Done(rec, rs) \in Nat
<1>1. DOMAIN rs = 1 .. Len(rs) /\ Len(rs) \in Nat
  BY ListFacts
<1>2. ExecutedIn(rec, rs) \subseteq 1 .. Len(rs)
  BY <1>1 DEF ExecutedIn
<1>3. IsFiniteSet(1 .. Len(rs))
  BY <1>1, FS_Interval
<1>4. IsFiniteSet(ExecutedIn(rec, rs))
  BY <1>2, <1>3, FS_Subset
<1> QED BY <1>4, FS_CardinalityType DEF Done

LEMMA RecordAppended ==
  ASSUME NEW rec, NEW rs, IsList(rs), NEW r
  PROVE  /\ (\A i \in DOMAIN rs : FromLog(rec, rs[i])) /\ FromLog(rec, r) =>
              \A i \in DOMAIN Append(rs, r) : FromLog(rec, Append(rs, r)[i])
         /\ Done(rec, rs) \in Nat /\ Done(rec, Append(rs, r)) \in Nat
         /\ Done(rec, rs) <= Done(rec, Append(rs, r))
         /\ RecordedIn(rec, r.call) = {} => Done(rec, Append(rs, r)) = Done(rec, rs) + 1
<1> DEFINE n == Len(rs)
<1> DEFINE u == Append(rs, r)
<1>1. DOMAIN rs = 1 .. n /\ n \in Nat
  BY ListFacts
<1>2. DOMAIN u = 1 .. (n + 1) /\ u[n + 1] = r /\ (\A i \in 1 .. n : u[i] = rs[i]) /\ IsList(u)
  BY ListFacts
<1> HIDE DEF u, n
<1>3. (\A i : i \in 1 .. (n + 1) <=> i \in 1 .. n \/ i = n + 1) /\ n + 1 \notin 1 .. n
  BY <1>1
<1>4. (\A i \in DOMAIN rs : FromLog(rec, rs[i])) /\ FromLog(rec, r) => \A i \in DOMAIN u : FromLog(rec, u[i])
  BY <1>1, <1>2, <1>3
<1>5. IsFiniteSet(ExecutedIn(rec, rs)) /\ IsFiniteSet(ExecutedIn(rec, u)) /\ Done(rec, rs) \in Nat /\ Done(rec, u) \in Nat
  BY <1>2, ExecutedFinite
<1>6. \A i : i \in ExecutedIn(rec, u) <=> i \in ExecutedIn(rec, rs) \/ (i = n + 1 /\ RecordedIn(rec, r.call) = {})
  BY <1>1, <1>2, <1>3 DEF ExecutedIn
<1>7. Done(rec, rs) <= Done(rec, u)
  <2>1. ExecutedIn(rec, rs) \subseteq ExecutedIn(rec, u)
    BY <1>6
  <2> QED BY <1>5, <2>1, FS_Subset DEF Done
<1>8. ASSUME RecordedIn(rec, r.call) = {} PROVE Done(rec, u) = Done(rec, rs) + 1
  <2>1. ExecutedIn(rec, u) = ExecutedIn(rec, rs) \cup {n + 1}
    BY <1>6, <1>8
  <2>2. n + 1 \notin ExecutedIn(rec, rs)
    BY <1>1, <1>3 DEF ExecutedIn
  <2> QED BY <1>5, <2>1, <2>2, FS_AddElement DEF Done
<1> QED BY <1>4, <1>5, <1>7, <1>8 DEF u

(* What is recorded is the last record.                                    *)
LEMMA Recording ==
  ASSUME NEW s, IsList(s), NEW r
  PROVE  Append(s, r) # <<>> /\ Append(s, r)[Len(Append(s, r))] = r
<1> DEFINE u == Append(s, r)
<1>1. Len(u) = Len(s) + 1 /\ Len(s) \in Nat /\ u[Len(s) + 1] = r
  BY ListFacts
<1>2. u = <<>> => Len(u) = 0
  OBVIOUS
<1> HIDE DEF u
<1>3. u # <<>>
  BY <1>1, <1>2
<1> QED BY <1>1, <1>3 DEF u

LEMMA LiveSteps ==
  ASSUME LoopTypes, recording = <<>>, NEW a \in Branches, LoopStep(a),
         Live(pc[a], answer[a].calls, records[a], trail[a], performed[a])
  PROVE  Live(pc'[a], answer'[a].calls, records'[a], trail'[a], performed'[a])
<1>0. /\ pc \in [Branches -> Steps] /\ answer \in [Branches -> Answers] /\ DOMAIN records = Branches
      /\ DOMAIN trail = Branches /\ DOMAIN performed = Branches
      /\ IsList(trail[a]) /\ IsList(performed[a]) /\ IsList(records[a])
  BY DEF LoopTypes
<1>1. CASE \/ Loop!Check(a) \/ Loop!ProviderFails(a) \/ Loop!StoreFails(a) \/ Loop!RefuseTool(a)
           \/ Loop!NextCall(a) \/ Loop!Respond(a)
  <2>1. trail' = trail /\ performed' = performed
    BY <1>1 DEF Loop!Check, Loop!ProviderFails, Loop!StoreFails, Loop!RefuseTool, Loop!NextCall, Loop!Respond
  <2>2. CASE Loop!Respond(a)
    <3>1. pc[a] = "llm" /\ pc' = [pc EXCEPT ![a] = "report"]
      BY <2>2, RespondAmounts
    <3> QED BY <1>0, <2>1, <3>1, LiveMoves
  <2>3. CASE ~Loop!Respond(a)
    <3>1. /\ pc'[a] \notin {"running", "reportTool"}
          /\ pc'[a] = "failed" \/ pc[a] \notin {"running", "reportTool", "failed"}
      BY <1>0, <1>1, <2>3 DEF Loop!Check, Loop!ProviderFails, Loop!StoreFails, Loop!RefuseTool, Loop!NextCall,
           Loop!Goes, Loop!Fails
    <3> QED BY <2>1, <3>1, LiveMoves
  <2> QED BY <2>2, <2>3
<1>2. CASE Loop!ReplayTool(a)
  <2>1. Loop!Recorded(Loop!Call(a)) = {}
    BY DEF Loop!Recorded
  <2> QED BY <1>2, <2>1 DEF Loop!ReplayTool
<1>3. CASE Loop!ReportLlm(a)
  <2> DEFINE e == [type |-> "LLMCalled"]
  <2>1. trail'[a] = Append(trail[a], e) /\ performed' = performed /\ records' = records
    BY <1>0, <1>3 DEF Loop!ReportLlm
  <2>2. pc[a] = "report" /\ pc'[a] \in {"tool", "done"} /\ answer' = answer
    BY <1>3, ReportAmounts
  <2>3. ~Counts(e)
    BY DEF Counts
  <2> HIDE DEF e
  <2>4. pc'[a] \notin {"running", "reportTool"} /\ pc[a] \notin {"running", "reportTool", "failed"}
    BY <2>2
  <2>5. Live(pc'[a], answer[a].calls, records[a], Append(trail[a], e), performed[a])
    BY <1>0, <2>3, <2>4, LiveReports
  <2> QED BY <2>1, <2>2, <2>5
<1>4. CASE Loop!ReportDenial(a)
  <2> DEFINE e == [type |-> "SecurityViolation"]
  <2>1. trail'[a] = Append(trail[a], e) /\ performed' = performed /\ answer' = answer /\ pc[a] = "denied"
    BY <1>0, <1>4 DEF Loop!ReportDenial
  <2>2. pc'[a] = "reportTool"
    BY <1>0, <1>4 DEF Loop!ReportDenial, Loop!Goes, Loop!replaying
  <2>3. ~Counts(e)
    BY DEF Counts
  <2> HIDE DEF e
  <2> DEFINE r == [call |-> Head(answer[a].calls), result |-> "", error |-> "denied"]
  <2>4. records'[a] = Append(records[a], r) /\ r.error = "denied"
    BY <1>0, <1>4 DEF Loop!ReportDenial, Loop!Record, Loop!Call
  <2> HIDE DEF r
  <2>5. records'[a] # <<>> /\ records'[a][Len(records'[a])].error = "denied"
    BY <1>0, <2>4, Recording
  <2>6. records'[a][Len(records'[a])].error \in Unexecuted
    BY <2>5 DEF Unexecuted
  <2>7. Live("reportTool", answer[a].calls, records'[a], Append(trail[a], e), performed[a])
    BY <1>0, <2>1, <2>3, <2>5, <2>6, LiveReports
  <2> QED BY <2>1, <2>2, <2>7
<1>5. CASE Loop!UnknownTool(a)
  <2>1. trail' = trail /\ performed' = performed /\ answer' = answer /\ pc[a] = "tool"
    BY <1>5 DEF Loop!UnknownTool
  <2>2. pc'[a] = "reportTool"
    BY <1>0, <1>5 DEF Loop!UnknownTool, Loop!Goes, Loop!AfterTool, Loop!replaying
  <2> DEFINE r == [call |-> Head(answer[a].calls), result |-> "", error |-> "unknown"]
  <2>3. records'[a] = Append(records[a], r) /\ r.error = "unknown"
    BY <1>0, <1>5 DEF Loop!UnknownTool, Loop!Record, Loop!Call
  <2> HIDE DEF r
  <2>4. records'[a] # <<>> /\ records'[a][Len(records'[a])].error = "unknown"
    BY <1>0, <2>3, Recording
  <2>5. records'[a][Len(records'[a])].error \in Unexecuted
    BY <2>4 DEF Unexecuted
  <2>6. Live("reportTool", answer[a].calls, records'[a], trail[a], performed[a])
    BY <2>1, <2>4, <2>5, LiveRefuses
  <2> QED BY <2>1, <2>2, <2>6
<1>6. CASE Loop!StartTool(a)
  <2> DEFINE call == Head(answer[a].calls)
  <2> DEFINE d == [tool |-> call.tool, args |-> call.args \cap OwnTools[call.tool]]
  <2>1. trail' = trail /\ records' = records /\ answer' = answer /\ pc[a] = "tool"
    BY <1>6 DEF Loop!StartTool
  <2>2. pc'[a] = "running" /\ performed'[a] = Append(performed[a], d)
    BY <1>0, <1>6 DEF Loop!StartTool, Loop!Goes, Loop!Call
  <2>3. Fits(d, call)
    BY DEF Fits
  <2> HIDE DEF d
  <2>4. Live("running", answer[a].calls, records[a], trail[a], Append(performed[a], d))
    BY <1>0, <2>1, <2>3, LiveEnters
  <2> QED BY <2>1, <2>2, <2>4
<1>7. CASE Loop!FinishTool(a)
  <2>1. trail' = trail /\ performed' = performed /\ answer' = answer /\ pc[a] = "running"
    BY <1>7 DEF Loop!FinishTool
  <2>2. pc'[a] = "reportTool"
    BY <1>0, <1>7 DEF Loop!FinishTool, Loop!Goes, Loop!AfterTool, Loop!replaying
  <2>3. PICK result \in {"out", ""}, why \in {"", "raised"} :
          records'[a] = Append(records[a], [call |-> Head(answer[a].calls), result |-> result, error |-> why])
    BY <1>0, <1>7 DEF Loop!FinishTool, Loop!Record, Loop!Call
  <2> DEFINE r == [call |-> Head(answer[a].calls), result |-> result, error |-> why]
  <2>3a. records'[a] = Append(records[a], r) /\ r.error \in {"", "raised"} /\ r.call = Head(answer[a].calls)
    BY <2>3
  <2> HIDE DEF r
  <2>4. /\ records'[a] # <<>> /\ records'[a][Len(records'[a])].error \in {"", "raised"}
        /\ records'[a][Len(records'[a])].call = Head(answer[a].calls)
    <3>1. records'[a] # <<>> /\ records'[a][Len(records'[a])] = r
      BY <1>0, <2>3a, Recording
    <3> QED BY <2>3a, <3>1
  <2>5. records'[a][Len(records'[a])].error \notin Unexecuted
    BY <2>4 DEF Unexecuted
  <2>6. Live("reportTool", answer[a].calls, records'[a], trail[a], performed[a])
    BY <2>1, <2>4, <2>5, LiveFinishes
  <2> QED BY <2>1, <2>2, <2>6
<1>8. CASE Loop!ReportTool(a)
  <2> DEFINE r == records[a][Len(records[a])]
  <2> DEFINE e == [type |-> "ToolCalled", call |-> r.call, result |-> r.result, error |-> r.error]
  <2>1. records' = records /\ performed' = performed /\ answer' = answer /\ pc[a] = "reportTool"
    BY <1>8 DEF Loop!ReportTool
  <2>2. pc'[a] = "next" /\ trail'[a] = Append(trail[a], e)
    BY <1>0, <1>8 DEF Loop!ReportTool, Loop!Goes, Loop!Last
  <2>3. e.type = "ToolCalled" /\ e.error = r.error /\ e.call = r.call
    OBVIOUS
  <2> HIDE DEF e
  <2>4. Live("next", answer[a].calls, records[a], Append(trail[a], e), performed[a])
    BY <1>0, <2>1, <2>3, LiveLogs
  <2> QED BY <2>1, <2>2, <2>4
<1> QED BY <1>1, <1>2, <1>3, <1>4, <1>5, <1>6, <1>7, <1>8 DEF LoopStep, QuietStep

(* In replay mode nothing is reported, and what is refused or entered was  *)
(* not recorded.                                                           *)
LEMMA ReplaySteps ==
  ASSUME LoopTypes, recording # <<>>, NEW a \in Branches, LoopStep(a),
         Replayed(recording, pc[a], answer[a].calls, records[a], trail[a], performed[a])
  PROVE  Replayed(recording, pc'[a], answer'[a].calls, records'[a], trail'[a], performed'[a])
<1>0. /\ pc \in [Branches -> Steps] /\ answer \in [Branches -> Answers] /\ DOMAIN records = Branches
      /\ DOMAIN trail = Branches /\ DOMAIN performed = Branches
      /\ IsList(trail[a]) /\ IsList(performed[a]) /\ IsList(records[a])
  BY DEF LoopTypes
<1> DEFINE call == Head(answer[a].calls)
<1>a. \A c : Loop!Recorded(c) = RecordedIn(recording, c)
  BY DEF Loop!Recorded, Loop!IsSame, RecordedIn
<1>b. /\ pc[a] \notin {"report", "reportTool"} /\ LoggedIn(trail[a]) = {}
      /\ \A i \in DOMAIN records[a] : FromLog(recording, records[a][i])
      /\ pc[a] \in {"denied", "running"} => RecordedIn(recording, call) = {}
      /\ Len(performed[a]) <= Done(recording, records[a]) + (IF pc[a] = "running" THEN 1 ELSE 0)
  BY DEF Replayed
<1>c. Done(recording, records[a]) \in Nat /\ Len(performed[a]) \in Nat
  BY <1>0, ExecutedFinite, ListFacts
<1> HIDE DEF call
<1>1. CASE \/ Loop!Check(a) \/ Loop!ProviderFails(a) \/ Loop!StoreFails(a) \/ Loop!RefuseTool(a)
           \/ Loop!NextCall(a) \/ Loop!Respond(a)
  <2>1. trail' = trail /\ performed' = performed /\ records' = records
    BY <1>1 DEF Loop!Check, Loop!ProviderFails, Loop!StoreFails, Loop!RefuseTool, Loop!NextCall, Loop!Respond
  <2>2. pc[a] # "running"
    BY <1>b, <1>1 DEF Loop!Check, Loop!ProviderFails, Loop!StoreFails, Loop!RefuseTool, Loop!NextCall, Loop!Respond
  <2>3. /\ pc'[a] \notin {"report", "reportTool", "running"}
        /\ pc'[a] = "denied" => answer' = answer /\ RecordedIn(recording, call) = {}
    <3>1. CASE Loop!Respond(a)
      <4>0. PICK n \in Usages, mo \in Models, k \in 0 .. MostRequests : \E calls \in [1 .. k -> Requests] :
              Loop!Goes(a, IF Loop!replaying THEN Loop!After(a, calls) ELSE "report")
        BY <3>1 DEF Loop!Respond
      <4> QED BY <1>0, <4>0 DEF Loop!replaying, Loop!After, Loop!Goes
    <3>2. CASE Loop!RefuseTool(a)
      BY <1>0, <1>a, <3>2 DEF Loop!RefuseTool, Loop!Goes, Loop!Call, call
    <3>3. CASE ~Loop!Respond(a) /\ ~Loop!RefuseTool(a)
      BY <1>0, <1>1, <3>3 DEF Loop!Check, Loop!ProviderFails, Loop!StoreFails, Loop!NextCall, Loop!Goes, Loop!Fails
    <3> QED BY <3>1, <3>2, <3>3
  <2>4. Len(performed[a]) <= Done(recording, records[a]) + (IF pc'[a] = "running" THEN 1 ELSE 0)
    BY <1>b, <2>2, <2>3
  <2> QED BY <1>b, <2>1, <2>3, <2>4 DEF Replayed, call
<1>2. CASE Loop!ReplayTool(a)
  <2> DEFINE found == RecordedIn(recording, call)
  <2> DEFINE event == recording[Loop!Min(found)]
  <2> DEFINE r == [call |-> call, result |-> event.result, error |-> event.error]
  <2>1. trail' = trail /\ performed' = performed /\ answer' = answer /\ pc[a] = "tool" /\ pc'[a] = "next"
    BY <1>0, <1>2 DEF Loop!ReplayTool, Loop!Goes
  <2>2. Loop!Recorded(Loop!Call(a)) = found
    BY <1>a DEF Loop!Call, call
  <2>3. records'[a] = Append(records[a], r)
    BY <1>0, <1>2, <2>2 DEF Loop!ReplayTool, Loop!Record, Loop!Call, call
  <2>4. FromLog(recording, r)
    BY DEF FromLog
  <2> HIDE DEF r
  <2>5. /\ \A i \in DOMAIN records'[a] : FromLog(recording, records'[a][i])
        /\ Done(recording, records'[a]) \in Nat /\ Done(recording, records[a]) <= Done(recording, records'[a])
    BY <1>0, <1>b, <2>3, <2>4, RecordAppended
  <2>6. Len(performed[a]) <= Done(recording, records'[a]) + 0
    BY <1>b, <1>c, <2>1, <2>5
  <2> QED BY <1>b, <2>1, <2>5, <2>6 DEF Replayed
<1>3. CASE Loop!ReportLlm(a) \/ Loop!ReportTool(a)
  BY <1>b, <1>3 DEF Loop!ReportLlm, Loop!ReportTool
<1>4. CASE Loop!ReportDenial(a)
  <2> DEFINE e == [type |-> "SecurityViolation"]
  <2> DEFINE r == [call |-> call, result |-> "", error |-> "denied"]
  <2>1. /\ trail'[a] = Append(trail[a], e) /\ performed' = performed /\ answer' = answer
        /\ pc[a] = "denied" /\ pc'[a] = "next"
    BY <1>0, <1>4 DEF Loop!ReportDenial, Loop!Goes, Loop!replaying
  <2>2. records'[a] = Append(records[a], r)
    BY <1>0, <1>4 DEF Loop!ReportDenial, Loop!Record, Loop!Call, call
  <2>3. ~Counts(e) /\ RecordedIn(recording, r.call) = {}
    BY <1>b, <2>1 DEF Counts
  <2>4. FromLog(recording, r)
    BY <2>3 DEF FromLog
  <2> HIDE DEF e, r
  <2>5. LoggedIn(trail'[a]) = {}
    BY <1>0, <1>b, <2>1, <2>3, LogAppended
  <2>6. /\ \A i \in DOMAIN records'[a] : FromLog(recording, records'[a][i])
        /\ Done(recording, records'[a]) \in Nat /\ Done(recording, records[a]) <= Done(recording, records'[a])
    BY <1>0, <1>b, <2>2, <2>4, RecordAppended
  <2>7. Len(performed[a]) <= Done(recording, records'[a]) + 0
    BY <1>b, <1>c, <2>1, <2>6
  <2> QED BY <2>1, <2>5, <2>6, <2>7 DEF Replayed
<1>5. CASE Loop!UnknownTool(a)
  <2> DEFINE r == [call |-> call, result |-> "", error |-> "unknown"]
  <2>1. trail' = trail /\ performed' = performed /\ answer' = answer /\ pc[a] = "tool" /\ pc'[a] = "next"
    BY <1>0, <1>5 DEF Loop!UnknownTool, Loop!Goes, Loop!AfterTool, Loop!replaying
  <2>2. records'[a] = Append(records[a], r)
    BY <1>0, <1>5 DEF Loop!UnknownTool, Loop!Record, Loop!Call, call
  <2>3. RecordedIn(recording, r.call) = {}
    BY <1>a, <1>5 DEF Loop!UnknownTool, Loop!Call, call
  <2>4. FromLog(recording, r)
    BY <2>3 DEF FromLog
  <2> HIDE DEF r
  <2>5. /\ \A i \in DOMAIN records'[a] : FromLog(recording, records'[a][i])
        /\ Done(recording, records'[a]) \in Nat /\ Done(recording, records[a]) <= Done(recording, records'[a])
    BY <1>0, <1>b, <2>2, <2>4, RecordAppended
  <2>6. Len(performed[a]) <= Done(recording, records'[a]) + 0
    BY <1>b, <1>c, <2>1, <2>5
  <2> QED BY <1>b, <2>1, <2>5, <2>6 DEF Replayed
<1>6. CASE Loop!StartTool(a)
  <2> DEFINE d == [tool |-> call.tool, args |-> call.args \cap OwnTools[call.tool]]
  <2>1. trail' = trail /\ records' = records /\ answer' = answer /\ pc[a] = "tool" /\ pc'[a] = "running"
    BY <1>0, <1>6 DEF Loop!StartTool, Loop!Goes
  <2>2. performed'[a] = Append(performed[a], d)
    BY <1>0, <1>6 DEF Loop!StartTool, Loop!Call, call
  <2>3. RecordedIn(recording, call) = {}
    BY <1>a, <1>6 DEF Loop!StartTool, Loop!Call, call
  <2> HIDE DEF d
  <2>4. Len(performed'[a]) = Len(performed[a]) + 1
    BY <1>0, <2>2, ListFacts
  <2>5. Len(performed'[a]) <= Done(recording, records[a]) + 1
    BY <1>b, <1>c, <2>1, <2>4
  <2> QED BY <1>b, <2>1, <2>3, <2>5 DEF Replayed, call
<1>7. CASE Loop!FinishTool(a)
  <2>1. trail' = trail /\ performed' = performed /\ answer' = answer /\ pc[a] = "running" /\ pc'[a] = "next"
    BY <1>0, <1>7 DEF Loop!FinishTool, Loop!Goes, Loop!AfterTool, Loop!replaying
  <2>2. PICK result, why :
          records'[a] = Append(records[a], [call |-> call, result |-> result, error |-> why])
    BY <1>0, <1>7 DEF Loop!FinishTool, Loop!Record, Loop!Call, call
  <2> DEFINE r == [call |-> call, result |-> result, error |-> why]
  <2>3. RecordedIn(recording, r.call) = {}
    BY <1>b, <2>1
  <2>4. FromLog(recording, r)
    BY <2>3 DEF FromLog
  <2>5. records'[a] = Append(records[a], r)
    BY <2>2
  <2> HIDE DEF r
  <2>6. \A i \in DOMAIN records'[a] : FromLog(recording, records'[a][i])
    BY <1>0, <1>b, <2>4, <2>5, RecordAppended
  <2>7. Done(recording, records'[a]) = Done(recording, records[a]) + 1
    BY <1>0, <2>3, <2>5, RecordAppended
  <2>8. Len(performed[a]) <= Done(recording, records'[a]) + 0
    <3>1. Len(performed[a]) <= Done(recording, records[a]) + 1
      BY <1>b, <2>1
    <3> QED BY <1>c, <2>7, <3>1
  <2> QED BY <1>b, <2>1, <2>6, <2>8 DEF Replayed
<1> QED BY <1>1, <1>2, <1>3, <1>4, <1>5, <1>6, <1>7 DEF LoopStep, QuietStep

LEMMA TrailKept ==
  ASSUME TrailInv, NEW a \in Branches, LoopStep(a)
  PROVE  TrailInv'
<1>1. LoopTypes /\ LoopTypes' /\ Touches(a)
  BY TypesKept DEF TrailInv
<1>2. recording' = recording
  BY <1>1 DEF Touches
<1>3. \A b \in Branches \ {a} :
        /\ pc'[b] = pc[b] /\ answer'[b] = answer[b] /\ records'[b] = records[b]
        /\ trail'[b] = trail[b] /\ performed'[b] = performed[b]
  BY <1>1, OthersKept
<1>4. \A b \in Branches : BranchHolds(recording, pc[b], answer[b].calls, records[b], trail[b], performed[b])
  BY DEF TrailInv
<1>5. BranchHolds(recording, pc'[a], answer'[a].calls, records'[a], trail'[a], performed'[a])
  <2>1. CASE recording = <<>>
    BY <1>1, <1>4, <2>1, LiveSteps DEF BranchHolds
  <2>2. CASE recording # <<>>
    BY <1>1, <1>4, <2>2, ReplaySteps DEF BranchHolds
  <2> QED BY <2>1, <2>2
<1>6. \A b \in Branches : BranchHolds(recording, pc'[b], answer'[b].calls, records'[b], trail'[b], performed'[b])
  BY <1>3, <1>4, <1>5
<1> QED BY <1>1, <1>2, <1>6 DEF TrailInv

LEMMA TrailStarts == ASSUME Loop!Init PROVE TrailInv
<1>1. LoopTypes
  BY LoopStarts DEF BudgetInv
<1>2. ASSUME NEW a \in Branches
      PROVE  BranchHolds(recording, pc[a], answer[a].calls, records[a], trail[a], performed[a])
  <2>1. pc[a] = "check" /\ records[a] = <<>> /\ trail[a] = <<>> /\ performed[a] = <<>>
    BY DEF Loop!Init
  <2>2. LoggedIn(trail[a]) = {} /\ \A rec : ExecutedIn(rec, records[a]) = {}
    BY <2>1 DEF LoggedIn, ExecutedIn
  <2>3. Entries(trail[a]) = 0 /\ \A rec : Done(rec, records[a]) = 0
    BY <2>2, FS_EmptySet DEF Entries, Done
  <2>4. Len(performed[a]) = 0
    BY <2>1
  <2>5. Live(pc[a], answer[a].calls, records[a], trail[a], performed[a])
    BY <2>1, <2>2, <2>3, <2>4 DEF Live, InOrder
  <2>6. Replayed(recording, pc[a], answer[a].calls, records[a], trail[a], performed[a])
    <3>1. Len(performed[a]) <= Done(recording, records[a]) + 0
      BY <2>3, <2>4
    <3> QED BY <2>1, <2>2, <3>1 DEF Replayed
  <2> QED BY <2>5, <2>6 DEF BranchHolds
<1> QED BY <1>1, <1>2 DEF TrailInv

(* core/agent.py: outside replay mode the store's trail of a branch tells, *)
(* in order, every tool that was entered but the one whose report is to    *)
(* come or failed; in replay mode what the log has is answered from it.    *)
THEOREM TrailStaysComplete == Spec => []TrailIsComplete
<1> DEFINE Held == part = "loop" => TrailInv
<1>1. Init => Held
  BY TrailStarts DEF Init
<1>2. Held /\ [Next]_vars => Held'
  <2> SUFFICES ASSUME Held, [Next]_vars, part' = "loop" PROVE TrailInv'
    OBVIOUS
  <2>1. part = "loop" /\ TrailInv
    BY DEF Next, vars
  <2>2. CASE Loop!Next
    <3>1. PICK a \in Branches : LoopStep(a)
      BY <2>2 DEF Loop!Next, LoopStep, QuietStep
    <3> QED BY <2>1, <3>1, TrailKept
  <2>3. CASE UNCHANGED loop
    <3>1. /\ pc' = pc /\ answer' = answer /\ records' = records /\ totals' = totals /\ trail' = trail
          /\ performed' = performed /\ recording' = recording /\ drawn' = drawn
      BY <2>3 DEF loop
    <3> QED BY <2>1, <3>1 DEF TrailInv, LoopTypes
  <2> QED
    BY <2>1, <2>2, <2>3 DEF Next, vars
<1>3. Held => TrailIsComplete
  BY TrailIs DEF TrailIsComplete
<1> QED
  BY <1>1, <1>2, <1>3, PTL DEF Spec

-----------------------------------------------------------------------------
(***************************************************************************)
(* The conversation with an API.  Of the messages the first is the agent's *)
(* own instruction and no other is a system text; behind every message     *)
(* with calls come their results, in order, but for the one whose tools    *)
(* are about to run; and the ids of a message's calls are apart, or there  *)
(* are none.                                                               *)
(***************************************************************************)
CallsAre(cs) ==
  /\ \E S : cs \in Seq(S)
  /\ \A m, n \in DOMAIN cs : cs[m].id = cs[n].id => m = n \/ cs[m].id = <<>>
Owns(t, o, p) ==
  /\ o \in 2 .. (p - 1) /\ t[o].role = "assistant" /\ p - o \in DOMAIN t[o].calls
  /\ \A q \in (o + 1) .. p : t[q].calls = <<>>
  /\ t[p].id = t[o].calls[p - o].id /\ t[p].name = t[o].calls[p - o].name
Answered(t, p) == \A n \in DOMAIN t[p].calls : p + n \in DOMAIN t /\ t[p + n].role = "tool"
MessagesHold(t) ==
  /\ \E S : t \in Seq(S)
  /\ Len(t) >= 1 /\ t[1] = Api!Says("agent")
  /\ \A p \in 2 .. Len(t) : t[p].role \in {"user", "assistant", "tool"}
  /\ \A p \in 2 .. Len(t) : t[p].role = "assistant" => CallsAre(t[p].calls)
  /\ \A p \in 2 .. Len(t) : t[p].role # "assistant" => t[p].calls = <<>>
  /\ \A p \in 2 .. Len(t) : t[p].role = "tool" => \E o : Owns(t, o, p)
AllAnswered(t, m) == \A p \in 2 .. m : t[p].role = "assistant" => Answered(t, p)
TalkHolds ==
  /\ MessagesHold(talk)
  /\ posting # "tools" => AllAnswered(talk, Len(talk))
  /\ posting = "tools" => /\ Len(talk) >= 2 /\ talk[Len(talk)].role = "assistant"
                          /\ AllAnswered(talk, Len(talk) - 1)

(* What is told before the i-th message, which Spoken defines recursively. *)
Hears(f, ms, m) ==
  f = [n \in 0 .. m |-> IF n = 0 THEN << >>
                        ELSE IF Api!IsSystem(ms[n]) THEN f[n - 1] ELSE Append(f[n - 1], ms[n])]
Heard(f, ms, n) == IF Api!IsSystem(ms[n]) THEN f[n - 1] ELSE Append(f[n - 1], ms[n])

LEMMA HearingExists ==
  ASSUME NEW ms, NEW k \in Nat
  PROVE  \E f : Hears(f, ms, k)
<1> DEFINE T == {m \in Nat : \E f : Hears(f, ms, m)}
<1>1. 0 \in T
  <2> DEFINE f == [i \in 0 .. 0 |-> << >>]
  <2>1. Hears(f, ms, 0)
    BY DEF Hears
  <2> HIDE DEF f
  <2> QED BY <2>1
<1>2. ASSUME NEW m \in Nat, m \in T PROVE m + 1 \in T
  <2>1. PICK f : Hears(f, ms, m)
    BY <1>2
  <2> DEFINE g == [i \in 0 .. (m + 1) |-> IF i = 0 THEN << >> ELSE Heard(f, ms, i)]
  <2>2. \A i \in 0 .. m : f[i] = (IF i = 0 THEN << >> ELSE Heard(f, ms, i))
    BY <2>1, Zenon DEF Hears, Heard
  <2>3. \A i \in 0 .. m : i \in 0 .. (m + 1)
    OBVIOUS
  <2>4. \A i \in 0 .. m : g[i] = f[i]
    BY <2>2, <2>3, Zenon
  <2>5. \A i \in 0 .. (m + 1) : i # 0 => i - 1 \in 0 .. m
    OBVIOUS
  <2>6. \A i \in 0 .. (m + 1) : i # 0 => g[i - 1] = f[i - 1]
    BY <2>4, <2>5
  <2>7. Hears(g, ms, m + 1)
    BY <2>6, Zenon DEF Hears, Heard
  <2> HIDE DEF g
  <2> QED BY <2>7
<1>3. Nat \subseteq T
  <2> HIDE DEF T
  <2> QED BY <1>1, <1>2, Induct
<1> QED BY <1>3

(* What is spoken, when only the first message and those behind the k-th   *)
(* are system texts.                                                       *)
LEMMA SpokenIs ==
  ASSUME NEW S, NEW ms \in Seq(S), NEW k \in 1 .. Len(ms), Api!IsSystem(ms[1]),
         \A i \in 2 .. k : ~Api!IsSystem(ms[i]),
         \A i \in (k + 1) .. Len(ms) : Api!IsSystem(ms[i])
  PROVE  /\ DOMAIN Api!Spoken(ms) = 1 .. (k - 1)
         /\ \A i \in 1 .. (k - 1) : Api!Spoken(ms)[i] = ms[i + 1]
<1> DEFINE f == CHOOSE h : Hears(h, ms, Len(ms))
           q(n) == IF n <= k THEN n - 1 ELSE k - 1
           Holds(n) == /\ f[n] \in Seq(S) /\ Len(f[n]) = q(n)
                       /\ \A i \in 1 .. q(n) : f[n][i] = ms[i + 1]
           T == {m \in Nat : m + 1 <= Len(ms) => Holds(m + 1)}
<1>1. Api!Spoken(ms) = f[Len(ms)]
  BY Zenon DEF Api!Spoken, Hears
<1>2. Hears(f, ms, Len(ms))
  BY HearingExists
<1> HIDE DEF f
<1>3. \A n \in 0 .. Len(ms) : f[n] = IF n = 0 THEN << >> ELSE Heard(f, ms, n)
  BY <1>2, Zenon DEF Hears, Heard
<1>4. Len(ms) \in Nat /\ k \in Nat /\ 1 <= k /\ k <= Len(ms)
  OBVIOUS
<1>5. 0 \in T
  <2>1. f[0] = << >> /\ f[1] = f[0]
    BY <1>3, <1>4 DEF Heard
  <2>2. q(1) = 0
    BY <1>4
  <2>3. Holds(1)
    <3> HIDE DEF q
    <3> QED BY <2>1, <2>2
  <2> HIDE DEF Holds
  <2> QED BY <2>3
<1>6. ASSUME NEW m \in Nat, m \in T PROVE m + 1 \in T
  <2> SUFFICES ASSUME m + 2 <= Len(ms) PROVE Holds(m + 2)
    OBVIOUS
  <2>1. Holds(m + 1)
    BY <1>4, <1>6
  <2>2. f[m + 2] = Heard(f, ms, m + 2) /\ (m + 2) - 1 = m + 1 /\ ms[m + 2] \in S
    BY <1>3, <1>4
  <2>3. CASE m + 2 <= k
    <3>1. f[m + 2] = Append(f[m + 1], ms[m + 2])
      BY <2>2, <2>3 DEF Heard
    <3>2. q(m + 1) = m /\ q(m + 2) = m + 1
      BY <1>4, <2>3
    <3> HIDE DEF q
    <3> DEFINE s == f[m + 1]
               e == ms[m + 2]
    <3>3. s \in Seq(S) /\ Len(s) = m /\ \A i \in 1 .. m : s[i] = ms[i + 1]
      BY <2>1, <3>2
    <3>4. e \in S /\ f[m + 2] = Append(s, e)
      BY <2>2, <3>1
    <3> HIDE DEF s
    <3>5. /\ f[m + 2] \in Seq(S) /\ Len(f[m + 2]) = m + 1
          /\ \A i \in 1 .. m : f[m + 2][i] = s[i]
          /\ f[m + 2][m + 1] = e
      BY <3>3, <3>4
    <3>6. \A i \in 1 .. (m + 1) : f[m + 2][i] = ms[i + 1]
      BY <3>3, <3>5
    <3> QED BY <3>2, <3>5, <3>6
  <2>4. CASE ~(m + 2 <= k)
    <3>1. f[m + 2] = f[m + 1]
      BY <1>4, <2>2, <2>4 DEF Heard
    <3>2. q(m + 1) = q(m + 2)
      BY <1>4, <2>4
    <3> HIDE DEF q
    <3> QED BY <2>1, <3>1, <3>2
  <2> QED BY <2>3, <2>4
<1>7. Nat \subseteq T
  <2> HIDE DEF T
  <2> QED BY <1>5, <1>6, Induct
<1>8. Len(ms) - 1 \in Nat /\ (Len(ms) - 1) + 1 = Len(ms) /\ q(Len(ms)) = k - 1
  BY <1>4
<1>9. Holds(Len(ms))
  <2> HIDE DEF q, Holds
  <2>1. Len(ms) - 1 \in T
    BY <1>7, <1>8
  <2> QED BY <1>8, <2>1
<1> HIDE DEF q
<1>10. /\ f[Len(ms)] \in Seq(S) /\ Len(f[Len(ms)]) = k - 1
       /\ \A i \in 1 .. (k - 1) : f[Len(ms)][i] = ms[i + 1]
  BY <1>8, <1>9
<1> QED BY <1>1, <1>10

LEMMA Joined ==
  ASSUME NEW S, NEW s \in Seq(S), NEW t \in Seq(S)
  PROVE  /\ s \o t \in Seq(S) /\ Len(s \o t) = Len(s) + Len(t)
         /\ DOMAIN (s \o t) = 1 .. Len(s \o t)
         /\ \A i \in 1 .. Len(s) : (s \o t)[i] = s[i]
         /\ \A i \in 1 .. Len(t) : (s \o t)[Len(s) + i] = t[i]
OBVIOUS

(* The messages as they are sent, and what the API is posted of them.      *)
LEMMA SentIs ==
  ASSUME MessagesHold(talk), NEW prompts \in BOOLEAN
  PROVE  /\ \E S : Api!Sent(prompts) \in Seq(S)
         /\ Len(talk) \in 1 .. Len(Api!Sent(prompts))
         /\ \A i \in 1 .. Len(talk) : Api!Sent(prompts)[i] = talk[i]
         /\ \A i \in (Len(talk) + 1) .. Len(Api!Sent(prompts)) : Api!IsSystem(Api!Sent(prompts)[i])
<1>1. PICK S : talk \in Seq(S) /\ Len(talk) >= 1
  BY DEF MessagesHold
<1>2. CASE ~prompts
  <2>1. Api!Sent(prompts) = talk
    BY <1>2 DEF Api!Sent
  <2> QED BY <1>1, <2>1
<1>3. CASE prompts
  <2> DEFINE a == Api!ToolPrompt
             b == Api!SchemaPrompt
             T == S \cup {a, b}
             more == Api!Prompts
  <2>1. Api!Sent(prompts) = talk \o more
    BY <1>3 DEF Api!Sent
  <2>2. Api!IsSystem(a) /\ Api!IsSystem(b)
    BY DEF Api!ToolPrompt, Api!SchemaPrompt, Api!Says, Api!Message, Api!IsSystem
  <2>3. more = <<a, b>> \/ more = <<a>>
    BY Zenon DEF Api!Prompts
  <2>4. talk \in Seq(T) /\ a \in T /\ b \in T
    BY <1>1
  <2> HIDE DEF a, b, T
  <2>5. /\ more \in Seq(T) /\ Len(more) \in {1, 2}
        /\ \A i \in 1 .. Len(more) : Api!IsSystem(more[i])
    <3> DEFINE Is(x) == Api!IsSystem(x)
    <3> HIDE DEF Is, more
    <3>1. /\ <<a, b>> \in Seq(T) /\ Len(<<a, b>>) = 2 /\ <<a, b>>[1] = a /\ <<a, b>>[2] = b
          /\ <<a>> \in Seq(T) /\ Len(<<a>>) = 1 /\ <<a>>[1] = a
      BY <2>4
    <3>2. Is(a) /\ Is(b)
      BY <2>2 DEF Is
    <3>3. CASE more = <<a, b>>
      <4>1. \A i \in 1 .. 2 : i = 1 \/ i = 2
        OBVIOUS
      <4> QED BY <3>1, <3>2, <3>3, <4>1 DEF Is
    <3>4. CASE more = <<a>>
      <4>1. \A i \in 1 .. 1 : i = 1
        OBVIOUS
      <4> QED BY <3>1, <3>2, <3>4, <4>1 DEF Is
    <3> QED BY <2>3, <3>3, <3>4
  <2> HIDE DEF more
  <2> DEFINE s == talk \o more
  <2>6. /\ s \in Seq(T) /\ Len(s) = Len(talk) + Len(more)
        /\ \A i \in 1 .. Len(talk) : s[i] = talk[i]
        /\ \A i \in 1 .. Len(more) : s[Len(talk) + i] = more[i]
    BY <2>4, <2>5
  <2> HIDE DEF s
  <2>7. \A i \in (Len(talk) + 1) .. Len(s) : Api!IsSystem(s[i])
    <3> TAKE i \in (Len(talk) + 1) .. Len(s)
    <3>1. i - Len(talk) \in 1 .. Len(more) /\ Len(talk) + (i - Len(talk)) = i
      BY <2>4, <2>5, <2>6
    <3> QED BY <2>5, <2>6, <3>1
  <2>8. Len(talk) \in 1 .. Len(s)
    BY <1>1, <2>5, <2>6
  <2> QED BY <2>1, <2>6, <2>7, <2>8 DEF s
<1> QED BY <1>2, <1>3

Held(x, handle) == [Api!NoHandle EXCEPT ![handle] = x[handle]]
IsTurn(x, m, handle) ==
  /\ x.role = m.role
  /\ x.calls = [n \in DOMAIN m.calls |-> Held(m.calls[n], handle)]
  /\ x.result = IF m.role = "tool" THEN Held(m, handle) ELSE Api!NoHandle

LEMMA TurnsAre ==
  ASSUME MessagesHold(talk), NEW prompts \in BOOLEAN, NEW handle
  PROVE  /\ DOMAIN Api!Turns(Api!Sent(prompts), handle) = 1 .. (Len(talk) - 1)
         /\ \A i \in 1 .. (Len(talk) - 1) :
              IsTurn(Api!Turns(Api!Sent(prompts), handle)[i], talk[i + 1], handle)
<1> DEFINE ms == Api!Sent(prompts)
           said == Api!Spoken(ms)
           posted(m) == [role |-> m.role,
                       calls |-> [n \in DOMAIN m.calls |-> Held(m.calls[n], handle)],
                       result |-> IF m.role = "tool" THEN Held(m, handle) ELSE Api!NoHandle]
<1>1. PICK S : ms \in Seq(S)
  BY SentIs
<1>2. /\ Len(talk) \in 1 .. Len(ms)
      /\ \A i \in 1 .. Len(talk) : ms[i] = talk[i]
      /\ \A i \in (Len(talk) + 1) .. Len(ms) : Api!IsSystem(ms[i])
  BY SentIs
<1> HIDE DEF ms
<1>3. Api!IsSystem(ms[1])
  <2>1. 1 \in 1 .. Len(talk) /\ talk[1] = Api!Says("agent")
    BY <1>2 DEF MessagesHold
  <2>2. ms[1] = talk[1]
    BY <1>2, <2>1
  <2>3. Api!IsSystem(Api!Says("agent"))
    BY DEF Api!IsSystem, Api!Says, Api!Message
  <2> QED BY <2>1, <2>2, <2>3
<1>4. \A i \in 2 .. Len(talk) : ~Api!IsSystem(ms[i])
  BY <1>2 DEF MessagesHold, Api!IsSystem
<1>5. /\ DOMAIN said = 1 .. (Len(talk) - 1)
      /\ \A i \in 1 .. (Len(talk) - 1) : said[i] = talk[i + 1]
  <2>1. \A i \in 1 .. (Len(talk) - 1) : ms[i + 1] = talk[i + 1]
    BY <1>2
  <2> QED BY <1>1, <1>2, <1>3, <1>4, <2>1, SpokenIs
<1>6. Api!Turns(ms, handle) = [i \in DOMAIN said |-> posted(said[i])]
  BY Zenon DEF Api!Turns, Held
<1> HIDE DEF said
<1>7. \A m : IsTurn(posted(m), m, handle)
  BY DEF IsTurn
<1> HIDE DEF posted
<1> QED BY <1>5, <1>6, <1>7 DEF ms

LEMMA HeldIs ==
  /\ \A x, y : Held(x, "id") = Held(y, "id") <=> x.id = y.id
  /\ \A x : Held(x, "id") = Api!NoHandle <=> x.id = << >>
  /\ \A x, y : x.name = y.name => Held(x, "name") = Held(y, "name")
<1> DEFINE e == << >>
           s == ""
<1>1. Api!NoHandle = [id |-> e, name |-> s]
  BY DEF Api!NoHandle
<1> HIDE DEF e, s
<1>2. \A x : Held(x, "id") = [id |-> x.id, name |-> s] /\ Held(x, "name") = [id |-> e, name |-> x.name]
  <2> TAKE x
  <2> DEFINE i == x.id
             m == x.name
  <2>1. Held(x, "id") = [[id |-> e, name |-> s] EXCEPT !.id = i]
    BY <1>1 DEF Held
  <2>2. Held(x, "name") = [[id |-> e, name |-> s] EXCEPT !.name = m]
    BY <1>1 DEF Held
  <2> HIDE DEF i, m
  <2>3. [[id |-> e, name |-> s] EXCEPT !.id = i] = [id |-> i, name |-> s]
    OBVIOUS
  <2>4. [[id |-> e, name |-> s] EXCEPT !.name = m] = [id |-> e, name |-> m]
    OBVIOUS
  <2> QED BY <2>1, <2>2, <2>3, <2>4 DEF i, m
<1>3. \A a, b : [id |-> a, name |-> s] = [id |-> b, name |-> s] => a = b
  <2>1. \A a : [id |-> a, name |-> s].id = a
    OBVIOUS
  <2> QED BY <2>1
<1>4. /\ \A x, y : Held(x, "id") = Held(y, "id") <=> x.id = y.id
      /\ \A x : Held(x, "id") = Api!NoHandle <=> x.id = e
      /\ \A x, y : x.name = y.name => Held(x, "name") = Held(y, "name")
  BY <1>1, <1>2, <1>3
<1> QED BY <1>4 DEF e

LEMMA OwnerIs ==
  ASSUME NEW T, NEW p \in Nat, NEW o \in 1 .. p, T[o].calls # << >>,
         \A q \in (o + 1) .. p : T[q].calls = << >>
  PROVE  Api!Owner(T, p) = o
<1> DEFINE Q == {q \in 1 .. p : T[q].calls # << >>} \cup {0}
<1>1. o \in Q /\ \A q \in Q : q <= o /\ q \in Int
  OBVIOUS
<1>2. Api!Owner(T, p) = Api!Max(Q)
  BY Zenon DEF Api!Owner
<1> HIDE DEF Q
<1>3. \E x \in Q : \A y \in Q : x >= y
  BY <1>1
<1>4. Api!Max(Q) \in Q /\ \A y \in Q : Api!Max(Q) >= y
  BY <1>3, Zenon DEF Api!Max
<1>5. o \in Int /\ Api!Max(Q) >= o /\ Api!Max(Q) <= o /\ Api!Max(Q) \in Int
  BY <1>1, <1>4
<1> QED BY <1>2, <1>5

Handle == IF kind = "google" THEN "name" ELSE "id"

(* What is posted of a conversation without open calls is paired.          *)
LEMMA PairsHold ==
  ASSUME MessagesHold(talk), AllAnswered(talk, Len(talk)), kind' = kind,
         NEW prompts \in BOOLEAN, body'.turns = Api!Turns(Api!Sent(prompts), Handle)
  PROVE  Api!Paired'
<1> DEFINE T == body'.turns
           L == Len(talk) - 1
<1>1. DOMAIN T = 1 .. L /\ \A i \in 1 .. L : IsTurn(T[i], talk[i + 1], Handle)
  BY TurnsAre
<1>2. Len(talk) \in Nat /\ DOMAIN talk = 1 .. Len(talk)
  BY DEF MessagesHold
<1>3. ASSUME NEW i \in 1 .. L
      PROVE  /\ T[i].role = talk[i + 1].role
             /\ T[i].calls = [n \in DOMAIN talk[i + 1].calls |-> Held(talk[i + 1].calls[n], Handle)]
             /\ T[i].role = "tool" => T[i].result = Held(talk[i + 1], Handle)
  BY <1>1 DEF IsTurn
<1> SUFFICES ASSUME NEW p \in DOMAIN T
    PROVE  LET o == Api!Owner(T, p) IN
           /\ T[p].role = "tool" => o # 0 /\ p - o <= Len(T[o].calls)
           /\ T[p].role = "tool" /\ T[o].calls[p - o] # Api!NoHandle =>
                /\ T[o].calls[p - o] = T[p].result
                /\ kind # "google" =>
                     \A n \in DOMAIN T[o].calls : T[o].calls[n] = T[p].result => n = p - o
           /\ T[p].role = "assistant" => \A n \in DOMAIN T[p].calls : T[p + n].role = "tool"
  BY Zenon DEF Api!Paired, Api!Numbered
<1> HIDE DEF T
<1>4. p \in 1 .. L /\ p \in Nat /\ p + 1 \in 2 .. Len(talk)
  BY <1>1, <1>2
<1>5. ASSUME T[p].role = "assistant", NEW n \in DOMAIN T[p].calls
      PROVE  T[p + n].role = "tool"
  <2>1. talk[p + 1].role = "assistant" /\ n \in DOMAIN talk[p + 1].calls
    BY <1>3, <1>4, <1>5
  <2>2. p + 1 + n \in DOMAIN talk /\ talk[p + 1 + n].role = "tool"
    BY <1>4, <2>1 DEF AllAnswered, Answered
  <2>3. n \in Nat /\ n >= 1
    BY <1>4, <2>1 DEF MessagesHold, CallsAre
  <2>4. p + n \in 1 .. L /\ (p + n) + 1 = p + 1 + n
    BY <1>2, <1>4, <2>2, <2>3
  <2> QED BY <1>3, <2>2, <2>4
<1>6. ASSUME T[p].role = "tool"
      PROVE  LET o == Api!Owner(T, p) IN
             /\ o # 0 /\ p - o <= Len(T[o].calls)
             /\ T[o].calls[p - o] # Api!NoHandle =>
                  /\ T[o].calls[p - o] = T[p].result
                  /\ kind # "google" =>
                       \A n \in DOMAIN T[o].calls : T[o].calls[n] = T[p].result => n = p - o
  <2>1. PICK o1 : Owns(talk, o1, p + 1)
    BY <1>3, <1>4, <1>6 DEF MessagesHold
  <2> DEFINE o == o1 - 1
             cs == talk[o1].calls
             k == p - o
  <2>2. /\ o1 \in 2 .. p /\ talk[o1].role = "assistant" /\ (p + 1) - o1 \in DOMAIN cs
        /\ \A q \in (o1 + 1) .. (p + 1) : talk[q].calls = << >>
        /\ talk[p + 1].id = cs[(p + 1) - o1].id /\ talk[p + 1].name = cs[(p + 1) - o1].name
    BY <1>4, <2>1 DEF Owns
  <2>3. /\ o \in 1 .. p /\ o \in 1 .. L /\ o + 1 = o1 /\ k = (p + 1) - o1
    BY <1>2, <1>4, <2>2
  <2>4. CallsAre(cs)
    BY <1>4, <2>2 DEF MessagesHold
  <2>5. T[o].calls = [n \in DOMAIN cs |-> Held(cs[n], Handle)]
    BY <1>3, <2>3
  <2> HIDE DEF o, cs, k
  <2>6. k \in DOMAIN cs /\ DOMAIN T[o].calls = DOMAIN cs /\ Len(cs) \in Nat /\ DOMAIN cs = 1 .. Len(cs)
    BY <2>2, <2>3, <2>4, <2>5 DEF CallsAre
  <2>7. T[o].calls # << >>
    BY <2>6
  <2>8. \A q \in (o + 1) .. p : T[q].calls = << >>
    <3> TAKE q \in (o + 1) .. p
    <3>1. q \in 1 .. L /\ q + 1 \in (o1 + 1) .. (p + 1)
      BY <1>2, <1>4, <2>2, <2>3
    <3>2. talk[q + 1].calls = << >>
      BY <2>2, <3>1
    <3>3. T[q].calls = [n \in DOMAIN << >> |-> Held(<< >>[n], Handle)]
      BY <1>3, <3>1, <3>2
    <3> QED BY <3>3
  <2>9. Api!Owner(T, p) = o
    BY <1>4, <2>3, <2>7, <2>8, OwnerIs
  <2>10. Len(T[o].calls) = Len(cs)
    <3> DEFINE S == {Held(cs[n], Handle) : n \in DOMAIN cs}
    <3>1. T[o].calls \in [1 .. Len(cs) -> S]
      BY <2>5, <2>6
    <3> HIDE DEF S
    <3> QED BY <2>6, <3>1
  <2>11. k <= Len(cs) /\ o # 0
    BY <2>3, <2>6
  <2>12. T[p].result = Held(talk[p + 1], Handle)
    BY <1>3, <1>4, <1>6
  <2>13. talk[p + 1].id = cs[k].id /\ talk[p + 1].name = cs[k].name
    BY <2>2, <2>3 DEF cs
  <2>14. T[o].calls[k] = Held(cs[k], Handle)
    BY <2>5, <2>6
  <2>15. T[o].calls[k] = T[p].result
    BY <2>12, <2>13, <2>14, HeldIs DEF Handle
  <2>16. ASSUME kind # "google", T[o].calls[k] # Api!NoHandle,
                NEW n \in DOMAIN cs, T[o].calls[n] = T[p].result
         PROVE  n = k
    <3>1. T[o].calls[n] = Held(cs[n], "id") /\ T[o].calls[k] = Held(cs[k], "id")
      BY <2>5, <2>6, <2>16 DEF Handle
    <3>2. cs[n].id = cs[k].id /\ cs[n].id # << >>
      BY <2>15, <2>16, <3>1, HeldIs
    <3> QED BY <2>4, <2>6, <3>2 DEF CallsAre
  <2> QED BY <2>6, <2>9, <2>10, <2>11, <2>15, <2>16 DEF k
<1> QED BY <1>5, <1>6

(* What is posted in each API's form.                                      *)
LEMMA BodyIs ==
  ASSUME kind \in {"openai", "ollama", "anthropic", "google"},
         NEW prompts \in BOOLEAN, NEW streams \in BOOLEAN
  PROVE  /\ Api!Body(prompts, streams).turns = Api!Turns(Api!Sent(prompts), Handle)
         /\ Api!Body(prompts, streams).systems =
              IF kind \in {"openai", "ollama"} THEN Api!SystemRoles(Api!Sent(prompts))
              ELSE {Api!LastRole(Api!Sent(prompts))}
<1> DEFINE B == Api!Body(prompts, streams)
           ms == Api!Sent(prompts)
<1>1. CASE kind = "openai"
  <2>1. B = Api!HttpBody(prompts, streams)
    BY <1>1 DEF Api!Body
  <2> QED BY <1>1, <2>1 DEF Api!HttpBody, Api!Request, Api!HttpForm, Handle
<1>2. CASE kind = "ollama"
  <2>1. B = Api!OllamaBody(prompts)
    BY <1>2 DEF Api!Body
  <2> QED BY <1>2, <2>1 DEF Api!OllamaBody, Api!Request, Api!OllamaForm, Handle
<1>3. CASE kind = "anthropic"
  <2>1. B = Api!AnthropicBody(prompts)
    BY <1>3 DEF Api!Body
  <2> QED BY <1>3, <2>1 DEF Api!AnthropicBody, Api!Request, Api!AnthropicForm, Handle
<1>4. CASE kind = "google"
  <2>1. B = Api!GoogleBody(prompts, streams)
    BY <1>4 DEF Api!Body
  <2> QED BY <1>4, <2>1 DEF Api!GoogleBody, Api!Request, Api!GoogleForm, Handle
<1> QED BY <1>1, <1>2, <1>3, <1>4

LEMMA AgentIsHeard ==
  ASSUME kind \in {"openai", "ollama", "anthropic", "google"}, MessagesHold(talk),
         NEW prompts \in BOOLEAN, NEW streams \in BOOLEAN,
         ~(prompts /\ kind \in {"anthropic", "google"})
  PROVE  "agent" \in Api!Body(prompts, streams).systems
<1> DEFINE ms == Api!Sent(prompts)
<1>1. /\ DOMAIN talk = 1 .. Len(talk) /\ Len(talk) \in Nat /\ Len(talk) >= 1
      /\ talk[1] = Api!Says("agent")
  BY DEF MessagesHold
<1>2. /\ \E S : ms \in Seq(S)
      /\ Len(talk) \in 1 .. Len(ms) /\ \A i \in 1 .. Len(talk) : ms[i] = talk[i]
  BY SentIs
<1> HIDE DEF ms
<1>3. DOMAIN ms = 1 .. Len(ms) /\ Len(ms) \in Nat /\ 1 \in DOMAIN ms /\ ms[1] = talk[1]
  BY <1>1, <1>2
<1>4. Api!IsSystem(Api!Says("agent")) /\ Api!Says("agent").role = "agent"
  BY DEF Api!IsSystem, Api!Says, Api!Message
<1>5. 1 \in Api!Systems(ms) /\ ms[1].role = "agent"
  BY <1>1, <1>3, <1>4 DEF Api!Systems
<1>6. CASE kind \in {"openai", "ollama"}
  <2>1. "agent" \in Api!SystemRoles(ms)
    BY <1>5 DEF Api!SystemRoles
  <2> QED BY <1>6, <2>1, BodyIs DEF ms
<1>7. CASE kind \in {"anthropic", "google"}
  <2>1. ms = talk
    BY <1>7 DEF ms, Api!Sent
  <2>2. \A i \in DOMAIN talk : Api!IsSystem(talk[i]) => i = 1
    BY <1>1 DEF MessagesHold, Api!IsSystem
  <2>3. Api!Systems(ms) = {1}
    BY <1>5, <2>1, <2>2 DEF Api!Systems
  <2>4. Api!LastRole(ms) = "agent"
    <3>1. Api!Max({1}) = 1
      BY DEF Api!Max
    <3> QED BY <1>5, <2>3, <3>1 DEF Api!LastRole
  <2>5. Api!Body(prompts, streams).systems = {Api!LastRole(ms)}
    BY <1>7, BodyIs DEF ms
  <2> QED BY <2>4, <2>5
<1> QED BY <1>6, <1>7

-----------------------------------------------------------------------------
(* Answers that another try may change are what is tried again, and what   *)
(* the errors that say so were raised for.                                 *)
PostsHold ==
  /\ posts \in Seq(Api!Statuses \cup {"200", "nowhere"}) /\ Len(posts) <= MaxRetries + 1
  /\ \A i \in 1 .. (Len(posts) - 1) : posts[i] \in Api!MayPass
  /\ posting \in {"posting", "backoff"} =>
       /\ Len(posts) <= MaxRetries
       /\ \A i \in 1 .. Len(posts) : posts[i] \in Api!MayPass
  /\ posting # "failed" => error = "none"
  /\ error \in {"limited", "unavailable"} /\ posts # << >> => posts[Len(posts)] \in Api!MayPass
ApiInv ==
  /\ kind \in {"openai", "ollama", "anthropic", "google"} /\ prompted \in BOOLEAN
  /\ TalkHolds /\ PostsHold /\ Api!Paired
  /\ posting \in {"posting", "backoff"} /\ ~(prompted /\ kind \in {"anthropic", "google"}) =>
       "agent" \in body.systems

LEMMA ApiHolds == ApiInv => Api!RequestsHold
<1> SUFFICES ASSUME ApiInv PROVE Api!RequestsHold
  OBVIOUS
<1>1. Api!Instructed
  BY DEF ApiInv, Api!Instructed
<1>2. Api!RetriesEnd
  BY DEF ApiInv, PostsHold, Api!RetriesEnd, Api!Last
<1> QED BY <1>1, <1>2 DEF ApiInv, Api!RequestsHold

LEMMA ErrorsSay ==
  ASSUME kind \in {"openai", "ollama", "anthropic", "google"},
         NEW s \in Api!Statuses \cup {"200", "nowhere"}
  PROVE  /\ Api!Retried(s) => s \in Api!MayPass
         /\ Api!ErrorOf(s) \in {"limited", "unavailable"} => s \in Api!MayPass
         /\ Api!StreamError(s) \in {"limited", "unavailable"} => s \in Api!MayPass
<1>1. /\ Api!HttpError(s) \in {"limited", "unavailable"} => s \in Api!MayPass
      /\ Api!AnthropicError(s) \in {"limited", "unavailable"} => s \in Api!MayPass
      /\ Api!GoogleError(s) \in {"limited", "unavailable"} => s \in Api!MayPass
      /\ Api!OllamaError(s) \in {"limited", "unavailable"} => s \in Api!MayPass
      /\ Api!OllamaRetries(s) => s \in Api!MayPass
  BY DEF Api!HttpError, Api!AnthropicError, Api!GoogleError, Api!OllamaError, Api!OllamaRetries,
         Api!Down, Api!MayPass
<1>2. /\ Api!Retried(s) \in
           {Api!HttpRetries(s), Api!AnthropicRetries(s), Api!GoogleRetries(s), Api!OllamaRetries(s)}
      /\ Api!ErrorOf(s) \in
           {Api!HttpError(s), Api!AnthropicError(s), Api!GoogleError(s), Api!OllamaError(s)}
  BY DEF Api!Retried, Api!ErrorOf
<1>3. /\ Api!Retried(s) => s \in Api!MayPass
      /\ Api!ErrorOf(s) \in {"limited", "unavailable"} => s \in Api!MayPass
  BY <1>1, <1>2 DEF Api!HttpRetries, Api!AnthropicRetries, Api!GoogleRetries
<1> QED BY <1>3 DEF Api!StreamError

(* A conversation that goes on.                                            *)
LEMMA TalkGrows ==
  ASSUME MessagesHold(talk), NEW S, NEW t \in Seq(S), Len(talk) <= Len(t),
         \A i \in 1 .. Len(talk) : t[i] = talk[i],
         \A p \in (Len(talk) + 1) .. Len(t) :
           /\ t[p].role \in {"assistant", "tool"}
           /\ t[p].role = "assistant" => CallsAre(t[p].calls)
           /\ t[p].role # "assistant" => t[p].calls = << >>
           /\ t[p].role = "tool" => \E o : Owns(t, o, p)
  PROVE  /\ MessagesHold(t)
         /\ \A m \in Nat : m <= Len(talk) /\ AllAnswered(talk, m) => AllAnswered(t, m)
<1>1. Len(talk) \in Nat /\ Len(t) \in Nat /\ DOMAIN talk = 1 .. Len(talk) /\ DOMAIN t = 1 .. Len(t)
  BY DEF MessagesHold
<1>2. Len(talk) >= 1 /\ t[1] = Api!Says("agent") /\ Len(t) >= 1
  BY <1>1 DEF MessagesHold
<1>3. ASSUME NEW p \in 2 .. Len(t)
      PROVE  /\ t[p].role \in {"user", "assistant", "tool"}
             /\ t[p].role = "assistant" => CallsAre(t[p].calls)
             /\ t[p].role # "assistant" => t[p].calls = << >>
             /\ t[p].role = "tool" => \E o : Owns(t, o, p)
  <2>1. CASE p \in 2 .. Len(talk)
    <3>1. t[p] = talk[p]
      BY <1>1, <2>1
    <3>2. /\ t[p].role \in {"user", "assistant", "tool"}
          /\ t[p].role = "assistant" => CallsAre(t[p].calls)
          /\ t[p].role # "assistant" => t[p].calls = << >>
      BY <2>1, <3>1 DEF MessagesHold
    <3>3. ASSUME t[p].role = "tool" PROVE \E o : Owns(t, o, p)
      <4>1. PICK o : Owns(talk, o, p)
        BY <2>1, <3>1, <3>3 DEF MessagesHold
      <4>2. o \in 2 .. (p - 1)
        BY <4>1 DEF Owns
      <4>3. t[o] = talk[o] /\ \A q \in (o + 1) .. p : t[q] = talk[q]
        BY <1>1, <2>1, <4>2
      <4>4. Owns(t, o, p)
        BY <3>1, <4>1, <4>3 DEF Owns
      <4> QED BY <4>4
    <3> QED BY <3>2, <3>3
  <2>2. CASE p \in (Len(talk) + 1) .. Len(t)
    BY <2>2
  <2> QED BY <1>1, <2>1, <2>2
<1>4. MessagesHold(t)
  BY <1>2, <1>3 DEF MessagesHold
<1>5. ASSUME NEW m \in Nat, m <= Len(talk), AllAnswered(talk, m) PROVE AllAnswered(t, m)
  <2> SUFFICES ASSUME NEW p \in 2 .. m, t[p].role = "assistant" PROVE Answered(t, p)
    BY DEF AllAnswered
  <2>1. t[p] = talk[p]
    BY <1>1, <1>5
  <2>2. Answered(talk, p)
    BY <1>5, <2>1 DEF AllAnswered
  <2> QED BY <1>1, <2>1, <2>2 DEF Answered
<1> QED BY <1>4, <1>5

LEMMA CallIdIs ==
  ASSUME kind \in {"openai", "ollama", "anthropic", "google"}, prompted \in BOOLEAN, NEW how \in Api!Ids
  PROVE  \/ \A i : Api!CallId(how, i) = <<round, i>>
         \/ \A i : Api!CallId(how, i) = <<0, i>>
         \/ \A i : Api!CallId(how, i) = << >>
<1>1. /\ how = "fresh" \/ how = "counted" \/ how = "omitted"
      /\ \A i : Api!AnthropicId(i) = <<round, i>> /\ Api!GoogleId(i) = <<round, i>>
                /\ Api!PromptedId(i) = <<round, i>>
  BY Zenon DEF Api!Ids, Api!AnthropicId, Api!GoogleId, Api!PromptedId, Api!Fresh
<1>2. /\ how = "fresh" => \A i : Api!HttpId(how, i) = <<round, i>> /\ Api!OllamaId(how, i) = <<round, i>>
      /\ how = "counted" => \A i : Api!HttpId(how, i) = <<0, i>> /\ Api!OllamaId(how, i) = <<0, i>>
      /\ how = "omitted" => \A i : Api!HttpId(how, i) = << >> /\ Api!OllamaId(how, i) = << >>
  BY DEF Api!HttpId, Api!OllamaId, Api!Fresh
<1>3. \/ \A i : Api!CallId(how, i) = Api!PromptedId(i)
      \/ \A i : Api!CallId(how, i) = Api!HttpId(how, i)
      \/ \A i : Api!CallId(how, i) = Api!OllamaId(how, i)
      \/ \A i : Api!CallId(how, i) = Api!AnthropicId(i)
      \/ \A i : Api!CallId(how, i) = Api!GoogleId(i)
  BY DEF Api!CallId
<1> QED BY <1>1, <1>2, <1>3

LEMMA CallsAreApart ==
  ASSUME kind \in {"openai", "ollama", "anthropic", "google"}, prompted \in BOOLEAN,
         NEW how \in Api!Ids, NEW names \in Api!NameLists
  PROVE  /\ CallsAre(Api!Calls(names, how))
         /\ DOMAIN Api!Calls(names, how) = DOMAIN names
<1> DEFINE cs == Api!Calls(names, how)
           S == {[id |-> Api!CallId(how, i), name |-> names[i]] : i \in DOMAIN names}
<1>1. PICK n \in 0 .. 2 : names \in [1 .. n -> ToolNames]
  BY DEF Api!NameLists
<1>2. /\ cs \in [1 .. n -> S] /\ DOMAIN cs = DOMAIN names
      /\ \A i \in DOMAIN cs : cs[i].id = Api!CallId(how, i)
  BY <1>1 DEF Api!Calls
<1> HIDE DEF cs, S
<1>3. cs \in Seq(S)
  BY <1>2
<1>4. \A r, i, j : <<r, i>> = <<r, j>> => i = j
  OBVIOUS
<1>5. \A i, j \in DOMAIN cs : cs[i].id = cs[j].id => i = j \/ cs[i].id = << >>
  <2>1. CASE \A i : Api!CallId(how, i) = << >>
    BY <1>2, <2>1
  <2>2. ASSUME NEW r, \A i : Api!CallId(how, i) = <<r, i>>
        PROVE  \A i, j \in DOMAIN cs : cs[i].id = cs[j].id => i = j
    BY <1>2, <1>4, <2>2
  <2> QED BY <2>1, <2>2, CallIdIs
<1> QED BY <1>2, <1>3, <1>5 DEF CallsAre, cs

(* Where neither the conversation nor what was posted changes.             *)
LEMMA SameTalk ==
  ASSUME TalkHolds, talk' = talk, (posting' = "tools") = (posting = "tools")
  PROVE  TalkHolds'
BY DEF TalkHolds

LEMMA SamePairs == ASSUME Api!Paired, body' = body, kind' = kind PROVE Api!Paired'
BY DEF Api!Paired, Api!Owner, Api!Numbered

LEMMA FewPosts ==
  ASSUME MaxRetries \in Nat, NEW s \in Api!Statuses \cup {"200", "nowhere"}, posts' = <<s>>,
         posting' \notin {"posting", "backoff"}, posting' # "failed" => error' = "none",
         error' \in {"limited", "unavailable"} => s \in Api!MayPass
  PROVE  PostsHold'
<1> DEFINE T == Api!Statuses \cup {"200", "nowhere"}
           MayPass == Api!MayPass
           p == posts'
<1>1. p \in Seq(T) /\ Len(p) = 1 /\ p[1] = s
  <2> HIDE DEF T
  <2>1. s \in T
    BY DEF T
  <2> QED BY <2>1
<1> HIDE DEF p, T
<1>2. \A i \in 1 .. (Len(p) - 1) : p[i] \in MayPass
  BY <1>1
<1>3. Len(p) <= MaxRetries + 1
  BY <1>1
<1>4. error' \in {"limited", "unavailable"} => p[Len(p)] \in MayPass
  BY <1>1
<1> HIDE DEF MayPass
<1> QED BY <1>1, <1>2, <1>3, <1>4, Zenon DEF PostsHold, p, T, MayPass, Api!MayPass, Api!Statuses

LEMMA CompleteKeeps == ApiInv /\ Api!Complete => ApiInv'
<1> SUFFICES ASSUME ApiInv, Api!Complete PROVE ApiInv'
  OBVIOUS
<1>1. /\ posting = "idle" /\ body' = Api!Body(prompted, FALSE) /\ posts' = << >>
      /\ kind' = kind /\ prompted' = prompted /\ talk' = talk
      /\ \/ posting' = "posting" /\ error' = error
         \/ posting' = "failed" /\ error' = "provider"
  BY DEF Api!Complete, Api!Fails, Api!setup
<1>2. TalkHolds'
  BY <1>1, SameTalk DEF ApiInv
<1>3. Api!Paired'
  <2>1. MessagesHold(talk) /\ AllAnswered(talk, Len(talk))
    BY <1>1 DEF ApiInv, TalkHolds
  <2>2. body'.turns = Api!Turns(Api!Sent(prompted), Handle)
    BY <1>1, BodyIs DEF ApiInv
  <2> QED BY <1>1, <2>1, <2>2, PairsHold DEF ApiInv
<1>4. ~(prompted /\ kind \in {"anthropic", "google"}) => "agent" \in body'.systems
  BY <1>1, AgentIsHeard DEF ApiInv, TalkHolds
<1>5. PostsHold'
  <2>1. << >> \in Seq(Api!Statuses \cup {"200", "nowhere"}) /\ Len(<< >>) = 0
    OBVIOUS
  <2>2. MaxRetries \in Nat
    BY AgentsAssumption DEF Api!ApiAssumption
  <2>3. posting = "idle" => error = "none"
    BY DEF ApiInv, PostsHold
  <2>4. Api!MayPass' = Api!MayPass /\ Api!Statuses' = Api!Statuses
    BY DEF Api!MayPass, Api!Statuses
  <2> QED BY <1>1, <2>1, <2>2, <2>3, <2>4 DEF PostsHold
<1> QED BY <1>1, <1>2, <1>3, <1>4, <1>5 DEF ApiInv

LEMMA PostKeeps == ApiInv /\ Api!Post => ApiInv'
<1> SUFFICES ASSUME ApiInv, Api!Post PROVE ApiInv'
  OBVIOUS
<1>1. /\ posting = "posting" /\ kind' = kind /\ prompted' = prompted /\ talk' = talk /\ body' = body
  BY DEF Api!Post, Api!setup
<1>2. PICK s \in Api!Statuses :
        /\ posts' = Append(posts, s)
        /\ \/ /\ Api!Retried(s) /\ Len(posts) < MaxRetries /\ posting' = "backoff" /\ error' = error
           \/ posting' = "failed" /\ error' = Api!ErrorOf(s)
  BY DEF Api!Post, Api!Fails
<1>3. TalkHolds'
  BY <1>1, <1>2, SameTalk DEF ApiInv
<1>4. Api!Paired'
  BY <1>1, SamePairs DEF ApiInv
<1>5. PostsHold'
  <2> DEFINE T == Api!Statuses \cup {"200", "nowhere"}
             May == Api!MayPass
             k == Len(posts)
             p == posts'
  <2>1. /\ posts \in Seq(T) /\ k <= MaxRetries /\ \A i \in 1 .. k : posts[i] \in May
        /\ error = "none"
    BY <1>1 DEF ApiInv, PostsHold
  <2>2. s \in T /\ (Api!Retried(s) => s \in May)
        /\ (Api!ErrorOf(s) \in {"limited", "unavailable"} => s \in May)
    BY ErrorsSay DEF ApiInv
  <2>3. MaxRetries \in Nat /\ k \in Nat
    BY <2>1, AgentsAssumption DEF Api!ApiAssumption
  <2> HIDE DEF T
  <2>4. /\ p \in Seq(T) /\ Len(p) = k + 1 /\ p[k + 1] = s /\ \A i \in 1 .. k : p[i] = posts[i]
    BY <1>2, <2>1, <2>2
  <2> HIDE DEF p, k, May
  <2>5. /\ Len(p) <= MaxRetries + 1 /\ \A i \in 1 .. (Len(p) - 1) : p[i] \in May
        /\ p[Len(p)] = s
    BY <2>1, <2>3, <2>4 DEF k
  <2>6. posting' = "backoff" => Len(p) <= MaxRetries /\ (\A i \in 1 .. Len(p) : p[i] \in May) /\ error' = "none"
    <3>1. posting' = "backoff" => s \in May /\ k < MaxRetries /\ error' = "none"
      BY <1>2, <2>1, <2>2 DEF k
    <3>2. \A i \in 1 .. Len(p) : i \in 1 .. k \/ i = k + 1
      BY <2>3, <2>4
    <3> QED BY <2>1, <2>3, <2>4, <3>1, <3>2
  <2>7. posting' \in {"backoff", "failed"}
        /\ (error' \in {"limited", "unavailable"} => p[Len(p)] \in May)
    BY <1>2, <2>1, <2>2, <2>5
  <2>8. T' = T /\ May' = May
    BY DEF T, May, Api!MayPass, Api!Statuses
  <2> QED BY <2>4, <2>5, <2>6, <2>7, <2>8 DEF PostsHold, p, T, May
<1> QED BY <1>1, <1>2, <1>3, <1>4, <1>5 DEF ApiInv

LEMMA RetryKeeps == ApiInv /\ Api!Retry => ApiInv'
<1> SUFFICES ASSUME ApiInv, Api!Retry PROVE ApiInv'
  OBVIOUS
<1>1. /\ posting = "backoff" /\ posting' = "posting" /\ kind' = kind /\ prompted' = prompted
      /\ talk' = talk /\ body' = body /\ posts' = posts /\ error' = error
  BY DEF Api!Retry, Api!setup
<1>2. TalkHolds'
  BY <1>1, SameTalk DEF ApiInv
<1>3. Api!Paired'
  BY <1>1, SamePairs DEF ApiInv
<1>4. PostsHold'
  BY <1>1 DEF ApiInv, PostsHold, Api!MayPass, Api!Statuses
<1> QED BY <1>1, <1>2, <1>3, <1>4 DEF ApiInv

LEMMA ParseKeeps == ApiInv /\ Api!Parse => ApiInv'
<1> SUFFICES ASSUME ApiInv, Api!Parse PROVE ApiInv'
  OBVIOUS
<1>1. /\ posting = "posting" /\ kind' = kind /\ prompted' = prompted /\ body' = body
      /\ error' = error /\ posts' = Append(posts, "200")
  BY DEF Api!Parse, Api!setup
<1>2. PICK names \in Api!NameLists, how \in Api!Ids :
        /\ talk' = Append(talk, Api!Message("assistant", Api!Calls(names, how), << >>, ""))
        /\ posting' = IF names = << >> THEN "done" ELSE "tools"
  BY DEF Api!Parse
<1>3. TalkHolds'
  <2> DEFINE cs == Api!Calls(names, how)
             m == Api!Message("assistant", cs, << >>, "")
             L == Len(talk)
             t == talk'
  <2>1. MessagesHold(talk) /\ AllAnswered(talk, L)
    BY <1>1 DEF ApiInv, TalkHolds
  <2>2. PICK S : talk \in Seq(S)
    BY <2>1 DEF MessagesHold
  <2>3. m.role = "assistant" /\ m.calls = cs
    BY DEF Api!Message
  <2>4. CallsAre(cs) /\ DOMAIN cs = DOMAIN names
    BY CallsAreApart DEF ApiInv
  <2>12. t = Append(talk, m)
    BY <1>2
  <2> HIDE DEF m, cs, t
  <2> DEFINE T == S \cup {m}
  <2>5. talk \in Seq(T) /\ m \in T
    BY <2>2
  <2> HIDE DEF T
  <2>6. /\ t \in Seq(T) /\ Len(t) = L + 1 /\ t[L + 1] = m /\ \A i \in 1 .. L : t[i] = talk[i]
        /\ L \in Nat /\ DOMAIN t = 1 .. Len(t)
    BY <2>5, <2>12
  <2> HIDE DEF L
  <2>7. \A p \in (L + 1) .. Len(t) : p = L + 1
    BY <2>6
  <2>8. /\ MessagesHold(t)
        /\ \A k \in Nat : k <= L /\ AllAnswered(talk, k) => AllAnswered(t, k)
    BY <2>1, <2>3, <2>4, <2>6, <2>7, TalkGrows DEF L
  <2>9. AllAnswered(t, L)
    BY <2>1, <2>6, <2>8
  <2>10. CASE names = << >>
    <3>1. DOMAIN cs = {}
      BY <2>4, <2>10
    <3>2. Answered(t, L + 1)
      BY <2>3, <2>6, <3>1 DEF Answered
    <3>3. \A p \in 2 .. (L + 1) : p \in 2 .. L \/ p = L + 1
      BY <2>6
    <3>4. AllAnswered(t, Len(t))
      BY <2>6, <2>9, <3>2, <3>3 DEF AllAnswered
    <3> QED BY <1>2, <2>8, <2>10, <3>4 DEF TalkHolds, t
  <2>11. CASE names # << >>
    <3>1. L >= 1
      BY <2>1 DEF MessagesHold, L
    <3>2. Len(t) >= 2 /\ t[Len(t)].role = "assistant" /\ Len(t) - 1 = L
      BY <2>3, <2>6, <3>1
    <3> QED BY <1>2, <2>8, <2>9, <2>11, <3>2 DEF TalkHolds, t
  <2> QED BY <2>10, <2>11
<1>4. Api!Paired'
  BY <1>1, SamePairs DEF ApiInv
<1>5. PostsHold'
  <2> DEFINE T == Api!Statuses \cup {"200", "nowhere"}
             May == Api!MayPass
             k == Len(posts)
             p == posts'
  <2>1. /\ posts \in Seq(T) /\ k <= MaxRetries /\ \A i \in 1 .. k : posts[i] \in May
        /\ error = "none"
    BY <1>1 DEF ApiInv, PostsHold
  <2>2. "200" \in T
    OBVIOUS
  <2>3. MaxRetries \in Nat /\ k \in Nat
    BY <2>1, AgentsAssumption DEF Api!ApiAssumption
  <2> HIDE DEF T
  <2>4. /\ p \in Seq(T) /\ Len(p) = k + 1 /\ \A i \in 1 .. k : p[i] = posts[i]
    BY <1>1, <2>1, <2>2
  <2> HIDE DEF p, k, May
  <2>5. Len(p) <= MaxRetries + 1 /\ \A i \in 1 .. (Len(p) - 1) : p[i] \in May
    BY <2>1, <2>3, <2>4 DEF k
  <2>6. posting' \in {"done", "tools"} /\ error' = "none"
    BY <1>1, <1>2, <2>1
  <2>8. T' = T /\ May' = May
    BY DEF T, May, Api!MayPass, Api!Statuses
  <2> QED BY <2>4, <2>5, <2>6, <2>8 DEF PostsHold, p, T, May
<1>6. posting' \notin {"posting", "backoff"}
  BY <1>2
<1> QED BY <1>1, <1>3, <1>4, <1>5, <1>6 DEF ApiInv

(* Every call has its result before the model is asked again.              *)
LEMMA ToolsKeep == ApiInv /\ Api!RunTools => ApiInv'
<1> SUFFICES ASSUME ApiInv, Api!RunTools PROVE ApiInv'
  OBVIOUS
<1> DEFINE L == Len(talk)
           cs == talk[L].calls
           more == [i \in DOMAIN cs |-> Api!Message("tool", << >>, cs[i].id, cs[i].name)]
           t == talk'
<1>1. /\ posting = "tools" /\ posting' = "idle" /\ kind' = kind /\ prompted' = prompted
      /\ body' = body /\ error' = error /\ posts' = posts /\ t = talk \o more
  BY DEF Api!RunTools, Api!setup, Api!Last
<1>2. MessagesHold(talk) /\ L >= 2 /\ talk[L].role = "assistant" /\ AllAnswered(talk, L - 1)
  BY <1>1 DEF ApiInv, TalkHolds
<1>3. PICK S : talk \in Seq(S)
  BY <1>2 DEF MessagesHold
<1>4. L \in Nat /\ L \in 2 .. L
  BY <1>2, <1>3
<1>5. CallsAre(cs)
  BY <1>2, <1>4 DEF MessagesHold
<1>6. DOMAIN cs = 1 .. Len(cs) /\ Len(cs) \in Nat
  BY <1>5 DEF CallsAre
<1> DEFINE T == S \cup {Api!Message("tool", << >>, cs[i].id, cs[i].name) : i \in DOMAIN cs}
<1>7. talk \in Seq(T) /\ more \in [1 .. Len(cs) -> T]
  BY <1>3, <1>6
<1>8. \A n \in 1 .. Len(cs) : /\ more[n].role = "tool" /\ more[n].calls = << >>
                              /\ more[n].id = cs[n].id /\ more[n].name = cs[n].name
  BY <1>6 DEF Api!Message
<1> HIDE DEF more, T, t, cs
<1>9. more \in Seq(T) /\ Len(more) = Len(cs)
  BY <1>6, <1>7
<1>10. /\ t \in Seq(T) /\ Len(t) = L + Len(cs) /\ DOMAIN t = 1 .. Len(t)
       /\ \A i \in 1 .. L : t[i] = talk[i]
       /\ \A n \in 1 .. Len(cs) : t[L + n] = more[n]
  <2>1. t = talk \o more
    BY <1>1
  <2>2. /\ t \in Seq(T) /\ Len(t) = Len(talk) + Len(more) /\ DOMAIN t = 1 .. Len(t)
        /\ \A i \in 1 .. Len(talk) : t[i] = talk[i]
        /\ \A n \in 1 .. Len(more) : t[Len(talk) + n] = more[n]
    <3>1. talk \in Seq(T) /\ more \in Seq(T)
      BY <1>7, <1>9
    <3> DEFINE s == talk \o more
    <3>2. /\ s \in Seq(T) /\ Len(s) = Len(talk) + Len(more) /\ DOMAIN s = 1 .. Len(s)
          /\ \A i \in 1 .. Len(talk) : s[i] = talk[i]
          /\ \A n \in 1 .. Len(more) : s[Len(talk) + n] = more[n]
      BY <3>1, Joined
    <3> HIDE DEF s
    <3>3. t = s
      BY <2>1 DEF s
    <3> QED BY <3>2, <3>3
  <2>3. L = Len(talk)
    OBVIOUS
  <2> HIDE DEF L
  <2> QED BY <1>9, <2>2, <2>3
<1> HIDE DEF L
<1>11. ASSUME NEW p \in (L + 1) .. Len(t)
       PROVE  t[p].role = "tool" /\ t[p].calls = << >> /\ p - L \in 1 .. Len(cs)
              /\ t[p].id = cs[p - L].id /\ t[p].name = cs[p - L].name
  <2>1. p - L \in 1 .. Len(cs) /\ L + (p - L) = p
    BY <1>4, <1>6, <1>10
  <2>2. t[p] = more[p - L]
    BY <1>10, <2>1
  <2> QED BY <1>8, <2>1, <2>2
<1>12. ASSUME NEW p \in (L + 1) .. Len(t) PROVE Owns(t, L, p)
  <2>1. L \in 2 .. (p - 1)
    BY <1>4
  <2>2. t[L].calls = cs /\ t[L].role = "assistant"
    BY <1>2, <1>4, <1>10 DEF cs, L
  <2>3. \A q \in (L + 1) .. p : q \in (L + 1) .. Len(t)
    BY <1>4, <1>6, <1>10
  <2>4. \A q \in (L + 1) .. p : t[q].calls = << >>
    BY <1>11, <2>3
  <2> QED BY <1>6, <1>11, <2>1, <2>2, <2>4 DEF Owns
<1>13. /\ MessagesHold(t)
       /\ \A m \in Nat : m <= L /\ AllAnswered(talk, m) => AllAnswered(t, m)
  <2>1. L <= Len(t)
    BY <1>4, <1>6, <1>10
  <2>2. \A p \in (L + 1) .. Len(t) :
           /\ t[p].role \in {"assistant", "tool"}
           /\ t[p].role = "assistant" => CallsAre(t[p].calls)
           /\ t[p].role # "assistant" => t[p].calls = << >>
           /\ t[p].role = "tool" => \E o : Owns(t, o, p)
    BY <1>11, <1>12
  <2> QED BY <1>2, <1>10, <2>1, <2>2, TalkGrows DEF L
<1>14. AllAnswered(t, L - 1)
  BY <1>2, <1>4, <1>13
<1>15. Answered(t, L)
  <2>1. t[L].calls = cs
    BY <1>4, <1>10 DEF cs, L
  <2>2. ASSUME NEW n \in 1 .. Len(cs) PROVE L + n \in DOMAIN t /\ t[L + n].role = "tool"
    BY <1>4, <1>6, <1>8, <1>10
  <2> QED BY <1>6, <2>1, <2>2 DEF Answered
<1>16. AllAnswered(t, Len(t))
  <2> SUFFICES ASSUME NEW p \in 2 .. Len(t), t[p].role = "assistant" PROVE Answered(t, p)
    BY DEF AllAnswered
  <2>1. p \in 2 .. (L - 1) \/ p = L \/ p \in (L + 1) .. Len(t)
    BY <1>4, <1>6, <1>10
  <2>2. p \in 2 .. (L - 1) => Answered(t, p)
    BY <1>14 DEF AllAnswered
  <2>3. p \notin (L + 1) .. Len(t)
    BY <1>11
  <2> QED BY <1>15, <2>1, <2>2, <2>3
<1>17. TalkHolds'
  BY <1>1, <1>13, <1>16 DEF TalkHolds, t
<1>18. Api!Paired'
  BY <1>1, SamePairs DEF ApiInv
<1>19. PostsHold'
  BY <1>1 DEF ApiInv, PostsHold, Api!MayPass, Api!Statuses
<1> QED BY <1>1, <1>17, <1>18, <1>19 DEF ApiInv

LEMMA StreamKeeps == ApiInv /\ Api!Stream => ApiInv'
<1> SUFFICES ASSUME ApiInv, Api!Stream PROVE ApiInv'
  OBVIOUS
<1>1. /\ posting = "idle" /\ body' = Api!Body(FALSE, TRUE)
      /\ kind' = kind /\ prompted' = prompted /\ talk' = talk
  BY DEF Api!Stream, Api!setup
<1>2. PICK s \in Api!Statuses \cup {"200", "nowhere"} :
        /\ posts' = <<s>>
        /\ \/ posting' = "failed" /\ error' = Api!StreamError(s)
           \/ posting' = "failed" /\ error' = "untyped"
           \/ posting' = "done" /\ error' = error
  BY DEF Api!Stream, Api!StreamFails, Api!Fails
<1>3. error = "none"
  BY <1>1 DEF ApiInv, PostsHold
<1>4. TalkHolds'
  BY <1>1, <1>2, SameTalk DEF ApiInv
<1>5. Api!Paired'
  <2>1. MessagesHold(talk) /\ AllAnswered(talk, Len(talk))
    BY <1>1 DEF ApiInv, TalkHolds
  <2>2. body'.turns = Api!Turns(Api!Sent(FALSE), Handle)
    BY <1>1, BodyIs DEF ApiInv
  <2> QED BY <1>1, <2>1, <2>2, PairsHold DEF ApiInv
<1>6. PostsHold'
  <2>1. error' \in {"limited", "unavailable"} => s \in Api!MayPass
    BY <1>2, <1>3, ErrorsSay DEF ApiInv
  <2>2. MaxRetries \in Nat
    BY AgentsAssumption DEF Api!ApiAssumption
  <2> QED BY <1>2, <1>3, <2>1, <2>2, FewPosts
<1> QED BY <1>1, <1>2, <1>4, <1>5, <1>6 DEF ApiInv

LEMMA FileKeeps == ApiInv /\ (Api!Upload \/ Api!Send) => ApiInv'
<1> SUFFICES ASSUME ApiInv, Api!Upload \/ Api!Send PROVE ApiInv'
  OBVIOUS
<1>1. /\ posting \in {"idle", "sending"} /\ kind' = kind /\ prompted' = prompted
      /\ talk' = talk /\ body' = body
  BY DEF Api!Upload, Api!Send, Api!setup
<1>2. \/ posting' \in {"idle", "sending"} /\ posts' = posts /\ error' = error
      \/ \E s \in Api!Statuses \cup {"200", "nowhere"} :
           posting' = "failed" /\ posts' = <<s>> /\ error' = Api!StreamError(s)
  BY DEF Api!Upload, Api!Send, Api!Fails
<1>3. posting' \in {"idle", "sending", "failed"}
  BY <1>2
<1>4. TalkHolds'
  BY <1>1, <1>3, SameTalk DEF ApiInv
<1>5. Api!Paired'
  BY <1>1, SamePairs DEF ApiInv
<1>6. PostsHold'
  <2>1. CASE posting' \in {"idle", "sending"} /\ posts' = posts /\ error' = error
    BY <1>1, <2>1 DEF ApiInv, PostsHold, Api!MayPass, Api!Statuses
  <2>2. CASE \E s \in Api!Statuses \cup {"200", "nowhere"} :
               posting' = "failed" /\ posts' = <<s>> /\ error' = Api!StreamError(s)
    <3>1. PICK s \in Api!Statuses \cup {"200", "nowhere"} :
            posting' = "failed" /\ posts' = <<s>> /\ error' = Api!StreamError(s)
      BY <2>2
    <3>2. error' \in {"limited", "unavailable"} => s \in Api!MayPass
      BY <3>1, ErrorsSay DEF ApiInv
    <3>3. MaxRetries \in Nat
      BY AgentsAssumption DEF Api!ApiAssumption
    <3> QED BY <3>1, <3>2, <3>3, FewPosts
  <2> QED BY <1>2, <2>1, <2>2
<1> QED BY <1>1, <1>3, <1>4, <1>5, <1>6 DEF ApiInv

LEMMA ApiStarts == Api!Init => ApiInv
<1> SUFFICES ASSUME Api!Init PROVE ApiInv
  OBVIOUS
<1>1. /\ kind \in {"openai", "ollama", "anthropic", "google"} /\ prompted \in BOOLEAN
      /\ talk = <<Api!Says("agent"), Api!Says("user")>> /\ body = Api!NoBody
      /\ posts = << >> /\ posting = "idle" /\ error = "none"
  BY DEF Api!Init
<1>2. TalkHolds
  <2> DEFINE a == Api!Says("agent")
             u == Api!Says("user")
  <2>1. u.role = "user" /\ u.calls = << >>
    BY DEF Api!Says, Api!Message
  <2> HIDE DEF a, u
  <2>2. talk \in Seq({a, u}) /\ Len(talk) = 2 /\ talk[1] = a /\ talk[2] = u
    BY <1>1 DEF a, u
  <2>3. \A p \in 2 .. Len(talk) : talk[p] = u
    BY <2>2
  <2>4. MessagesHold(talk) /\ AllAnswered(talk, Len(talk))
    BY <2>1, <2>2, <2>3 DEF MessagesHold, AllAnswered, a
  <2> QED BY <1>1, <2>4 DEF TalkHolds
<1>3. Api!Paired
  <2>1. body.turns = << >>
    BY <1>1 DEF Api!NoBody
  <2> QED BY <2>1 DEF Api!Paired
<1>4. PostsHold
  <2>1. MaxRetries \in Nat
    BY AgentsAssumption DEF Api!ApiAssumption
  <2> QED BY <1>1, <2>1 DEF PostsHold
<1> QED BY <1>1, <1>2, <1>3, <1>4 DEF ApiInv

(* Whatever a model calls and however an API answers, in what is posted    *)
(* every result is paired with its call, the agent's instructions are not  *)
(* lost, and a post is repeated only where that may help (ModelApi).       *)
THEOREM RequestsStayPaired == Spec => []RequestsHold
<1> DEFINE Kept == part = "api" => ApiInv
<1>1. Init => Kept
  BY ApiStarts DEF Init
<1>2. Kept /\ [Next]_vars => Kept'
  <2> SUFFICES ASSUME Kept, [Next]_vars, part' = "api" PROVE ApiInv'
    OBVIOUS
  <2>1. part = "api" /\ ApiInv
    BY DEF Next, vars
  <2>2. CASE UNCHANGED api
    <3>1. /\ kind' = kind /\ prompted' = prompted /\ talk' = talk /\ body' = body
          /\ posts' = posts /\ posting' = posting /\ error' = error
      BY <2>2 DEF api
    <3>2. TalkHolds' /\ Api!Paired'
      BY <2>1, <3>1, SameTalk, SamePairs DEF ApiInv
    <3>3. PostsHold'
      BY <2>1, <3>1 DEF ApiInv, PostsHold, Api!MayPass, Api!Statuses
    <3> QED BY <2>1, <3>1, <3>2, <3>3 DEF ApiInv
  <2>3. CASE Api!Next
    BY <2>1, <2>3, CompleteKeeps, PostKeeps, RetryKeeps, ParseKeeps, ToolsKeep, StreamKeeps,
       FileKeeps DEF Api!Next
  <2> QED BY <2>1, <2>2, <2>3 DEF Next, vars
<1>3. Kept => RequestsHold
  BY ApiHolds DEF RequestsHold
<1> QED
  BY <1>1, <1>2, <1>3, PTL DEF Spec

==============================================================================
