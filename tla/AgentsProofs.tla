----------------------------- MODULE AgentsProofs ------------------------------
(***************************************************************************)
(* Proofs about what works under a node of a graph, for any values of its  *)
(* parameters: every backend of the event store implements the protocol,   *)
(* whatever is written, every model the router chooses is within the       *)
(* limits of the request, and every graph the builder compiles is the one  *)
(* its caller asked for.  (AgentLoopProofs is about the loop of an agent.) *)
(***************************************************************************)
EXTENDS MCAgents, FiniteSetTheorems, WellFoundedInduction, TLAPS

-----------------------------------------------------------------------------
(***************************************************************************)
(* The stores.  An event's id is its own and its number is one its bus has *)
(* reached; in memory the order of the rows is that of their numbers,      *)
(* because a number is taken and stored in one step; and of what is stored *)
(* there always is a greatest number, which a reader is told.              *)
(***************************************************************************)
Writers == Stores!Writers
Buses == {"own", "other"}
Events(n) == [id : 1 .. n, seq : 0 .. (n - 1), type : {"started", "node", "completed"}]
Log(r) == {r[i] : i \in DOMAIN r}
IsLast(r, i) == \A j \in DOMAIN r : r[j].seq <= r[i].seq
IsNewest(c, i) == \A j \in DOMAIN c : c[j] <= c[i] /\ (i < j => c[j] < c[i])

RowsHold(r, n) ==
  /\ r \in Seq(Events(n))
  /\ \A i, j \in DOMAIN r : r[i].id = r[j].id => i = j
  /\ IsFiniteSet(Log(r)) /\ Cardinality(Log(r)) = Len(r)
  /\ r # <<>> => \E i \in DOMAIN r : IsLast(r, i)
SavesHold(c, n) ==
  /\ c \in Seq(0 .. (n - 1))
  /\ c # <<>> => \E i \in DOMAIN c : IsNewest(c, i)
WritersHold ==
  /\ DOMAIN writer = Writers /\ writer = [w \in Writers |-> writer[w]]
  /\ \A w \in Writers : writer[w].at # "idle" =>
       /\ writer[w].e \in Events(made)
       /\ \A i \in DOMAIN rows : rows[i].id # writer[w].e.id
       /\ \A v \in Writers : v # w /\ writer[v].at # "idle" => writer[v].e.id # writer[w].e.id
InMemoryHolds ==
  backend = "memory" =>
    /\ counter["other"] = -1 /\ \A w \in Writers : writer[w].at = "idle"
    /\ \A i, j \in DOMAIN rows : i < j => rows[i].seq < rows[j].seq
    /\ \A i \in DOMAIN rows : rows[i].seq <= counter["own"]
    /\ \A i, j \in DOMAIN cps : i < j => cps[i] <= cps[j]
    /\ \A i \in DOMAIN cps : cps[i] <= counter["own"]
ListenerHolds ==
  /\ notices \in Nat /\ (notices > 0 => rows # <<>> /\ heard # <<-1>>)
  /\ fetch = [at |-> fetch.at, seq |-> fetch.seq, missed |-> fetch.missed] /\ fetch.missed \in BOOLEAN
  /\ backend # "postgres" => heard = <<-1>>
  /\ heard = <<-1>> => fetch.at = "idle"
  /\ fetch.at = "asked" => rows # <<>>
  /\ fetch.at = "read" =>
       /\ rows # <<>> /\ \E i \in DOMAIN rows : fetch.seq = rows[i].seq
       /\ \A k \in DOMAIN heard : heard[k] <= fetch.seq
       /\ notices = 0 /\ ~fetch.missed => \E i \in DOMAIN rows : IsLast(rows, i) /\ fetch.seq = rows[i].seq
  /\ heard # <<-1>> =>
       /\ heard \in Seq(Nat)
       /\ \A k \in DOMAIN heard : \E i \in DOMAIN rows : heard[k] = rows[i].seq
       /\ \A k, l \in DOMAIN heard : k < l => heard[k] <= heard[l]
       /\ notices = 0 /\ fetch.at = "idle" /\ ~fetch.missed /\ rows # <<>> =>
            heard # <<>> /\ \E i \in DOMAIN rows : IsLast(rows, i) /\ heard[Len(heard)] = rows[i].seq
StoreInv ==
  /\ made \in Nat /\ made <= LastEvent /\ backend \in {"memory", "sqlite", "postgres"}
  /\ DOMAIN counter = Buses /\ \A b \in Buses : counter[b] \in -1 .. (made - 1)
  /\ RowsHold(rows, made) /\ SavesHold(cps, made)
  /\ WritersHold /\ InMemoryHolds /\ ListenerHolds

-----------------------------------------------------------------------------
LEMMA MaxIs ==
  ASSUME NEW S, S \subseteq Int, NEW x \in S, \A y \in S : x >= y
  PROVE  Stores!Max(S) = x /\ Stores!Protocol!Max(S) = x
<1>1. \A z \in S : (\A y \in S : z >= y) => z = x
  OBVIOUS
<1> DEFINE P(z) == z \in S /\ \A y \in S : z >= y
<1>2. P(x) /\ \A z : P(z) => z = x
  BY <1>1
<1>3. (CHOOSE z \in S : \A y \in S : z >= y) = x
  BY <1>2
<1> QED
  BY <1>3 DEF Stores!Max, Stores!Protocol!Max

LEMMA SameCount == ASSUME NEW S PROVE Stores!Protocol!Cardinality(S) = Cardinality(S)
BY DEF Stores!Protocol!Cardinality, Cardinality

LEMMA Appended ==
  ASSUME NEW R, NEW s \in Seq(R), NEW x \in R
  PROVE  /\ Append(s, x) \in Seq(R) /\ Len(s) \in Nat /\ Len(Append(s, x)) = Len(s) + 1
         /\ DOMAIN s = 1 .. Len(s) /\ DOMAIN Append(s, x) = 1 .. (Len(s) + 1)
         /\ Append(s, x)[Len(s) + 1] = x /\ \A i \in 1 .. Len(s) : Append(s, x)[i] = s[i] /\ s[i] \in R
         /\ Append(s, x) # <<>> /\ (s # <<>> <=> Len(s) > 0)
OBVIOUS

LEMMA EventParts ==
  ASSUME NEW n \in Nat, NEW e \in Events(n)
  PROVE  e.id \in 1 .. n /\ e.seq \in 0 .. (n - 1) /\ e.type \in {"started", "node", "completed"}
BY DEF Events

LEMMA EventsGrow ==
  ASSUME NEW n \in Nat, NEW m \in Nat, n <= m, NEW e \in Events(n)
  PROVE  e \in Events(m)
<1>1. 1 .. n \subseteq 1 .. m /\ 0 .. (n - 1) \subseteq 0 .. (m - 1)
  OBVIOUS
<1> QED
  BY <1>1 DEF Events

LEMMA RowsKept ==
  ASSUME NEW n \in Nat, NEW m \in Nat, n <= m, NEW r, RowsHold(r, n)
  PROVE  RowsHold(r, m)
<1>1. Events(n) \subseteq Events(m)
  BY EventsGrow
<1>2. \A R, S : R \subseteq S => Seq(R) \subseteq Seq(S)
  OBVIOUS
<1> QED
  BY <1>1, <1>2 DEF RowsHold

LEMMA SavesKept ==
  ASSUME NEW n \in Nat, NEW m \in Nat, n <= m, NEW c, SavesHold(c, n)
  PROVE  SavesHold(c, m)
<1>1. 0 .. (n - 1) \subseteq 0 .. (m - 1)
  OBVIOUS
<1>2. \A R, S : R \subseteq S => Seq(R) \subseteq Seq(S)
  OBVIOUS
<1> QED
  BY <1>1, <1>2 DEF SavesHold

(* A row is added of an event that is not stored.                          *)
LEMMA RowAdded ==
  ASSUME NEW n \in Nat, NEW m \in Nat, n <= m, NEW r, RowsHold(r, n), NEW e \in Events(m),
         \A i \in DOMAIN r : r[i].id # e.id
  PROVE  RowsHold(Append(r, e), m) /\ Log(Append(r, e)) = Log(r) \cup {e}
<1> DEFINE s == Append(r, e)
<1>1. r \in Seq(Events(m)) /\ RowsHold(r, m)
  BY RowsKept DEF RowsHold
<1>2. /\ s \in Seq(Events(m)) /\ Len(r) \in Nat /\ Len(s) = Len(r) + 1
      /\ DOMAIN r = 1 .. Len(r) /\ DOMAIN s = 1 .. (Len(r) + 1)
      /\ s[Len(r) + 1] = e /\ \A i \in 1 .. Len(r) : s[i] = r[i] /\ r[i] \in Events(m)
      /\ s # <<>> /\ (r # <<>> <=> Len(r) > 0)
  BY <1>1, Appended
<1> HIDE DEF s
<1>3. ASSUME NEW i \in DOMAIN s, NEW j \in DOMAIN s, s[i].id = s[j].id PROVE i = j
  <2>1. CASE i \in 1 .. Len(r) /\ j \in 1 .. Len(r)
    BY <1>1, <1>2, <1>3, <2>1 DEF RowsHold
  <2>2. CASE i = Len(r) + 1 /\ j \in 1 .. Len(r)
    BY <1>2, <1>3, <2>2
  <2>3. CASE j = Len(r) + 1 /\ i \in 1 .. Len(r)
    BY <1>2, <1>3, <2>3
  <2> QED
    BY <1>2, <2>1, <2>2, <2>3
<1>4. Log(s) = Log(r) \cup {e} /\ e \notin Log(r)
  <2>1. e \notin Log(r)
    BY DEF Log
  <2>2. Log(s) \subseteq Log(r) \cup {e}
    BY <1>2 DEF Log
  <2>3. Log(r) \cup {e} \subseteq Log(s)
    BY <1>2 DEF Log
  <2> QED
    BY <2>1, <2>2, <2>3
<1>5. IsFiniteSet(Log(s)) /\ Cardinality(Log(s)) = Len(s)
  BY <1>1, <1>2, <1>4, FS_AddElement DEF RowsHold
<1>6. \E i \in DOMAIN s : IsLast(s, i)
  <2>0. e.seq \in Int /\ \A i \in DOMAIN r : r[i].seq \in Int
    BY <1>2, EventParts
  <2>1. CASE \A j \in DOMAIN r : r[j].seq <= e.seq
    <3>1. IsLast(s, Len(r) + 1)
      BY <1>2, <2>0, <2>1 DEF IsLast
    <3> QED
      BY <1>2, <3>1
  <2>2. CASE \E j \in DOMAIN r : ~(r[j].seq <= e.seq)
    <3>1. PICK i \in DOMAIN r : IsLast(r, i)
      BY <1>1, <1>2, <2>2 DEF RowsHold
    <3>2. PICK j \in DOMAIN r : ~(r[j].seq <= e.seq)
      BY <2>2
    <3>3. e.seq <= r[i].seq
      BY <2>0, <3>1, <3>2 DEF IsLast
    <3>4. i \in DOMAIN s /\ IsLast(s, i)
      BY <1>2, <3>1, <3>3 DEF IsLast
    <3> QED
      BY <3>4
  <2> QED
    BY <2>1, <2>2
<1> QED
  BY <1>2, <1>3, <1>4, <1>5, <1>6 DEF RowsHold, s

LEMMA SaveAdded ==
  ASSUME NEW n \in Nat, NEW c, SavesHold(c, n), NEW k \in 0 .. (n - 1)
  PROVE  SavesHold(Append(c, k), n)
<1> DEFINE s == Append(c, k)
           R == 0 .. (n - 1)
<1>0. c \in Seq(R) /\ k \in R /\ \A x \in R : x \in Int
  BY DEF SavesHold
<1> HIDE DEF R
<1>1. /\ s \in Seq(R) /\ Len(c) \in Nat /\ Len(s) = Len(c) + 1
      /\ DOMAIN c = 1 .. Len(c) /\ DOMAIN s = 1 .. (Len(c) + 1)
      /\ s[Len(c) + 1] = k /\ \A i \in 1 .. Len(c) : s[i] = c[i] /\ c[i] \in R
      /\ s # <<>> /\ (c # <<>> <=> Len(c) > 0)
  BY <1>0, Appended
<1> HIDE DEF s
<1>2. k \in Int /\ \A i \in DOMAIN c : c[i] \in Int
  BY <1>0, <1>1
<1>3. \E i \in DOMAIN s : IsNewest(s, i)
  <2>1. CASE \A j \in DOMAIN c : c[j] <= k
    <3>1. IsNewest(s, Len(c) + 1)
      BY <1>1, <1>2, <2>1 DEF IsNewest
    <3> QED
      BY <1>1, <3>1
  <2>2. CASE \E j \in DOMAIN c : ~(c[j] <= k)
    <3>1. PICK i \in DOMAIN c : IsNewest(c, i)
      BY <1>1, <2>2 DEF SavesHold
    <3>2. PICK j \in DOMAIN c : ~(c[j] <= k)
      BY <2>2
    <3>3. k < c[i]
      BY <1>2, <3>1, <3>2 DEF IsNewest
    <3>4. i \in DOMAIN s /\ IsNewest(s, i)
      BY <1>1, <1>2, <3>1, <3>3 DEF IsNewest
    <3> QED
      BY <3>4
  <2> QED
    BY <2>1, <2>2
<1> QED
  BY <1>1, <1>3 DEF SavesHold, s, R

-----------------------------------------------------------------------------
(* Reading: what the protocol says is told.                                *)
LEMMA NewestIs ==
  ASSUME NEW n \in Nat, SavesHold(cps, n), NEW i \in DOMAIN cps, IsNewest(cps, i)
  PROVE  /\ Stores!Max({j \in DOMAIN cps : cps[j] = Stores!Max(Stores!ToSet(cps))}) = i
         /\ Stores!Protocol!Max({j \in DOMAIN cps :
              cps[j] = Stores!Protocol!Max(Stores!Protocol!ToSet(cps))}) = i
<1>1. DOMAIN cps \subseteq Int /\ \A j \in DOMAIN cps : cps[j] \in Int
  BY DEF SavesHold
<1> DEFINE S == {cps[j] : j \in DOMAIN cps}
           T == {j \in DOMAIN cps : cps[j] = cps[i]}
<1>2. Stores!Max(S) = cps[i] /\ Stores!Protocol!Max(S) = cps[i]
  <2>1. S \subseteq Int /\ cps[i] \in S /\ \A y \in S : cps[i] >= y
    BY <1>1 DEF IsNewest
  <2> HIDE DEF S
  <2> QED
    BY <2>1, MaxIs
<1>3. Stores!Max(T) = i /\ Stores!Protocol!Max(T) = i
  <2>1. T \subseteq Int /\ i \in T
    BY <1>1
  <2>2. \A j \in T : i >= j
    BY <1>1 DEF IsNewest
  <2> HIDE DEF T
  <2> QED
    BY <2>1, <2>2, MaxIs
<1>4. Stores!ToSet(cps) = S /\ Stores!Protocol!ToSet(cps) = S
  BY DEF Stores!ToSet, Stores!Protocol!ToSet
<1> HIDE DEF S
<1> QED
  BY <1>2, <1>3, <1>4

LEMMA NewestTold ==
  ASSUME StoreInv
  PROVE  /\ cps = <<>> => Stores!Newest = 0
         /\ cps # <<>> =>
              /\ Stores!Newest \in DOMAIN cps
              /\ Stores!Newest = Stores!Protocol!Max({j \in DOMAIN cps :
                   cps[j] = Stores!Protocol!Max(Stores!Protocol!ToSet(cps))})
<1> SUFFICES ASSUME cps # <<>>
             PROVE  /\ Stores!Newest \in DOMAIN cps
                    /\ Stores!Newest = Stores!Protocol!Max({j \in DOMAIN cps :
                         cps[j] = Stores!Protocol!Max(Stores!Protocol!ToSet(cps))})
  BY DEF Stores!Newest
<1>0. made \in Nat /\ SavesHold(cps, made)
  BY DEF StoreInv
<1>1. CASE Stores!Sql
  <2>1. PICK i \in DOMAIN cps : IsNewest(cps, i)
    BY <1>0 DEF SavesHold
  <2> QED
    BY <1>0, <1>1, <2>1, NewestIs DEF Stores!Newest
<1>2. CASE ~Stores!Sql
  <2>1. cps \in Seq(0 .. (made - 1)) /\ \A i, j \in DOMAIN cps : i < j => cps[i] <= cps[j]
    BY <1>0, <1>2 DEF SavesHold, StoreInv, InMemoryHolds, Stores!Sql
  <2>2. /\ Len(cps) \in DOMAIN cps /\ \A j \in DOMAIN cps : j <= Len(cps)
        /\ \A j \in DOMAIN cps : cps[j] \in Int /\ j \in Int /\ Len(cps) \in Int
    <3>1. \A R, c : c \in Seq(R) /\ c # <<>> =>
            /\ Len(c) \in DOMAIN c /\ Len(c) \in Int
            /\ \A j \in DOMAIN c : j <= Len(c) /\ j \in Int /\ c[j] \in R
      OBVIOUS
    <3>2. \A k \in 0 .. (made - 1) : k \in Int
      OBVIOUS
    <3> QED
      BY <2>1, <3>1, <3>2
  <2>3. IsNewest(cps, Len(cps))
    BY <2>1, <2>2 DEF IsNewest
  <2> QED
    BY <1>0, <1>2, <2>2, <2>3, NewestIs DEF Stores!Newest
<1> QED
  BY <1>1, <1>2

LEMMA LatestIsTold == StoreInv /\ Stores!GetLatest => Stores!Protocol!PRead
<1> SUFFICES ASSUME StoreInv, Stores!GetLatest PROVE Stores!Protocol!PRead
  OBVIOUS
<1>1. told' = [Stores!NoAnswer EXCEPT !.newest = Stores!Newest] /\ UNCHANGED <<rows, cps, status, open>>
  BY DEF Stores!GetLatest
<1>2. Stores!Newest = IF cps = <<>> THEN 0
                      ELSE Stores!Protocol!Max({j \in DOMAIN cps :
                             cps[j] = Stores!Protocol!Max(Stores!Protocol!ToSet(cps))})
  BY NewestTold
<1>3. Stores!Protocol!PGetLatest
  BY <1>1, <1>2 DEF Stores!Protocol!PGetLatest, Stores!Protocol!NoAnswer, Stores!NoAnswer
<1> QED
  BY <1>1, <1>3 DEF Stores!Protocol!PRead, Stores!ToSet

LEMMA ListingIsTold == StoreInv /\ Stores!ListRuns => Stores!Protocol!PRead
<1> SUFFICES ASSUME StoreInv, Stores!ListRuns PROVE Stores!Protocol!PRead
  OBVIOUS
<1>1. told' = [Stores!NoAnswer EXCEPT !.listing = Stores!Listing] /\ UNCHANGED <<rows, cps, status, open>>
  BY DEF Stores!ListRuns
<1>2. Len(rows) = Stores!Protocol!Cardinality(Stores!ToSet(rows))
  BY SameCount DEF StoreInv, RowsHold, Log, Stores!ToSet
<1>3. Stores!Protocol!PListRuns
  BY <1>1, <1>2 DEF Stores!Protocol!PListRuns, Stores!Listing, Stores!Protocol!NoAnswer, Stores!NoAnswer
<1> QED
  BY <1>1, <1>3 DEF Stores!Protocol!PRead, Stores!ToSet

LEMMA EventsAreTold == StoreInv /\ Stores!GetEvents => Stores!Protocol!PRead
<1> SUFFICES ASSUME StoreInv, Stores!GetEvents PROVE Stores!Protocol!PRead
  OBVIOUS
<1>0. LastEvent \in Nat
  BY AgentsAssumption DEF Stores!StoresAssumption
<1>1. UNCHANGED <<rows, cps, status, open>>
  BY DEF Stores!GetEvents
<1>2. CASE backend = "sqlite" /\ ~open /\ told' = Stores!NoAnswer
  <2>1. told' = [Stores!Protocol!NoAnswer EXCEPT !.events = <<>>] /\ told'.events = <<>>
    BY <1>2 DEF Stores!NoAnswer, Stores!Protocol!NoAnswer
  <2>2. Stores!Protocol!IsOrdered(<<>>)
    BY DEF Stores!Protocol!IsOrdered, Stores!Protocol!IsInjective
  <2>3. -1 \in -1 .. LastEvent
    BY <1>0
  <2> QED
    BY <1>1, <1>2, <2>1, <2>2, <2>3 DEF Stores!Protocol!PRead, Stores!Protocol!PGetEvents, Stores!ToSet
<1>3. ASSUME NEW after \in {-1, 0},
             NEW place \in Stores!Bijection(1 .. Stores!Cardinality({i \in DOMAIN rows : rows[i].seq > after}),
                                            {i \in DOMAIN rows : rows[i].seq > after}),
             \A i, j \in DOMAIN place : i < j => Stores!Before(place[i], place[j]),
             told' = [Stores!NoAnswer EXCEPT !.events = [i \in DOMAIN place |-> rows[place[i]]]]
      PROVE  Stores!Protocol!PRead
  <2> DEFINE kept == {i \in DOMAIN rows : rows[i].seq > after}
             n == Stores!Cardinality(kept)
             found == [i \in DOMAIN place |-> rows[place[i]]]
  <2>1. /\ place \in [1 .. n -> kept] /\ DOMAIN place = 1 .. n
        /\ \A i, j \in DOMAIN place : place[i] = place[j] => i = j
        /\ \A k \in kept : \E i \in DOMAIN place : place[i] = k
    BY DEF Stores!Bijection, Stores!Injection, Stores!Surjection, Stores!IsInjective
  <2> HIDE DEF n
  <2>2. /\ \A i \in DOMAIN place : place[i] \in DOMAIN rows /\ rows[place[i]].seq > after
        /\ \A k \in DOMAIN rows : rows[k].seq > after => \E i \in DOMAIN place : place[i] = k
    BY <2>1
  <2> HIDE DEF kept
  <2>3. DOMAIN found = DOMAIN place /\ \A i \in DOMAIN place : found[i] = rows[place[i]]
    OBVIOUS
  <2>4. told' = [Stores!Protocol!NoAnswer EXCEPT !.events = found] /\ told'.events = found
    BY <1>3 DEF Stores!NoAnswer, Stores!Protocol!NoAnswer
  <2> HIDE DEF found
  <2>5. Stores!Protocol!ToSet(found) = {e \in Stores!ToSet(rows) : e.seq > after}
    BY <2>2, <2>3 DEF Stores!Protocol!ToSet, Stores!ToSet
  <2>6. Stores!Protocol!IsOrdered(found)
    <3>1. Stores!Protocol!IsInjective(found)
      <4>1. \A i, j \in DOMAIN rows : rows[i] = rows[j] => i = j
        BY DEF StoreInv, RowsHold
      <4> QED
        BY <2>1, <2>2, <2>3, <4>1 DEF Stores!Protocol!IsInjective
    <3>2. ASSUME NEW i \in DOMAIN place, NEW j \in DOMAIN place, i < j
          PROVE  rows[place[i]].seq <= rows[place[j]].seq
      <4>1. Stores!Before(place[i], place[j])
        BY <1>3, <3>2
      <4>2. CASE Stores!Sql
        BY <4>1, <4>2 DEF Stores!Before
      <4>3. CASE ~Stores!Sql
        <5>1. rows[place[i]].seq < rows[place[j]].seq
          BY <2>2, <4>1, <4>3 DEF Stores!Before, Stores!Sql, StoreInv, InMemoryHolds
        <5>2. \A m \in DOMAIN rows : rows[m].seq \in Int
          <6>1. made \in Nat /\ \A m \in DOMAIN rows : rows[m] \in Events(made)
            BY DEF StoreInv, RowsHold
          <6> QED
            BY <6>1, EventParts
        <5> QED
          BY <2>2, <5>1, <5>2
      <4> QED
        BY <4>2, <4>3
    <3> QED
      BY <2>3, <3>1, <3>2 DEF Stores!Protocol!IsOrdered
  <2>7. after \in -1 .. LastEvent
    BY <1>0
  <2>8. Stores!Protocol!PGetEvents
    BY <2>4, <2>5, <2>6, <2>7 DEF Stores!Protocol!PGetEvents
  <2> QED
    BY <1>1, <2>8 DEF Stores!Protocol!PRead, Stores!ToSet
<1> QED
  BY <1>2, <1>3 DEF Stores!GetEvents

-----------------------------------------------------------------------------
(* Appending: each append stores an event that is new to the log.          *)
LEMMA AppendIsOne ==
  ASSUME RowsHold(rows, made), made \in Nat, NEW m \in Nat, made <= m, m <= LastEvent,
         NEW e \in Events(m), \A i \in DOMAIN rows : rows[i].id # e.id,
         Stores!Stored(e), UNCHANGED <<cps, open, told>>
  PROVE  Stores!Protocol!PAppend
<1>0. LastEvent \in Nat
  BY AgentsAssumption DEF Stores!StoresAssumption
<1>1. rows' = Append(rows, e) /\ status' = Stores!StatusAfter(e)
  BY DEF Stores!Stored
<1>2. Log(rows') = Log(rows) \cup {e}
  BY <1>1, RowAdded
<1>3. e \in [id : 1 .. LastEvent, seq : 0 .. LastEvent, type : {"started", "node", "completed"}]
  <2>1. 1 .. m \subseteq 1 .. LastEvent /\ 0 .. (m - 1) \subseteq 0 .. LastEvent
    BY <1>0
  <2> QED
    BY <2>1 DEF Events
<1>4. Stores!ToSet(rows)' = Stores!ToSet(rows) \cup {e}
  BY <1>2 DEF Log, Stores!ToSet
<1>5. e.id \notin {o.id : o \in Stores!ToSet(rows)}
  BY DEF Stores!ToSet
<1>6. status' \in {status, "running", "completed"}
  BY <1>1 DEF Stores!StatusAfter
<1> QED
  BY <1>3, <1>4, <1>5, <1>6 DEF Stores!Protocol!PAppend

LEMMA WriterSet ==
  ASSUME WritersHold, NEW w \in Writers, NEW now, writer' = [writer EXCEPT ![w] = now]
  PROVE  /\ DOMAIN writer' = Writers /\ writer' = [v \in Writers |-> writer'[v]]
         /\ writer'[w] = now /\ \A v \in Writers : v # w => writer'[v] = writer[v]
BY DEF WritersHold

LEMMA FreshId ==
  ASSUME StoreInv
  PROVE  /\ \A i \in DOMAIN rows : rows[i] \in Events(made) /\ rows[i].id \in 1 .. made
              /\ rows[i].seq \in 0 .. (made - 1)
         /\ \A v \in Writers : writer[v].at # "idle" => writer[v].e.id \in 1 .. made
<1>1. made \in Nat /\ \A i \in DOMAIN rows : rows[i] \in Events(made)
  BY DEF StoreInv, RowsHold
<1>2. \A v \in Writers : writer[v].at # "idle" => writer[v].e \in Events(made)
  BY DEF StoreInv, WritersHold
<1> QED
  BY <1>1, <1>2, EventParts

(* A number is taken; in memory the event is stored at once.               *)
LEMMA NumberSteps ==
  ASSUME StoreInv, NEW w \in Writers, Stores!Number(w)
  PROVE  StoreInv' /\ (Stores!Protocol!PAppend \/ UNCHANGED Stores!Protocol!pVars)
<1> DEFINE b == Stores!Bus(w)
           m == made + 1
<1>0. /\ made \in Nat /\ made < LastEvent /\ LastEvent \in Nat /\ b \in Buses
      /\ counter[b] \in -1 .. (made - 1) /\ DOMAIN counter = Buses
  BY AgentsAssumption DEF Stores!StoresAssumption, StoreInv, Stores!Number, Stores!Bus, Buses
<1>1. PICK type \in {"started", "completed", "node"} :
        LET e == [id |-> m, seq |-> counter[b] + 1, type |-> type] IN
        /\ IF Stores!InSteps
           THEN /\ writer' = [writer EXCEPT ![w] = [at |-> "numbered", e |-> e]]
                /\ UNCHANGED <<rows, status>>
           ELSE Stores!Stored(e) /\ UNCHANGED writer
        /\ counter' = [counter EXCEPT ![b] = e.seq]
  BY DEF Stores!Number
<1> DEFINE e == [id |-> m, seq |-> counter[b] + 1, type |-> type]
<1>2. /\ made' = m /\ UNCHANGED <<backend, open, cps, notices, fetch, heard, told>>
      /\ writer[w].at = "idle" /\ (w = Rival => counter["other"] >= 0)
  BY DEF Stores!Number, Stores!listener
<1>3. m \in Nat /\ made <= m /\ m <= LastEvent /\ m \notin 1 .. made
  BY <1>0
<1>4. e.id = m /\ e.seq = counter[b] + 1
  OBVIOUS
<1>5. e \in Events(m)
  <2>1. m \in 1 .. m /\ counter[b] + 1 \in 0 .. (m - 1)
    BY <1>0
  <2> QED
    BY <2>1 DEF Events
<1>6. counter' = [counter EXCEPT ![b] = e.seq]
  BY <1>1
<1>7. /\ Stores!InSteps => /\ writer' = [writer EXCEPT ![w] = [at |-> "numbered", e |-> e]]
                           /\ UNCHANGED <<rows, status>>
      /\ ~Stores!InSteps => Stores!Stored(e) /\ UNCHANGED writer
  BY <1>1
<1> HIDE DEF e
<1>8. /\ DOMAIN counter' = Buses /\ counter'[b] = counter[b] + 1
      /\ \A a \in Buses : a # b => counter'[a] = counter[a]
      /\ \A a \in Buses : counter'[a] \in -1 .. (m - 1)
  <2>1. \A a \in Buses : counter[a] \in -1 .. (made - 1)
    BY DEF StoreInv
  <2>2. DOMAIN counter' = Buses /\ counter'[b] = e.seq /\ \A a \in Buses : a # b => counter'[a] = counter[a]
    BY <1>0, <1>6
  <2> QED
    BY <1>0, <1>4, <2>1, <2>2
<1>9. /\ \A i \in DOMAIN rows : rows[i].id # e.id
      /\ \A v \in Writers : writer[v].at # "idle" => writer[v].e.id # e.id
  BY <1>3, <1>4, FreshId
<1>10. SavesHold(cps, m) /\ RowsHold(rows, made) /\ RowsHold(rows, m)
  BY <1>0, <1>3, SavesKept, RowsKept DEF StoreInv
<1>11. CASE Stores!InSteps
  <2>1. /\ DOMAIN writer' = Writers /\ writer' = [v \in Writers |-> writer'[v]]
        /\ writer'[w] = [at |-> "numbered", e |-> e] /\ \A v \in Writers : v # w => writer'[v] = writer[v]
    BY <1>7, <1>11, WriterSet DEF StoreInv
  <2>2. writer'[w].e = e
    BY <2>1
  <2>3. UNCHANGED <<rows, status>>
    BY <1>7, <1>11
  <2>4. \A v \in Writers : v # w /\ writer'[v].at # "idle" =>
          /\ writer'[v].e = writer[v].e /\ writer[v].at # "idle"
          /\ writer[v].e \in Events(m) /\ writer[v].e.id # e.id
    <3>1. \A v \in Writers : writer[v].at # "idle" => writer[v].e \in Events(made)
      BY DEF StoreInv, WritersHold
    <3> QED
      BY <1>0, <1>3, <1>9, <2>1, <3>1, EventsGrow
  <2>5. WritersHold'
    <3>1. ASSUME NEW v \in Writers, writer'[v].at # "idle"
          PROVE  /\ writer'[v].e \in Events(m)
                 /\ \A i \in DOMAIN rows : rows[i].id # writer'[v].e.id
      BY <1>5, <1>9, <2>2, <2>4, <3>1 DEF StoreInv, WritersHold
    <3>2. ASSUME NEW v \in Writers, writer'[v].at # "idle", NEW u \in Writers, u # v, writer'[u].at # "idle"
          PROVE  writer'[u].e.id # writer'[v].e.id
      <4>1. CASE v = w
        BY <2>2, <2>4, <3>2, <4>1
      <4>2. CASE u = w
        BY <2>2, <2>4, <3>2, <4>2
      <4>3. CASE u # w /\ v # w
        BY <2>4, <3>2, <4>3 DEF StoreInv, WritersHold
      <4> QED
        BY <4>1, <4>2, <4>3
    <3> QED
      BY <1>2, <2>1, <2>3, <3>1, <3>2 DEF WritersHold, Writers, Stores!Writers
  <2>6. InMemoryHolds'
    BY <1>2, <1>11 DEF InMemoryHolds, Stores!InSteps, Stores!Sql
  <2>7. ListenerHolds'
    BY <1>2, <2>3 DEF StoreInv, ListenerHolds, IsLast
  <2>8. StoreInv'
    BY <1>2, <1>3, <1>8, <1>10, <2>3, <2>5, <2>6, <2>7 DEF StoreInv
  <2>9. UNCHANGED Stores!Protocol!pVars
    BY <1>2, <2>3 DEF Stores!Protocol!pVars, Stores!ToSet
  <2> QED
    BY <2>8, <2>9
<1>12. CASE ~Stores!InSteps
  <2>1. Stores!Stored(e) /\ UNCHANGED writer /\ rows' = Append(rows, e) /\ backend = "memory"
    BY <1>7, <1>12 DEF Stores!Stored, Stores!InSteps, Stores!Sql
  <2>2. RowsHold(rows', m)
    BY <1>0, <1>3, <1>5, <1>9, <1>10, <2>1, RowAdded
  <2>3. b = "own" /\ counter["other"] = -1
    BY <1>2, <2>1 DEF StoreInv, InMemoryHolds, Stores!Bus
  <2>4. /\ DOMAIN rows = 1 .. Len(rows) /\ DOMAIN rows' = 1 .. (Len(rows) + 1) /\ Len(rows) \in Nat
        /\ rows'[Len(rows) + 1] = e /\ \A i \in 1 .. Len(rows) : rows'[i] = rows[i]
    <3>1. rows \in Seq(Events(m))
      BY <1>10 DEF RowsHold
    <3> QED
      BY <1>5, <2>1, <3>1, Appended
  <2>5. \A i \in DOMAIN rows : rows[i].seq \in Int /\ rows[i].seq < e.seq
    BY <1>0, <1>4, <2>1, <2>3, FreshId DEF StoreInv, InMemoryHolds
  <2>6. InMemoryHolds'
    <3>1. counter'["other"] = -1 /\ counter'["own"] = e.seq /\ e.seq \in Int /\ counter["own"] < e.seq
      BY <1>0, <1>4, <1>8, <2>3 DEF Buses
    <3>2. \A i, j \in DOMAIN rows' : i < j => rows'[i].seq < rows'[j].seq
      <4>1. \A i, j \in DOMAIN rows : i < j => rows[i].seq < rows[j].seq
        BY <2>1 DEF StoreInv, InMemoryHolds
      <4> QED
        BY <2>4, <2>5, <4>1
    <3>3. \A i \in DOMAIN rows' : rows'[i].seq <= counter'["own"]
      BY <2>4, <2>5, <3>1
    <3>4. \A i \in DOMAIN cps : cps[i] <= counter'["own"]
      <4>1. \A i \in DOMAIN cps : cps[i] <= counter["own"] /\ cps[i] \in Int
        BY <2>1 DEF StoreInv, InMemoryHolds, SavesHold
      <4> QED
        BY <1>0, <2>3, <3>1, <4>1
    <3>5. /\ \A v \in Writers : writer'[v].at = "idle"
          /\ \A i, j \in DOMAIN cps : i < j => cps[i] <= cps[j]
      BY <2>1 DEF StoreInv, InMemoryHolds
    <3> QED
      BY <1>2, <3>1, <3>2, <3>3, <3>4, <3>5 DEF InMemoryHolds, Writers, Stores!Writers
  <2>7. WritersHold' /\ ListenerHolds'
    <3>1. \A v \in Writers : writer'[v].at = "idle"
      BY <2>1 DEF StoreInv, InMemoryHolds
    <3>2. WritersHold'
      BY <2>1, <3>1 DEF StoreInv, WritersHold, Writers, Stores!Writers
    <3>3. /\ heard = <<-1>> /\ notices = 0 /\ fetch.at = "idle"
          /\ fetch = [at |-> fetch.at, seq |-> fetch.seq, missed |-> fetch.missed] /\ fetch.missed \in BOOLEAN
      BY <2>1 DEF StoreInv, ListenerHolds
    <3> QED
      BY <1>2, <3>2, <3>3 DEF ListenerHolds
  <2>8. StoreInv'
    BY <1>2, <1>3, <1>8, <1>10, <2>2, <2>6, <2>7 DEF StoreInv
  <2>9. Stores!Protocol!PAppend
    BY <1>0, <1>2, <1>3, <1>5, <1>9, <1>10, <2>1, AppendIsOne
  <2> QED
    BY <2>8, <2>9
<1> QED
  BY <1>11, <1>12

(* A writer becomes idle: what the others are writing stays new.           *)
LEMMA IdleKeeps ==
  ASSUME StoreInv, NEW w \in Writers, Stores!Idle(w), made' = made,
         \A i \in DOMAIN rows' : \A v \in Writers :
           v # w /\ writer[v].at # "idle" => rows'[i].id # writer[v].e.id
  PROVE  WritersHold'
<1>1. /\ DOMAIN writer' = Writers /\ writer' = [v \in Writers |-> writer'[v]]
      /\ writer'[w] = [at |-> "idle", e |-> Stores!NoEvent]
      /\ \A v \in Writers : v # w => writer'[v] = writer[v]
  BY WriterSet DEF StoreInv, Stores!Idle
<1>2. writer'[w].at = "idle"
  BY <1>1
<1>3. \A v \in Writers : writer'[v].at # "idle" => v # w /\ writer'[v] = writer[v]
  BY <1>1, <1>2
<1>4. \A v \in Writers : writer'[v].at # "idle" =>
       /\ writer'[v].e \in Events(made)
       /\ \A i \in DOMAIN rows' : rows'[i].id # writer'[v].e.id
       /\ \A u \in Writers : u # v /\ writer'[u].at # "idle" => writer'[u].e.id # writer'[v].e.id
  BY <1>3 DEF StoreInv, WritersHold
<1> QED
  BY <1>1, <1>4 DEF WritersHold, Writers, Stores!Writers

(* A statement or a transaction stores the event that was numbered.        *)
LEMMA RowIsStored ==
  ASSUME StoreInv, NEW w \in Writers, writer[w].at # "idle", Stores!Stored(writer[w].e), Stores!Idle(w),
         UNCHANGED <<made, backend, counter, cps, open, told, heard>>,
         ListenerHolds'
  PROVE  StoreInv' /\ Stores!Protocol!PAppend
<1> DEFINE e == writer[w].e
<1>0. made \in Nat /\ made <= LastEvent /\ RowsHold(rows, made)
  BY DEF StoreInv
<1>1. e \in Events(made) /\ \A i \in DOMAIN rows : rows[i].id # e.id
  BY DEF StoreInv, WritersHold
<1>2. \A v \in Writers : v # w /\ writer[v].at # "idle" => writer[v].e.id # e.id
  BY DEF StoreInv, WritersHold
<1> HIDE DEF e
<1>3. rows' = Append(rows, e)
  BY DEF Stores!Stored, e
<1>4. RowsHold(rows', made)
  BY <1>0, <1>1, <1>3, RowAdded
<1>5. /\ DOMAIN rows = 1 .. Len(rows) /\ DOMAIN rows' = 1 .. (Len(rows) + 1)
      /\ rows'[Len(rows) + 1] = e /\ \A i \in 1 .. Len(rows) : rows'[i] = rows[i]
  BY <1>0, <1>1, <1>3, Appended DEF RowsHold
<1>6. ASSUME NEW i \in DOMAIN rows', NEW v \in Writers, v # w, writer[v].at # "idle"
      PROVE  rows'[i].id # writer[v].e.id
  <2>1. CASE i = Len(rows) + 1
    BY <1>2, <1>5, <1>6, <2>1
  <2>2. CASE i # Len(rows) + 1
    <3>1. i \in DOMAIN rows /\ rows'[i] = rows[i]
      BY <1>0, <1>5, <2>2 DEF RowsHold
    <3> QED
      BY <1>6, <3>1 DEF StoreInv, WritersHold
  <2> QED
    BY <2>1, <2>2
<1>7. WritersHold'
  BY <1>6, IdleKeeps
<1>8. InMemoryHolds'
  BY DEF StoreInv, InMemoryHolds
<1>9. StoreInv'
  BY <1>0, <1>4, <1>7, <1>8 DEF StoreInv
<1>10. Stores!Protocol!PAppend
  BY <1>0, <1>1, AppendIsOne DEF e
<1> QED
  BY <1>9, <1>10

LEMMA WriteSteps ==
  ASSUME StoreInv, NEW w \in Writers, Stores!Write(w)
  PROVE  StoreInv' /\ Stores!Protocol!PAppend
<1>1. /\ backend # "postgres" /\ writer[w].at # "idle" /\ Stores!Stored(writer[w].e) /\ Stores!Idle(w)
      /\ UNCHANGED <<made, backend, counter, cps, open, told, heard, fetch, notices>>
  BY DEF Stores!Write, Stores!listener
<1>2. ListenerHolds'
  BY <1>1 DEF StoreInv, ListenerHolds
<1> QED
  BY <1>1, <1>2, RowIsStored

LEMMA CommitSteps ==
  ASSUME StoreInv, NEW w \in Writers, Stores!Commit(w)
  PROVE  StoreInv' /\ Stores!Protocol!PAppend
<1>1. /\ backend = "postgres" /\ writer[w].at # "idle" /\ Stores!Stored(writer[w].e) /\ Stores!Idle(w)
      /\ UNCHANGED <<made, backend, counter, cps, open, told, heard, fetch>>
      /\ notices' = IF heard # <<-1>> /\ fetch.at # "gone" THEN notices + 1 ELSE notices
  BY DEF Stores!Commit
<1>2. rows' = Append(rows, writer[w].e) /\ rows \in Seq(Events(made)) /\ writer[w].e \in Events(made)
  BY <1>1 DEF Stores!Stored, StoreInv, RowsHold, WritersHold
<1>3. /\ rows' # <<>> /\ DOMAIN rows = 1 .. Len(rows) /\ Len(rows) \in Nat
      /\ DOMAIN rows' = 1 .. (Len(rows) + 1) /\ \A i \in 1 .. Len(rows) : rows'[i] = rows[i]
  BY <1>2, Appended
<1>4. ListenerHolds'
  <2>1. notices' \in Nat /\ (notices' > 0 => heard # <<-1>>) /\ (heard # <<-1>> /\ fetch.at # "gone" => notices' # 0)
    BY <1>1 DEF StoreInv, ListenerHolds
  <2>2. /\ heard # <<-1>> => \A k \in DOMAIN heard : \E i \in DOMAIN rows' : heard[k] = rows'[i].seq
        /\ fetch.at = "read" => \E i \in DOMAIN rows' : fetch.seq = rows'[i].seq
    <3>1. /\ heard # <<-1>> => \A k \in DOMAIN heard : \E i \in DOMAIN rows : heard[k] = rows[i].seq
          /\ fetch.at = "read" => \E i \in DOMAIN rows : fetch.seq = rows[i].seq
      BY DEF StoreInv, ListenerHolds
    <3> QED
      BY <1>3, <3>1
  <2> QED
    BY <1>1, <1>3, <2>1, <2>2 DEF StoreInv, ListenerHolds
<1> QED
  BY <1>1, <1>4, RowIsStored

(* Steps of a writer that store nothing.                                   *)
LEMMA InsertSteps ==
  ASSUME StoreInv, NEW w \in Writers, Stores!Insert(w)
  PROVE  StoreInv' /\ UNCHANGED Stores!Protocol!pVars
<1>1. /\ writer' = [writer EXCEPT ![w].at = "inserted"] /\ writer[w].at = "numbered" /\ backend = "postgres"
      /\ UNCHANGED <<backend, open, counter, made, rows, cps, status, notices, fetch, heard, told>>
  BY DEF Stores!Insert, Stores!listener
<1>2. writer' = [writer EXCEPT ![w] = [writer[w] EXCEPT !.at = "inserted"]]
  BY <1>1
<1>3. /\ DOMAIN writer' = Writers /\ writer' = [v \in Writers |-> writer'[v]]
      /\ writer'[w] = [writer[w] EXCEPT !.at = "inserted"] /\ \A v \in Writers : v # w => writer'[v] = writer[v]
  BY <1>2, WriterSet DEF StoreInv
<1>4. writer'[w].e = writer[w].e
  BY <1>3
<1>5. \A v \in Writers : writer'[v].at # "idle" => writer[v].at # "idle" /\ writer'[v].e = writer[v].e
  BY <1>1, <1>3, <1>4
<1>6. \A v \in Writers : writer'[v].at # "idle" =>
       /\ writer'[v].e \in Events(made)
       /\ \A i \in DOMAIN rows : rows[i].id # writer'[v].e.id
       /\ \A u \in Writers : u # v /\ writer'[u].at # "idle" => writer'[u].e.id # writer'[v].e.id
  BY <1>5 DEF StoreInv, WritersHold
<1>7. WritersHold'
  BY <1>1, <1>3, <1>6 DEF WritersHold, Writers, Stores!Writers
<1>8. InMemoryHolds' /\ ListenerHolds'
  BY <1>1 DEF StoreInv, InMemoryHolds, ListenerHolds, IsLast
<1> QED
  BY <1>1, <1>7, <1>8 DEF StoreInv, Stores!Protocol!pVars, Stores!ToSet

LEMMA AppendFailsSteps ==
  ASSUME StoreInv, NEW w \in Writers, Stores!AppendFails(w)
  PROVE  StoreInv' /\ UNCHANGED Stores!Protocol!pVars
<1>1. /\ Stores!Idle(w) /\ backend # "memory"
      /\ UNCHANGED <<backend, open, counter, made, rows, cps, status, notices, fetch, heard, told>>
  BY DEF Stores!AppendFails, Stores!listener, Stores!Sql
<1>2. \A i \in DOMAIN rows : \A v \in Writers :
        v # w /\ writer[v].at # "idle" => rows[i].id # writer[v].e.id
  BY DEF StoreInv, WritersHold
<1>3. WritersHold'
  BY <1>1, <1>2, IdleKeeps
<1>4. InMemoryHolds' /\ ListenerHolds'
  BY <1>1 DEF StoreInv, InMemoryHolds, ListenerHolds, IsLast
<1> QED
  BY <1>1, <1>3, <1>4 DEF StoreInv, Stores!Protocol!pVars, Stores!ToSet

-----------------------------------------------------------------------------
(* Checkpoints, the status and the listener.                               *)
LEMMA SaveSteps ==
  ASSUME StoreInv, NEW b \in Buses, Stores!Save(b)
  PROVE  StoreInv' /\ Stores!Protocol!PSave
<1> DEFINE k == counter[b]
<1>0. made \in Nat /\ made <= LastEvent /\ LastEvent \in Nat /\ k \in -1 .. (made - 1)
  BY AgentsAssumption DEF Stores!StoresAssumption, StoreInv
<1>1. /\ cps' = Append(cps, k) /\ k >= 0
      /\ UNCHANGED <<backend, open, counter, made, writer, rows, status, notices, fetch, heard, told>>
  BY DEF Stores!Save, Stores!listener
<1>2. k \in 0 .. (made - 1) /\ k \in 0 .. LastEvent /\ SavesHold(cps, made)
  <2>1. k \in 0 .. (made - 1) /\ k \in 0 .. LastEvent
    <3> HIDE DEF k
    <3> QED
      BY <1>0, <1>1
  <2> QED
    BY <2>1 DEF StoreInv
<1>3. Stores!Protocol!PSave
  BY <1>1, <1>2 DEF Stores!Protocol!PSave, Stores!ToSet
<1>4. SavesHold(cps', made)
  <2> HIDE DEF k
  <2> QED
    BY <1>0, <1>1, <1>2, SaveAdded
<1>5. ASSUME backend = "memory" PROVE InMemoryHolds'
  <2>1. b = "own" /\ InMemoryHolds
    BY <1>1, <1>5 DEF StoreInv, InMemoryHolds, Buses
  <2>2. /\ \A i, j \in DOMAIN cps : i < j => cps[i] <= cps[j]
        /\ \A i \in DOMAIN cps : cps[i] <= k
    BY <1>5, <2>1 DEF InMemoryHolds
  <2> HIDE DEF k
  <2>3. /\ DOMAIN cps = 1 .. Len(cps) /\ DOMAIN cps' = 1 .. (Len(cps) + 1) /\ Len(cps) \in Nat
        /\ cps'[Len(cps) + 1] = k /\ \A i \in 1 .. Len(cps) : cps'[i] = cps[i]
    BY <1>1, <1>2, Appended DEF SavesHold
  <2>4. k <= k
    BY <1>0
  <2>5. \A i, j \in DOMAIN cps' : i < j => cps'[i] <= cps'[j]
    BY <2>2, <2>3
  <2>6. \A i \in DOMAIN cps' : cps'[i] <= k
    BY <2>2, <2>3, <2>4
  <2>7. k = counter'["own"]
    BY <1>1, <2>1 DEF k
  <2> QED
    BY <1>1, <1>5, <2>1, <2>5, <2>6, <2>7 DEF InMemoryHolds, Writers, Stores!Writers
<1>6. InMemoryHolds'
  BY <1>1, <1>5 DEF InMemoryHolds
<1>7. WritersHold' /\ ListenerHolds'
  BY <1>1 DEF StoreInv, WritersHold, ListenerHolds, IsLast, Writers, Stores!Writers
<1> QED
  BY <1>1, <1>3, <1>4, <1>6, <1>7 DEF StoreInv

LEMMA SeedSteps == StoreInv /\ Stores!SeedRival => StoreInv' /\ UNCHANGED Stores!Protocol!pVars
<1> SUFFICES ASSUME StoreInv, Stores!SeedRival PROVE StoreInv' /\ UNCHANGED Stores!Protocol!pVars
  OBVIOUS
<1>1. /\ backend # "memory" /\ cps # <<>> /\ counter' = [counter EXCEPT !["other"] = cps[Stores!Newest]]
      /\ UNCHANGED <<backend, open, made, writer, rows, cps, status, notices, fetch, heard, told>>
  BY DEF Stores!SeedRival, Stores!Sql, Stores!listener
<1>2. cps[Stores!Newest] \in -1 .. (made - 1)
  <2>1. Stores!Newest \in DOMAIN cps
    BY <1>1, NewestTold
  <2>2. made \in Nat /\ \A i \in DOMAIN cps : cps[i] \in 0 .. (made - 1)
    BY DEF StoreInv, SavesHold
  <2>3. \A k \in 0 .. (made - 1) : k \in -1 .. (made - 1)
    BY <2>2
  <2> QED
    BY <2>1, <2>2, <2>3
<1>3. DOMAIN counter' = Buses /\ \A b \in Buses : counter'[b] \in -1 .. (made - 1)
  BY <1>1, <1>2 DEF StoreInv, Buses
<1>4. WritersHold' /\ ListenerHolds' /\ InMemoryHolds'
  BY <1>1 DEF StoreInv, WritersHold, ListenerHolds, InMemoryHolds, IsLast, Writers, Stores!Writers
<1> QED
  BY <1>1, <1>3, <1>4 DEF StoreInv, Stores!Protocol!pVars, Stores!ToSet

(* Nothing that the invariant speaks of changes.                           *)
LEMMA StoreKept ==
  ASSUME StoreInv, UNCHANGED <<backend, counter, made, writer, rows, cps, notices, fetch, heard>>
  PROVE  StoreInv'
<1>1. WritersHold' /\ ListenerHolds' /\ InMemoryHolds'
  BY DEF StoreInv, WritersHold, ListenerHolds, InMemoryHolds, IsLast, Writers, Stores!Writers
<1> QED
  BY <1>1 DEF StoreInv

LEMMA OtherSteps ==
  ASSUME StoreInv,
         \/ Stores!CreateRun \/ Stores!UpdateRunStatus \/ Stores!Close
         \/ Stores!GetEvents \/ Stores!GetLatest \/ Stores!ListRuns
  PROVE  StoreInv' /\ Stores!Protocol!PNext
<1>1. CASE Stores!CreateRun \/ Stores!UpdateRunStatus
  <2>1. /\ status' \in {"running", "completed", "failed"}
        /\ UNCHANGED <<backend, open, counter, made, writer, rows, cps, notices, fetch, heard, told>>
    BY <1>1 DEF Stores!CreateRun, Stores!UpdateRunStatus, Stores!listener
  <2>2. Stores!Protocol!PStatus
    BY <2>1 DEF Stores!Protocol!PStatus, Stores!ToSet
  <2> QED
    BY <2>1, <2>2, StoreKept DEF Stores!Protocol!PNext
<1>2. CASE Stores!Close
  <2>1. open' = FALSE /\ UNCHANGED <<backend, counter, made, writer, rows, cps, status, notices, fetch, heard, told>>
    BY <1>2 DEF Stores!Close, Stores!listener
  <2>2. Stores!Protocol!PClose
    BY <2>1 DEF Stores!Protocol!PClose, Stores!ToSet
  <2> QED
    BY <2>1, <2>2, StoreKept DEF Stores!Protocol!PNext
<1>3. CASE Stores!GetEvents \/ Stores!GetLatest \/ Stores!ListRuns
  <2>1. UNCHANGED <<backend, counter, made, writer, rows, cps, notices, fetch, heard>>
    BY <1>3 DEF Stores!GetEvents, Stores!GetLatest, Stores!ListRuns, Stores!listener
  <2>2. Stores!Protocol!PRead
    BY <1>3, EventsAreTold, LatestIsTold, ListingIsTold
  <2> QED
    BY <2>1, <2>2, StoreKept DEF Stores!Protocol!PNext
<1> QED
  BY <1>1, <1>2, <1>3

LEMMA LastIsMax ==
  ASSUME StoreInv, NEW i \in DOMAIN rows, IsLast(rows, i)
  PROVE  Stores!Max({rows[j].seq : j \in DOMAIN rows}) = rows[i].seq /\ rows[i].seq \in Nat
<1> DEFINE S == {rows[j].seq : j \in DOMAIN rows}
<1>1. \A j \in DOMAIN rows : rows[j].seq \in Nat
  <2>1. made \in Nat /\ \A j \in DOMAIN rows : rows[j].seq \in 0 .. (made - 1)
    BY FreshId DEF StoreInv
  <2> QED
    BY <2>1
<1>2. S \subseteq Int /\ rows[i].seq \in S /\ \A y \in S : rows[i].seq >= y
  BY <1>1 DEF IsLast
<1> HIDE DEF S
<1>3. Stores!Max(S) = rows[i].seq
  BY <1>2, MaxIs
<1> QED
  BY <1>1, <1>3 DEF S

(* Listening starts with nothing to hear, and so far nothing has been lost. *)
LEMMA ListenSteps ==
  ASSUME StoreInv, Stores!Listen
  PROVE  ListenerHolds'
<1>1. /\ backend = "postgres" /\ UNCHANGED <<backend, rows, fetch, notices>>
      /\ heard' = <<>> /\ heard = <<-1>> /\ rows = <<>>
  BY DEF Stores!Listen
<1>2. /\ notices = 0 /\ fetch.at = "idle"
      /\ fetch = [at |-> fetch.at, seq |-> fetch.seq, missed |-> fetch.missed] /\ fetch.missed \in BOOLEAN
  BY <1>1 DEF StoreInv, ListenerHolds
<1>3. <<>> \in Seq(Nat) /\ DOMAIN <<>> = {} /\ <<>> # <<-1>>
  OBVIOUS
<1> QED
  BY <1>1, <1>2, <1>3 DEF ListenerHolds

(* A notification whose task finds a fetch under way is lost; if that one  *)
(* has not read yet, it will read what this one was sent for.              *)
LEMMA NotifiedSteps ==
  ASSUME StoreInv, Stores!Notified
  PROVE  ListenerHolds'
<1>1. /\ UNCHANGED <<backend, rows, heard>> /\ notices > 0 /\ notices' = notices - 1
      /\ fetch' = IF fetch.at = "idle" THEN [fetch EXCEPT !.at = "asked"]
                  ELSE [fetch EXCEPT !.missed = @ \/ fetch.at = "read"]
  BY DEF Stores!Notified
<1>2. /\ notices \in Nat /\ rows # <<>> /\ heard # <<-1>>
      /\ fetch = [at |-> fetch.at, seq |-> fetch.seq, missed |-> fetch.missed] /\ fetch.missed \in BOOLEAN
  BY <1>1 DEF StoreInv, ListenerHolds
<1>3. fetch' = [at |-> fetch'.at, seq |-> fetch'.seq, missed |-> fetch'.missed] /\ fetch'.seq = fetch.seq
  BY <1>1, <1>2
<1>4. /\ fetch.at = "idle" => fetch'.at = "asked" /\ fetch'.missed = fetch.missed
      /\ fetch.at # "idle" => fetch'.at = fetch.at /\ fetch'.missed = (fetch.missed \/ fetch.at = "read")
  BY <1>1, <1>2
<1>5. fetch'.missed \in BOOLEAN
  <2>1. CASE fetch.at = "idle"
    BY <1>2, <1>4, <2>1
  <2>2. CASE fetch.at # "idle"
    BY <1>4, <2>2
  <2> QED BY <2>1, <2>2
<1>6. fetch'.at = "read" => fetch.at = "read" /\ fetch'.missed = TRUE
  BY <1>4
<1> QED
  BY <1>1, <1>2, <1>3, <1>4, <1>5, <1>6 DEF StoreInv, ListenerHolds

LEMMA FetchSteps ==
  ASSUME StoreInv, Stores!Fetch
  PROVE  ListenerHolds'
<1>1. /\ UNCHANGED <<backend, rows, heard, notices>> /\ fetch.at = "asked"
      /\ fetch' = [at |-> "read", seq |-> Stores!Max({rows[i].seq : i \in DOMAIN rows}), missed |-> FALSE]
  BY DEF Stores!Fetch
<1>2. /\ rows # <<>> /\ heard # <<-1>>
      /\ \A k \in DOMAIN heard : \E j \in DOMAIN rows : heard[k] = rows[j].seq
  BY <1>1 DEF StoreInv, ListenerHolds
<1>3. PICK i \in DOMAIN rows : IsLast(rows, i)
  BY <1>2 DEF StoreInv, RowsHold
<1>4. fetch'.at = "read" /\ fetch'.seq = rows[i].seq /\ fetch'.missed = FALSE
  BY <1>1, <1>2, <1>3, LastIsMax
<1>5. fetch' = [at |-> fetch'.at, seq |-> fetch'.seq, missed |-> fetch'.missed]
  BY <1>1
<1>6. \A k \in DOMAIN heard : heard[k] <= rows[i].seq
  <2>1. \A j \in DOMAIN rows : rows[j].seq <= rows[i].seq
    BY <1>3 DEF IsLast
  <2> QED BY <1>2, <2>1
<1> QED
  BY <1>1, <1>2, <1>3, <1>4, <1>5, <1>6 DEF StoreInv, ListenerHolds

LEMMA HearSteps ==
  ASSUME StoreInv, Stores!Hear
  PROVE  ListenerHolds'
<1>1. /\ UNCHANGED <<backend, rows, notices>> /\ fetch.at = "read"
      /\ fetch' = [fetch EXCEPT !.at = "idle"] /\ heard' = Append(heard, fetch.seq)
  BY DEF Stores!Hear
<1>2. /\ notices \in Nat /\ rows # <<>> /\ heard # <<-1>> /\ heard \in Seq(Nat) /\ backend = "postgres"
      /\ \A k \in DOMAIN heard : \E j \in DOMAIN rows : heard[k] = rows[j].seq
      /\ \A k, l \in DOMAIN heard : k < l => heard[k] <= heard[l]
      /\ \A k \in DOMAIN heard : heard[k] <= fetch.seq
      /\ fetch = [at |-> fetch.at, seq |-> fetch.seq, missed |-> fetch.missed] /\ fetch.missed \in BOOLEAN
      /\ notices = 0 /\ ~fetch.missed => \E j \in DOMAIN rows : IsLast(rows, j) /\ fetch.seq = rows[j].seq
  BY <1>1 DEF StoreInv, ListenerHolds
<1>3. PICK i \in DOMAIN rows : fetch.seq = rows[i].seq
  BY <1>1 DEF StoreInv, ListenerHolds
<1>4. fetch.seq \in Nat
  <2>1. made \in Nat /\ \A j \in DOMAIN rows : rows[j].seq \in 0 .. (made - 1)
    BY FreshId DEF StoreInv
  <2> QED BY <1>3, <2>1
<1>5. /\ fetch' = [at |-> fetch'.at, seq |-> fetch'.seq, missed |-> fetch'.missed]
      /\ fetch'.at = "idle" /\ fetch'.seq = fetch.seq /\ fetch'.missed = fetch.missed
  BY <1>1, <1>2
<1> DEFINE n == Len(heard)
<1>6. /\ heard' \in Seq(Nat) /\ heard' # <<>> /\ n \in Nat /\ Len(heard') = n + 1
      /\ DOMAIN heard = 1 .. n /\ DOMAIN heard' = 1 .. (n + 1)
      /\ heard'[n + 1] = fetch.seq /\ \A k \in 1 .. n : heard'[k] = heard[k]
  BY <1>1, <1>2, <1>4, Appended
<1> HIDE DEF n
<1>7. \A k \in DOMAIN heard' : \E j \in DOMAIN rows : heard'[k] = rows[j].seq
  <2> SUFFICES ASSUME NEW k \in DOMAIN heard' PROVE \E j \in DOMAIN rows : heard'[k] = rows[j].seq
    OBVIOUS
  <2>1. k \in 1 .. n \/ k = n + 1
    BY <1>6
  <2>2. CASE k = n + 1
    BY <1>3, <1>6, <2>2
  <2>3. CASE k \in 1 .. n
    <3>1. heard'[k] = heard[k] /\ k \in DOMAIN heard
      BY <1>6, <2>3
    <3> QED BY <1>2, <3>1
  <2> QED BY <2>1, <2>2, <2>3
<1>8. \A k, l \in DOMAIN heard' : k < l => heard'[k] <= heard'[l]
  <2> SUFFICES ASSUME NEW k \in DOMAIN heard', NEW l \in DOMAIN heard', k < l
               PROVE  heard'[k] <= heard'[l]
    OBVIOUS
  <2>1. k \in 1 .. n /\ (l \in 1 .. n \/ l = n + 1)
    BY <1>6
  <2>2. heard'[k] = heard[k] /\ heard[k] <= fetch.seq
    BY <1>2, <1>6, <2>1
  <2>3. CASE l = n + 1
    BY <1>6, <2>2, <2>3
  <2>4. CASE l \in 1 .. n
    <3>1. heard[k] <= heard[l] /\ heard'[l] = heard[l]
      BY <1>2, <1>6, <2>1, <2>4
    <3> QED BY <2>2, <3>1
  <2> QED BY <2>1, <2>3, <2>4
<1>9. heard' # <<-1>>
  <2>1. heard'[1] \in Nat
    BY <1>6
  <2>2. <<-1>>[1] = -1 /\ -1 \notin Nat
    OBVIOUS
  <2> QED BY <2>1, <2>2
<1>10. heard'[Len(heard')] = fetch.seq
  BY <1>6
<1>11. notices' = 0 /\ ~fetch'.missed => \E j \in DOMAIN rows' : IsLast(rows', j) /\ fetch.seq = rows'[j].seq
  <2>1. rows' = rows /\ notices' = notices
    BY <1>1
  <2> QED BY <1>2, <1>5, <2>1
<1> QED
  BY <1>1, <1>2, <1>5, <1>6, <1>7, <1>8, <1>9, <1>10, <1>11 DEF ListenerHolds

LEMMA DisconnectSteps ==
  ASSUME StoreInv, Stores!Disconnect
  PROVE  ListenerHolds'
<1>1. /\ UNCHANGED <<backend, rows, heard>> /\ heard # <<-1>> /\ notices' = 0
      /\ fetch' = [fetch EXCEPT !.at = "gone"]
  BY DEF Stores!Disconnect
<1>2. fetch = [at |-> fetch.at, seq |-> fetch.seq, missed |-> fetch.missed] /\ fetch.missed \in BOOLEAN
  BY DEF StoreInv, ListenerHolds
<1>3. /\ fetch' = [at |-> fetch'.at, seq |-> fetch'.seq, missed |-> fetch'.missed]
      /\ fetch'.at = "gone" /\ fetch'.missed = fetch.missed
  BY <1>1, <1>2
<1> QED
  BY <1>1, <1>2, <1>3 DEF StoreInv, ListenerHolds

LEMMA ListenerSteps ==
  ASSUME StoreInv,
         Stores!Listen \/ Stores!Notified \/ Stores!Fetch \/ Stores!Hear \/ Stores!Disconnect
  PROVE  StoreInv' /\ UNCHANGED Stores!Protocol!pVars
<1>1. UNCHANGED <<backend, open, counter, made, writer, rows, cps, status, told>>
  BY DEF Stores!Listen, Stores!Notified, Stores!Fetch, Stores!Hear, Stores!Disconnect
<1>2. ListenerHolds'
  BY ListenSteps, NotifiedSteps, FetchSteps, HearSteps, DisconnectSteps
<1>3. WritersHold' /\ InMemoryHolds'
  BY <1>1 DEF StoreInv, WritersHold, InMemoryHolds, Writers, Stores!Writers
<1> QED
  BY <1>1, <1>2, <1>3 DEF StoreInv, Stores!Protocol!pVars, Stores!ToSet

LEMMA StoreStarts == Stores!Init => StoreInv /\ Stores!Protocol!PInit
<1> SUFFICES ASSUME Stores!Init PROVE StoreInv /\ Stores!Protocol!PInit
  OBVIOUS
<1>0. LastEvent \in Nat
  BY AgentsAssumption DEF Stores!StoresAssumption
<1>1. /\ made = 0 /\ backend \in {"memory", "sqlite", "postgres"} /\ rows = <<>> /\ cps = <<>>
      /\ counter = [b \in Buses |-> -1] /\ notices = 0 /\ heard = <<-1>>
      /\ fetch = Stores!NoFetch
      /\ writer = [w \in Writers |-> [at |-> "idle", e |-> Stores!NoEvent]]
      /\ status = "none" /\ open = TRUE /\ told = Stores!NoAnswer
  BY DEF Stores!Init, Buses, Writers
<1>2. RowsHold(rows, made)
  <2>1. Log(<<>>) = {}
    BY DEF Log
  <2>2. IsFiniteSet({}) /\ Cardinality({}) = 0
    BY FS_EmptySet
  <2>3. <<>> \in Seq(Events(made)) /\ DOMAIN <<>> = {} /\ Len(<<>>) = 0
    OBVIOUS
  <2>4. IsFiniteSet(Log(rows)) /\ Cardinality(Log(rows)) = Len(rows)
    BY <1>1, <2>1, <2>2, <2>3
  <2> QED
    BY <1>1, <2>3, <2>4 DEF RowsHold
<1>3. SavesHold(cps, made)
  BY <1>1 DEF SavesHold
<1>4. WritersHold
  <2>1. \A w \in Writers : writer[w].at = "idle"
    BY <1>1
  <2> QED
    BY <1>1, <2>1 DEF WritersHold
<1>5. InMemoryHolds /\ ListenerHolds
  <2>1. \A w \in Writers : writer[w].at = "idle"
    BY <1>1
  <2> QED
    BY <1>1, <2>1 DEF InMemoryHolds, ListenerHolds, Buses, Stores!NoFetch
<1>6. StoreInv
  BY <1>0, <1>1, <1>2, <1>3, <1>4, <1>5 DEF StoreInv
<1>7. Stores!Protocol!PInit
  BY <1>1 DEF Stores!Protocol!PInit, Stores!ToSet, Stores!NoAnswer, Stores!Protocol!NoAnswer
<1> QED
  BY <1>6, <1>7

LEMMA StoreSteps ==
  StoreInv /\ [Next]_vars => StoreInv' /\ [Stores!Protocol!PNext]_(Stores!Protocol!pVars)
<1> SUFFICES ASSUME StoreInv, [Next]_vars
             PROVE  StoreInv' /\ [Stores!Protocol!PNext]_(Stores!Protocol!pVars)
  OBVIOUS
<1>1. CASE Stores!Next
  <2>1. CASE \E w \in Writers : Stores!Number(w) \/ Stores!Write(w) \/ Stores!Insert(w)
                                \/ Stores!Commit(w) \/ Stores!AppendFails(w)
    BY <2>1, NumberSteps, WriteSteps, InsertSteps, CommitSteps, AppendFailsSteps
       DEF Stores!Protocol!PNext
  <2>2. CASE \E b \in Buses : Stores!Save(b)
    BY <2>2, SaveSteps DEF Stores!Protocol!PNext
  <2>3. CASE \/ Stores!SeedRival \/ Stores!Listen \/ Stores!Notified \/ Stores!Fetch \/ Stores!Hear
             \/ Stores!Disconnect
    BY <2>3, SeedSteps, ListenerSteps
  <2>4. CASE \/ Stores!CreateRun \/ Stores!UpdateRunStatus \/ Stores!Close
             \/ Stores!GetEvents \/ Stores!GetLatest \/ Stores!ListRuns
    BY <2>4, OtherSteps
  <2> QED
    BY <1>1, <2>1, <2>2, <2>3, <2>4 DEF Stores!Next, Writers, Buses
<1>2. CASE UNCHANGED stores
  BY <1>2, StoreKept DEF stores, Stores!Protocol!pVars, Stores!ToSet
<1> QED
  BY <1>1, <1>2 DEF Next, vars

LEMMA ListenerIsCurrent == StoreInv => Stores!ListenerCurrent
<1> SUFFICES ASSUME StoreInv, heard # <<-1>> PROVE Stores!ListenerCurrent
  BY DEF Stores!ListenerCurrent
<1>1. \A k, l \in DOMAIN heard : k < l => heard[k] <= heard[l]
  BY DEF StoreInv, ListenerHolds
<1>2. ASSUME notices = 0, fetch.at = "idle", ~fetch.missed, rows # <<>>
      PROVE  heard # <<>> /\ Stores!Last(heard) = Stores!Max({rows[i].seq : i \in DOMAIN rows})
  <2>1. heard # <<>>
    BY <1>2 DEF StoreInv, ListenerHolds
  <2>2. PICK i \in DOMAIN rows : IsLast(rows, i) /\ heard[Len(heard)] = rows[i].seq
    BY <1>2 DEF StoreInv, ListenerHolds
  <2> QED
    BY <2>1, <2>2, LastIsMax DEF Stores!Last
<1> QED
  BY <1>1, <1>2 DEF Stores!ListenerCurrent

(* storage/: whatever backend keeps a run, and however the branches of its *)
(* process and a process that resumed it append, fail, save and close, the *)
(* store behaves as the EventStore protocol says, and a listener that has  *)
(* handled its notifications knows the newest event.                       *)
THEOREM StoresImplement == Spec => ImplementsProtocol
<1>1. Init => StoreInv /\ Stores!Protocol!PInit
  BY StoreStarts DEF Init
<1> QED
  BY <1>1, StoreSteps, ListenerIsCurrent, PTL
     DEF Spec, ImplementsProtocol, Stores!ImplementsProtocol, Stores!Protocol!PSpec

-----------------------------------------------------------------------------
(***************************************************************************)
(* The choice of a model.  Of the places of a list that are left by its    *)
(* filters the first of the least is one; and half as much again, rounded  *)
(* down, is what a stretched maximum admits.                               *)
(***************************************************************************)
LEMMA LeastPlace ==
  ASSUME NEW T, T \subseteq Nat, T # {}
  PROVE  \E x \in T : \A y \in T : x <= y
<1>1. PICK x \in T : \A y \in T : <<y, x>> \notin OpToRel(<, Nat)
  BY NatLessThanWellFounded, WFMin
<1>2. \A y \in T : ~(y < x)
  BY <1>1 DEF OpToRel
<1>3. \A y \in T : x \in Nat /\ y \in Nat
  OBVIOUS
<1> QED BY <1>2, <1>3

LEMMA FirstOfLeast ==
  ASSUME NEW I, I \subseteq Nat, I # {}, NEW f, \A i \in I : f[i] \in Nat
  PROVE  Router!Min({i \in I : \A j \in I : f[i] <= f[j]}) \in I
<1> DEFINE T == {f[i] : i \in I}
<1> DEFINE M == {i \in I : \A j \in I : f[i] <= f[j]}
<1>1. \E x \in T : \A y \in T : x <= y
  <2>1. T \subseteq Nat /\ T # {}
    OBVIOUS
  <2> HIDE DEF T
  <2> QED BY <2>1, LeastPlace
<1>2. M # {} /\ M \subseteq I /\ M \subseteq Nat
  <2>1. PICK x \in T : \A y \in T : x <= y
    BY <1>1
  <2>2. PICK i \in I : x = f[i]
    BY <2>1
  <2>3. \A j \in I : f[j] \in T
    OBVIOUS
  <2> HIDE DEF T
  <2>4. \A j \in I : f[i] <= f[j]
    BY <2>1, <2>2, <2>3
  <2>5. i \in M
    BY <2>2, <2>4
  <2> QED BY <2>5
<1> HIDE DEF M
<1>3. PICK x \in M : \A y \in M : x <= y
  BY <1>2, LeastPlace
<1>4. Router!Min(M) \in M
  BY <1>3 DEF Router!Min
<1> QED BY <1>2, <1>4 DEF M

LEMMA OptionsAre ==
  ASSUME options \in Options
  PROVE  /\ DOMAIN options \subseteq Nat /\ DOMAIN options # {}
         /\ \A i \in DOMAIN options : options[i] \in Router!Option
         /\ Router!Range(options) = {options[i] : i \in DOMAIN options}
<1>1. options \in Seq(Router!Option) /\ options # <<>>
  BY AgentsAssumption DEF Router!RouterAssumption
<1>2. DOMAIN options = 1 .. Len(options) /\ Len(options) \in Nat
  BY <1>1
<1>3. Len(options) # 0
  BY <1>1
<1>4. \A i \in DOMAIN options : options[i] \in Router!Option
  BY <1>1, <1>2
<1>5. 1 \in DOMAIN options
  BY <1>2, <1>3
<1> QED BY <1>2, <1>4, <1>5 DEF Router!Range

LEMMA OptionParts ==
  \A o \in Router!Option : /\ o.input \in Nat /\ o.cost \in Nat /\ o.latency \in Nat
                           /\ o.model # "none" /\ o # Router!Nobody
<1> SUFFICES ASSUME NEW o \in Router!Option
             PROVE  /\ o.input \in Nat /\ o.cost \in Nat /\ o.latency \in Nat
                    /\ o.model # "none" /\ o # Router!Nobody
  OBVIOUS
<1>1. o.input \in Nat /\ o.cost \in Nat /\ o.latency \in Nat
  BY DEF Router!Option
<1>2. o.model # "none"
  BY DEF Router!Option
<1>3. Router!Nobody.model = "none"
  BY DEF Router!Nobody
<1> QED BY <1>1, <1>2, <1>3

LEMMA StretchedIs ==
  ASSUME NEW b \in Budgets, NEW o \in Router!Option
  PROVE  Router!Affordable(o, Router!Relaxed(b)) <=>
           /\ b.max \notin {Router!NoLimit, 0} => 2 * o.cost <= 3 * b.max
           /\ b.remaining # Router!NoLimit => o.cost <= b.remaining
<1>1. b \in [max : Nat \cup {-1}, remaining : Nat \cup {-1}]
  BY AgentsAssumption DEF Router!RouterAssumption, Router!NoLimit
<1> DEFINE wide == IF b.max \in {-1, 0} THEN -1 ELSE (b.max * 3) \div 2
<1>2. Router!Relaxed(b) = [b EXCEPT !.max = wide]
  BY DEF Router!Relaxed, Router!NoLimit
<1>3. Router!Relaxed(b).max = wide /\ Router!Relaxed(b).remaining = b.remaining
  <2> HIDE DEF wide
  <2> QED BY <1>1, <1>2
<1>4. \A c, m \in Nat : /\ (m * 3) \div 2 \in Nat
                        /\ c <= (m * 3) \div 2 <=> 2 * c <= 3 * m
  OBVIOUS
<1>5. o.cost \in Nat /\ (b.max \in Nat \/ b.max = -1)
  BY <1>1, OptionParts
<1>6. (wide # -1 => o.cost <= wide) <=> (b.max \notin {-1, 0} => 2 * o.cost <= 3 * b.max)
  <2>1. CASE b.max \in {-1, 0}
    BY <2>1
  <2>2. CASE b.max \notin {-1, 0}
    <3>1. b.max \in Nat /\ wide = (b.max * 3) \div 2
      BY <1>5, <2>2
    <3>2. wide \in Nat /\ (o.cost <= wide <=> 2 * o.cost <= 3 * b.max)
      BY <1>4, <1>5, <3>1
    <3> HIDE DEF wide
    <3>3. wide # -1
      BY <3>2
    <3> QED BY <2>2, <3>2, <3>3
  <2> QED BY <2>1, <2>2
<1> HIDE DEF wide
<1> QED BY <1>3, <1>6 DEF Router!Affordable, Router!NoLimit

RouterInv == options \in Options /\ Router!ChoiceWithinLimits

LEMMA SelectKeeps ==
  ASSUME RouterInv, Router!SelectModel
  PROVE  RouterInv'
<1>0. options \in Options
  BY DEF RouterInv
<1> DEFINE I == DOMAIN options
<1>1. PICK sla \in Slas, b \in Budgets, f \in {"fail_fast", "favor_cost", "favor_latency"} :
        LET r == [sla |-> sla, budget |-> b, fallback |-> f]   c == Router!Candidates(r) IN
        /\ request' = r
        /\ IF c.from = {} THEN chosen' = [of |-> Router!Nobody, relaxed |-> "none"]
           ELSE \E i \in c.from : chosen' = [of |-> options[i], relaxed |-> c.relaxed]
        /\ options' = options
  BY DEF Router!SelectModel
<1> DEFINE r == [sla |-> sla, budget |-> b, fallback |-> f]
<1> DEFINE c == Router!Candidates(r)
<1> DEFINE Fit == {i \in I : Router!MeetsSla(options[i], sla) /\ Router!Affordable(options[i], b)}
<1> DEFINE Cheap == {i \in I : Router!Affordable(options[i], b)}
<1> DEFINE Fast == {i \in I : Router!MeetsSla(options[i], sla)
                              /\ Router!Affordable(options[i], Router!Relaxed(b))}
<1> DEFINE Limits(o) == Router!MeetsSla(o, sla) /\ Router!Affordable(o, b)
<1> DEFINE Stretch(o) == /\ Router!MeetsSla(o, sla)
                         /\ b.max \notin {Router!NoLimit, 0} => 2 * o.cost <= 3 * b.max
                         /\ b.remaining # Router!NoLimit => o.cost <= b.remaining
<1>2. /\ I \subseteq Nat /\ I # {} /\ \A i \in I : options[i] \in Router!Option
      /\ Router!Range(options) = {options[i] : i \in I}
  BY <1>0, OptionsAre
<1>3. r.sla = sla /\ r.budget = b /\ r.fallback = f
  OBVIOUS
<1>4. c = CASE Fit # {} -> [from |-> Fit, relaxed |-> "none"]
            [] Fit = {} /\ f = "fail_fast" -> [from |-> {}, relaxed |-> "none"]
            [] Fit = {} /\ f = "favor_cost" ->
                 [from |-> {Router!Cheapest(Router!OrAll(Cheap))}, relaxed |-> "favor_cost"]
            [] OTHER -> [from |-> {Router!Fastest(Router!OrAll(Fast))}, relaxed |-> "favor_latency"]
  BY <1>3 DEF Router!Candidates, Router!FilterByBudget, Router!FilterBySla
<1>5. /\ request' = r
      /\ IF c.from = {} THEN chosen' = [of |-> Router!Nobody, relaxed |-> "none"]
         ELSE \E i \in c.from : chosen' = [of |-> options[i], relaxed |-> c.relaxed]
      /\ options' = options
  BY <1>1
<1> HIDE DEF c
<1>6. ASSUME NEW J \in SUBSET I, J # {}
      PROVE  Router!Cheapest(J) \in J /\ Router!Fastest(J) \in J
  <2>1. J \subseteq Nat /\ \A i \in J : options[i].input \in Nat /\ options[i].latency \in Nat
    BY <1>2, <1>6, OptionParts
  <2> DEFINE g == [i \in J |-> options[i].input]
  <2> DEFINE h == [i \in J |-> options[i].latency]
  <2>2. (\A i \in J : g[i] \in Nat) /\ (\A i \in J : h[i] \in Nat)
    BY <2>1
  <2>3. /\ {i \in J : \A j \in J : options[i].input <= options[j].input}
             = {i \in J : \A j \in J : g[i] <= g[j]}
        /\ {i \in J : \A j \in J : options[i].latency <= options[j].latency}
             = {i \in J : \A j \in J : h[i] <= h[j]}
    OBVIOUS
  <2> HIDE DEF g, h
  <2>4. Router!Min({i \in J : \A j \in J : g[i] <= g[j]}) \in J
    BY <1>6, <2>1, <2>2, FirstOfLeast
  <2>5. Router!Min({i \in J : \A j \in J : h[i] <= h[j]}) \in J
    BY <1>6, <2>1, <2>2, FirstOfLeast
  <2> QED BY <2>3, <2>4, <2>5 DEF Router!Cheapest, Router!Fastest
<1>7. \A J \in SUBSET I : /\ Router!OrAll(J) \in SUBSET I /\ Router!OrAll(J) # {}
                          /\ J # {} => Router!OrAll(J) = J
  BY <1>2 DEF Router!OrAll
<1>8. /\ \E o : /\ chosen'.of = o /\ chosen'.relaxed \in {"none", "favor_cost", "favor_latency"}
      /\ Fit # {} => chosen'.relaxed = "none" /\ \E i \in Fit : chosen'.of = options[i]
      /\ Fit = {} /\ f = "fail_fast" => chosen'.relaxed = "none" /\ chosen'.of = Router!Nobody
      /\ Fit = {} /\ f = "favor_cost" =>
           /\ chosen'.relaxed = "favor_cost"
           /\ \E i \in I : chosen'.of = options[i] /\ (Cheap # {} => i \in Cheap)
      /\ Fit = {} /\ f = "favor_latency" =>
           /\ chosen'.relaxed = "favor_latency"
           /\ \E i \in I : chosen'.of = options[i] /\ (Fast # {} => i \in Fast)
  <2>1. CASE Fit # {}
    <3>1. c.from = Fit /\ c.relaxed = "none"
      BY <1>4, <2>1
    <3> QED BY <1>5, <2>1, <3>1
  <2>2. CASE Fit = {} /\ f = "fail_fast"
    <3>1. c.from = {}
      BY <1>4, <2>2
    <3> QED BY <1>5, <2>2, <3>1
  <2>3. CASE Fit = {} /\ f = "favor_cost"
    <3> DEFINE k == Router!Cheapest(Router!OrAll(Cheap))
    <3>1. c.from = {k} /\ c.relaxed = "favor_cost"
      BY <1>4, <2>3
    <3>2. k \in I /\ (Cheap # {} => k \in Cheap)
      BY <1>6, <1>7
    <3> HIDE DEF k
    <3> QED BY <1>5, <2>3, <3>1, <3>2
  <2>4. CASE Fit = {} /\ f = "favor_latency"
    <3> DEFINE k == Router!Fastest(Router!OrAll(Fast))
    <3>1. c.from = {k} /\ c.relaxed = "favor_latency"
      BY <1>4, <2>4
    <3>2. k \in I /\ (Fast # {} => k \in Fast)
      BY <1>6, <1>7
    <3> HIDE DEF k
    <3> QED BY <1>5, <2>4, <3>1, <3>2
  <2> QED BY <2>1, <2>2, <2>3, <2>4
<1>9. \A i \in I : /\ options[i] # Router!Nobody
                   /\ Limits(options[i]) <=> i \in Fit
                   /\ Stretch(options[i]) <=> i \in Fast
  BY <1>2, OptionParts, StretchedIs
<1> DEFINE all == Router!Range(options)
<1> DEFINE o == chosen'.of
<1>10. \A p \in all : \E i \in I : p = options[i]
  BY <1>2
<1>11. \A i \in I : options[i] \in all
  BY <1>2
<1> HIDE DEF Limits, Stretch, all
<1>12. /\ {p \in all : Limits(p)} # {} <=> Fit # {}
       /\ {p \in all : Stretch(p)} # {} <=> Fast # {}
  BY <1>9, <1>10, <1>11
<1>13. {p \in all : Limits(p)} # {} => o \in {p \in all : Limits(p)} /\ chosen'.relaxed = "none"
  BY <1>8, <1>9, <1>11, <1>12
<1>14. o = Router!Nobody <=> {p \in all : Limits(p)} = {} /\ f = "fail_fast"
  BY <1>8, <1>9, <1>12
<1>15. chosen'.relaxed = "favor_cost" =>
         \A p \in all : Router!Affordable(p, b) => Router!Affordable(o, b)
  BY <1>8, <1>10
<1>16. chosen'.relaxed = "favor_latency" /\ {p \in all : Stretch(p)} # {} => o \in {p \in all : Stretch(p)}
  BY <1>8, <1>9, <1>11, <1>12
<1>17. request'.sla = sla /\ request'.budget = b /\ request'.fallback = f
  BY <1>5
<1>18. Router!ChoiceWithinLimits'
  BY <1>5, <1>13, <1>14, <1>15, <1>16, <1>17 DEF Router!ChoiceWithinLimits, Limits, Stretch, all
<1> QED BY <1>0, <1>5, <1>18 DEF RouterInv

(* routing/: what the router chose is within the limits of its request, or *)
(* breaks only those that its fallback relaxes, and only when no model     *)
(* within them was on offer; only a request to fail fast finds nothing.    *)
THEOREM ChoiceStaysWithin == Spec => []ChoiceWithinLimits
<1> DEFINE Held == part = "router" => RouterInv
<1>1. Init => Held
  <2> SUFFICES ASSUME Router!Init PROVE RouterInv
    BY DEF Init
  <2>1. options \in Options /\ request.fallback = "none"
    BY DEF Router!Init, Router!NoRequest
  <2> QED BY <2>1 DEF RouterInv, Router!ChoiceWithinLimits
<1>2. Held /\ [Next]_vars => Held'
  <2> SUFFICES ASSUME Held, [Next]_vars, part' = "router" PROVE RouterInv'
    OBVIOUS
  <2>1. part = "router" /\ RouterInv
    BY DEF Next, vars
  <2>2. CASE Router!SelectModel
    BY <2>1, <2>2, SelectKeeps
  <2>3. CASE Router!ReportOutcome \/ UNCHANGED router
    <3>1. options' = options /\ request' = request /\ chosen' = chosen
      BY <2>3 DEF Router!ReportOutcome, router
    <3> QED BY <2>1, <3>1 DEF RouterInv, Router!ChoiceWithinLimits
  <2> QED
    BY <2>1, <2>2, <2>3 DEF Next, vars, Router!Next
<1>3. Held => ChoiceWithinLimits
  BY DEF ChoiceWithinLimits, RouterInv
<1> QED
  BY <1>1, <1>2, <1>3, PTL DEF Spec

-----------------------------------------------------------------------------
(***************************************************************************)
(* The builder.  Of the edges es of a node the first decides, and what was *)
(* asked for is where that one leads.                                      *)
(***************************************************************************)
IsEdges(es) == \E S : es \in Seq(S)
FirstOf(es, id, i) ==
  /\ i \in DOMAIN es /\ es[i].from = id
  /\ \A j \in DOMAIN es : es[j].from = id => i <= j
Reaches(e, to) ==
  to \in Builder!ToSet(e.to) \/ (e.kind = "parallel" /\ e.join = to /\ to # Builder!None)
Led(es, p) == \E i : FirstOf(es, p[1], i) /\ Reaches(es[i], p[2])
JoinsAre(es, ns) ==
  \A i \in DOMAIN es : es[i].kind = "parallel" => es[i].join \in ns \cup {Builder!None}
Fine(es, pairs, ns) == IsEdges(es) /\ (\A p \in pairs : Led(es, p)) /\ JoinsAre(es, ns)
GraphInv ==
  /\ style \in {"fluent", "explicit"}
  /\ last = Builder!None \/ last \in nodes
  /\ style = "explicit" => last = Builder!None /\ asked = {} /\ IsEdges(edges)
  /\ style = "fluent" => Fine(edges, asked, nodes)
  /\ compiled => /\ entry \in nodes
                 /\ \A i \in DOMAIN edges : /\ edges[i].from \in nodes
                                            /\ Builder!ToSet(edges[i].to) \subseteq nodes \cup {Builder!End}

LEMMA Grown ==
  ASSUME NEW es, IsEdges(es), NEW e
  PROVE  /\ IsEdges(Append(es, e)) /\ Len(es) \in Nat
         /\ DOMAIN es = 1 .. Len(es) /\ DOMAIN Append(es, e) = 1 .. (Len(es) + 1)
         /\ \A i \in 1 .. Len(es) : Append(es, e)[i] = es[i]
         /\ Append(es, e)[Len(es) + 1] = e
<1>1. PICK S : es \in Seq(S)
  BY DEF IsEdges
<1> DEFINE T == S \cup {e}
<1>2. es \in Seq(T) /\ e \in T
  BY <1>1
<1> HIDE DEF T
<1>3. Append(es, e) \in Seq(T)
  BY <1>2
<1> QED BY <1>2, <1>3 DEF IsEdges

LEMMA StillLed ==
  ASSUME NEW es, IsEdges(es), NEW e, NEW p, Led(es, p)
  PROVE  Led(Append(es, e), p)
<1> DEFINE n == Append(es, e)
           k == Len(es)
<1>0. /\ k \in Nat /\ DOMAIN es = 1 .. k /\ DOMAIN n = 1 .. (k + 1)
      /\ \A i \in 1 .. k : n[i] = es[i]
  BY Grown
<1> HIDE DEF n, k
<1>1. PICK i : FirstOf(es, p[1], i) /\ Reaches(es[i], p[2])
  BY DEF Led
<1>2. i \in 1 .. k /\ es[i].from = p[1] /\ \A j \in 1 .. k : es[j].from = p[1] => i <= j
  BY <1>0, <1>1 DEF FirstOf
<1>3. \A j \in 1 .. (k + 1) : n[j].from = p[1] => i <= j
  BY <1>0, <1>2
<1>4. FirstOf(n, p[1], i) /\ Reaches(n[i], p[2])
  BY <1>0, <1>1, <1>2, <1>3 DEF FirstOf
<1> QED BY <1>4 DEF Led, n

LEMMA NewlyLed ==
  ASSUME NEW es, IsEdges(es), NEW e, \A i \in DOMAIN es : es[i].from # e.from,
         NEW to, Reaches(e, to)
  PROVE  Led(Append(es, e), <<e.from, to>>)
<1> DEFINE n == Append(es, e)
           k == Len(es)
           p == <<e.from, to>>
<1>0. /\ k \in Nat /\ DOMAIN es = 1 .. k /\ DOMAIN n = 1 .. (k + 1)
      /\ \A i \in 1 .. k : n[i] = es[i]
      /\ n[k + 1] = e
  BY Grown
<1>1. p[1] = e.from /\ p[2] = to
  OBVIOUS
<1> HIDE DEF n, k, p
<1>2. k + 1 \in 1 .. (k + 1) /\ \A j \in 1 .. (k + 1) : n[j].from = e.from => k + 1 <= j
  BY <1>0
<1>3. FirstOf(n, p[1], k + 1) /\ Reaches(n[k + 1], p[2])
  BY <1>0, <1>1, <1>2 DEF FirstOf
<1>4. Led(n, p)
  BY <1>3 DEF Led
<1> QED BY <1>4 DEF n, p

LEMMA StillFine ==
  ASSUME NEW es, NEW pairs, NEW ns, Fine(es, pairs, ns), NEW e, e.join = Builder!None
  PROVE  Fine(Append(es, e), pairs, ns)
<1>1. IsEdges(es) /\ (\A p \in pairs : Led(es, p)) /\ JoinsAre(es, ns)
  BY DEF Fine
<1>2. \A p \in pairs : Led(Append(es, e), p)
  BY <1>1, StillLed
<1>3. JoinsAre(Append(es, e), ns)
  BY <1>1, Grown DEF JoinsAre
<1> QED BY <1>1, <1>2, <1>3, Grown DEF Fine

(* The first edge of a node, which SelectInSeq looks for.                  *)
LEMMA FirstIs ==
  ASSUME IsEdges(edges), NEW id
  PROVE  /\ Builder!GoesOn(id) <=> \E i \in DOMAIN edges : edges[i].from = id
         /\ Builder!GoesOn(id) => FirstOf(edges, id, Builder!First(id))
<1> DEFINE I == {i \in 1 .. Len(edges) : edges[i].from = id}
<1>0. Len(edges) \in Nat /\ DOMAIN edges = 1 .. Len(edges)
  BY DEF IsEdges
<1>1. Builder!First(id) = IF I # {} THEN Builder!Min(I) ELSE 0
  BY Zenon DEF Builder!First, Builder!SelectInSeq
<1>2. I \subseteq Nat /\ 0 \notin I
  BY <1>0
<1>3. I # {} => Builder!Min(I) \in I /\ \A y \in I : Builder!Min(I) <= y
  <2> HIDE DEF I
  <2>1. I # {} => \E x \in I : \A y \in I : x <= y
    BY <1>2, LeastPlace
  <2> QED BY <2>1 DEF Builder!Min
<1>4. Builder!GoesOn(id) <=> I # {}
  BY <1>1, <1>2, <1>3 DEF Builder!GoesOn
<1> QED BY <1>0, <1>1, <1>3, <1>4 DEF FirstOf

(* An edge from the last node, and what is recorded as asked for with it.  *)
LEMMA LinkedFine ==
  ASSUME GraphInv, style = "fluent", NEW e, e.from = last, e.join = Builder!None,
         NEW ids, \A x \in ids : Reaches(e, x)
  PROVE  Fine(Builder!Linked(e), asked \cup Builder!Follow(ids), nodes)
<1>0. Fine(edges, asked, nodes) /\ IsEdges(edges)
  BY DEF GraphInv, Fine
<1>1. CASE last = Builder!None
  <2>1. Builder!Linked(e) = edges /\ asked \cup Builder!Follow(ids) = asked
    BY <1>1 DEF Builder!Linked, Builder!Follow
  <2> QED BY <1>0, <2>1
<1>2. CASE last # Builder!None
  <2>1. Builder!Linked(e) = Append(edges, e)
    BY <1>2 DEF Builder!Linked
  <2>2. Fine(Append(edges, e), asked, nodes)
    BY <1>0, StillFine
  <2>3. \A p \in Builder!Follow(ids) : Led(Append(edges, e), p)
    <3> TAKE p \in Builder!Follow(ids)
    <3>1. ~Builder!GoesOn(last) /\ \E x \in ids : p = <<last, x>>
      BY <1>2 DEF Builder!Follow
    <3>2. \A i \in DOMAIN edges : edges[i].from # e.from
      BY <1>0, <3>1, FirstIs
    <3> QED BY <1>0, <3>1, <3>2, NewlyLed
  <2> QED BY <2>1, <2>2, <2>3 DEF Fine
<1> QED BY <1>1, <1>2

(* More nodes do no harm.                                                  *)
LEMMA FineStays ==
  ASSUME NEW es, NEW pairs, NEW ns, NEW more, Fine(es, pairs, ns), ns \subseteq more
  PROVE  Fine(es, pairs, more)
BY DEF Fine, JoinsAre

LEMMA FluentFine ==
  ASSUME GraphInv, style = "fluent", style' = style, compiled' = FALSE,
         last' = Builder!None \/ last' \in nodes', Fine(edges', asked', nodes')
  PROVE  GraphInv'
BY DEF GraphInv

LEMMA PlainIs ==
  \A id \in Builder!Plain : id # Builder!None /\ id # Builder!End
<1>1. "END" \notin NodeNames
  BY AgentsAssumption DEF Builder!BuilderAssumption
<1>2. \A n \in NodeNames : <<n>> # << >> /\ <<n>> # <<"END">>
  BY <1>1
<1> QED BY <1>2 DEF Builder!Plain, Builder!None, Builder!End

LEMMA EdgesAre ==
  /\ \A f, t : /\ Builder!Edge(f, t).from = f /\ Builder!Edge(f, t).join = Builder!None
              /\ Reaches(Builder!Edge(f, t), t)
  /\ \A f, t : /\ Builder!Conditional(f, t).from = f /\ Builder!Conditional(f, t).join = Builder!None
              /\ \A x \in Builder!ToSet(t) : Reaches(Builder!Conditional(f, t), x)
  /\ \A n : /\ Builder!Repeat(n).from = n /\ Builder!Repeat(n).join = Builder!None
           /\ Reaches(Builder!Repeat(n), n)
  /\ \A f, t, j : /\ Builder!Parallel(f, t, j).from = f /\ Builder!Parallel(f, t, j).join = j
                 /\ Builder!Parallel(f, t, j).to = t /\ Builder!Parallel(f, t, j).kind = "parallel"
                 /\ \A x \in Builder!ToSet(t) : Reaches(Builder!Parallel(f, t, j), x)
<1>1. \A x, y : x \in Builder!ToSet(<<x>>) /\ x \in Builder!ToSet(<<x, y>>)
  BY DEF Builder!ToSet
<1> QED BY <1>1 DEF Builder!Edge, Builder!Conditional, Builder!Repeat, Builder!Parallel, Reaches

LEMMA PairIs == \A x, y : Builder!ToSet(<<x, y>>) = {x, y} /\ Builder!ToSet(<<x>>) = {x}
BY DEF Builder!ToSet

LEMMA ThenKeeps ==
  ASSUME GraphInv, style = "fluent", style' = style, compiled' = FALSE,
         NEW id, Builder!Then(id)
  PROVE  GraphInv'
<1>1. /\ nodes' = nodes \cup {id} /\ last' = id
      /\ edges' = Builder!Linked(Builder!Edge(last, id)) /\ asked' = asked \cup Builder!Follow({id})
  BY PairIs DEF Builder!Then, Builder!Adds
<1>2. Fine(edges', asked', nodes)
  BY <1>1, EdgesAre, LinkedFine
<1>3. Fine(edges', asked', nodes')
  BY <1>1, <1>2, FineStays
<1> QED BY <1>1, <1>3, FluentFine

LEMMA FanOutKeeps ==
  ASSUME GraphInv, style = "fluent", style' = style, compiled' = FALSE,
         NEW ids, Builder!FanOut(ids)
  PROVE  GraphInv'
<1> DEFINE fan == Builder!Fan(ids)
<1>1. /\ nodes' = nodes \cup Builder!ToSet(fan.ids)
      /\ \/ UNCHANGED <<edges, last, parallel, asked>>
         \/ /\ edges' = Builder!Linked(Builder!Parallel(last, fan.ids, Builder!None))
            /\ asked' = asked \cup Builder!Follow(Builder!ToSet(fan.ids))
            /\ last' = Builder!None
  BY Zenon DEF Builder!FanOut, Builder!Adds
<1> HIDE DEF fan
<1>2. CASE UNCHANGED <<edges, last, parallel, asked>>
  <2>1. Fine(edges', asked', nodes')
    BY <1>1, <1>2, FineStays DEF GraphInv
  <2>2. last' = Builder!None \/ last' \in nodes'
    BY <1>1, <1>2 DEF GraphInv
  <2> QED BY <2>1, <2>2, FluentFine
<1>3. CASE /\ edges' = Builder!Linked(Builder!Parallel(last, fan.ids, Builder!None))
           /\ asked' = asked \cup Builder!Follow(Builder!ToSet(fan.ids))
           /\ last' = Builder!None
  <2>1. Fine(edges', asked', nodes)
    BY <1>3, EdgesAre, LinkedFine
  <2>2. Fine(edges', asked', nodes')
    BY <1>1, <2>1, FineStays
  <2> QED BY <1>3, <2>2, FluentFine
<1> QED BY <1>1, <1>2, <1>3

(* The edge that join() completes: what was asked for is still there.      *)
LEMMA UnjoinedIs ==
  ASSUME IsEdges(edges)
  PROVE  \/ Builder!Unjoined = 0
         \/ /\ Builder!Unjoined \in DOMAIN edges
            /\ edges[Builder!Unjoined].kind = "parallel"
            /\ edges[Builder!Unjoined].join = Builder!None
<1> DEFINE I == {i \in 1 .. Len(edges) :
                   edges[i].kind = "parallel" /\ edges[i].to = parallel /\ edges[i].join = Builder!None}
<1>0. Len(edges) \in Nat /\ DOMAIN edges = 1 .. Len(edges)
  BY DEF IsEdges
<1>1. Builder!Unjoined = IF I # {} THEN Builder!Min(I) ELSE 0
  BY Zenon DEF Builder!Unjoined, Builder!SelectInSeq
<1>2. I \subseteq Nat
  BY <1>0
<1>3. I # {} => Builder!Min(I) \in I
  <2> HIDE DEF I
  <2>1. I # {} => \E x \in I : \A y \in I : x <= y
    BY <1>2, LeastPlace
  <2> QED BY <2>1 DEF Builder!Min
<1> QED BY <1>0, <1>1, <1>3

LEMMA JoinKeeps ==
  ASSUME GraphInv, style = "fluent", style' = style, compiled' = FALSE,
         NEW id \in Builder!Plain, Builder!Join(id)
  PROVE  GraphInv'
<1> DEFINE u == Builder!Unjoined
           e == Builder!Parallel(edges[u].from, edges[u].to, id)
           new == {<<n, id>> : n \in {n \in nodes : Builder!First(n) = u /\ Builder!GoesOn(n)}}
<1>0. Fine(edges, asked, nodes) /\ IsEdges(edges)
  BY DEF GraphInv, Fine
<1>1. /\ nodes' = nodes \cup {id} /\ last' = id
      /\ edges' = IF u = 0 THEN edges ELSE [edges EXCEPT ![u] = e]
      /\ asked' = asked \cup new
  BY PairIs DEF Builder!Join, Builder!Adds, Builder!Joined
<1>2. CASE u = 0
  <2>1. new = {}
    BY <1>2 DEF Builder!GoesOn
  <2>2. edges' = edges /\ asked' = asked
    BY <1>1, <1>2, <2>1
  <2>3. Fine(edges', asked', nodes')
    BY <1>0, <1>1, <2>2, FineStays
  <2> QED BY <1>1, <2>3, FluentFine
<1>3. CASE u # 0
  <2>1. u \in DOMAIN edges /\ edges[u].kind = "parallel" /\ edges[u].join = Builder!None
    BY <1>0, <1>3, UnjoinedIs
  <2> HIDE DEF u
  <2>2. /\ e.from = edges[u].from /\ e.to = edges[u].to /\ e.kind = "parallel" /\ e.join = id
    BY EdgesAre
  <2> HIDE DEF e
  <2>3. /\ DOMAIN edges' = DOMAIN edges /\ edges'[u] = e
        /\ \A i \in DOMAIN edges : i # u => edges'[i] = edges[i]
    BY <1>0, <1>1, <1>3, <2>1 DEF IsEdges
  <2>4. IsEdges(edges')
    <3>1. PICK S : edges \in Seq(S)
      BY <1>0 DEF IsEdges
    <3> DEFINE T == S \cup {e}
    <3>2. edges \in Seq(T) /\ e \in T
      BY <3>1
    <3> HIDE DEF T
    <3>3. edges' \in Seq(T)
      BY <1>1, <1>3, <2>1, <3>2
    <3> QED BY <3>3 DEF IsEdges
  <2>5. \A i \in DOMAIN edges : edges'[i].from = edges[i].from
    BY <2>2, <2>3
  <2>6. \A id_, i : FirstOf(edges, id_, i) => FirstOf(edges', id_, i)
    BY <2>3, <2>5 DEF FirstOf
  <2>7. ASSUME NEW p \in asked PROVE Led(edges', p)
    <3>1. PICK i : FirstOf(edges, p[1], i) /\ Reaches(edges[i], p[2])
      BY <1>0 DEF Fine, Led
    <3>2. i \in DOMAIN edges
      BY <3>1 DEF FirstOf
    <3>3. Reaches(edges'[i], p[2])
      <4>1. CASE i = u
        BY <2>1, <2>2, <2>3, <3>1, <4>1 DEF Reaches
      <4>2. CASE i # u
        BY <2>3, <3>1, <3>2, <4>2
      <4> QED BY <4>1, <4>2
    <3> QED BY <2>6, <3>1, <3>3 DEF Led
  <2>8. ASSUME NEW p \in new PROVE Led(edges', p)
    <3>1. PICK n \in nodes : p = <<n, id>> /\ Builder!First(n) = u /\ Builder!GoesOn(n)
      OBVIOUS
    <3>2. FirstOf(edges, n, u)
      BY <1>0, <3>1, FirstIs
    <3>3. FirstOf(edges', p[1], u)
      BY <2>6, <3>1, <3>2
    <3>4. Reaches(edges'[u], p[2])
      BY <2>2, <2>3, <3>1, PlainIs DEF Reaches
    <3> QED BY <3>3, <3>4 DEF Led
  <2>9. JoinsAre(edges', nodes')
    BY <1>0, <1>1, <2>2, <2>3 DEF Fine, JoinsAre
  <2> HIDE DEF new
  <2>10. Fine(edges', asked', nodes')
    BY <1>1, <2>4, <2>7, <2>8, <2>9 DEF Fine
  <2> QED BY <1>1, <2>10, FluentFine
<1> QED BY <1>2, <1>3

LEMMA BranchKeeps ==
  ASSUME GraphInv, style = "fluent", style' = style, compiled' = FALSE,
         NEW to, NEW given, Builder!Branch(to, given)
  PROVE  GraphInv'
<1> DEFINE e == Builder!Conditional(last, to)
<1>1. /\ last # Builder!None /\ nodes \subseteq nodes' /\ last' = Builder!None
      /\ edges' = Append(edges, e) /\ asked' = asked \cup Builder!Follow(Builder!ToSet(to))
  BY DEF Builder!Branch, Builder!AddsNew
<1>2. edges' = Builder!Linked(e)
  BY <1>1 DEF Builder!Linked
<1>3. Fine(edges', asked', nodes)
  BY <1>1, <1>2, EdgesAre, LinkedFine
<1>4. Fine(edges', asked', nodes')
  BY <1>1, <1>3, FineStays
<1> QED BY <1>1, <1>4, FluentFine

LEMMA IfThenKeeps ==
  ASSUME GraphInv, style = "fluent", style' = style, compiled' = FALSE,
         NEW yes, NEW no, Builder!IfThen(yes, no)
  PROVE  GraphInv'
<1> DEFINE e == Builder!Conditional(last, <<yes, no>>)
<1>1. /\ nodes \subseteq nodes' /\ last' = Builder!None
      /\ edges' = Builder!Linked(e) /\ asked' = asked \cup Builder!Follow({yes, no})
  BY DEF Builder!IfThen, Builder!AddsNew
<1>2. e.from = last /\ e.join = Builder!None /\ \A x \in {yes, no} : Reaches(e, x)
  BY EdgesAre, PairIs
<1> HIDE DEF e
<1>3. Fine(edges', asked', nodes)
  BY <1>1, <1>2, LinkedFine
<1>4. Fine(edges', asked', nodes')
  BY <1>1, <1>3, FineStays
<1> QED BY <1>1, <1>4, FluentFine

LEMMA LoopKeeps ==
  ASSUME GraphInv, style = "fluent", style' = style, compiled' = FALSE,
         NEW id \in Builder!Plain, Builder!Loop(id)
  PROVE  GraphInv'
<1> DEFINE e == Builder!Edge(last, id)
           r == Builder!Repeat(id)
           es == IF last = id THEN edges ELSE Builder!Linked(e)
           self == IF Builder!GoesOn(id) THEN {} ELSE {<<id, id>>}
<1>0. Fine(edges, asked, nodes) /\ IsEdges(edges)
  BY DEF GraphInv, Fine
<1>1. /\ nodes' = nodes \cup ({id} \ {Builder!End}) /\ last' = id
      /\ edges' = Append(es, r) /\ asked' = asked \cup Builder!Follow({id}) \cup self
  BY PairIs DEF Builder!Loop, Builder!AddsNew
<1>2. id # Builder!None /\ id \in nodes' /\ nodes \subseteq nodes'
  BY <1>1, PlainIs
<1>3. r.from = id /\ r.join = Builder!None /\ Reaches(r, id)
  BY EdgesAre
<1>4. e.from = last /\ e.join = Builder!None /\ Reaches(e, id)
  BY EdgesAre
<1> HIDE DEF e, r
<1>5. /\ Fine(es, asked, nodes)
      /\ last # id => Fine(es, asked \cup Builder!Follow({id}), nodes)
      /\ last = id => Builder!Follow({id}) \subseteq self
      /\ ~Builder!GoesOn(id) => \A i \in DOMAIN es : es[i].from # id
  <2>1. CASE last = id
    <3>1. es = edges
      BY <2>1
    <3>2. Builder!Follow({id}) \subseteq self
      BY <2>1 DEF Builder!Follow
    <3> QED BY <1>0, <2>1, <3>1, <3>2, FirstIs
  <2>2. CASE last # id
    <3>1. es = Builder!Linked(e)
      BY <2>2
    <3>2. Fine(es, asked \cup Builder!Follow({id}), nodes)
      BY <1>4, <3>1, LinkedFine
    <3>3. Fine(es, asked, nodes)
      BY <3>2 DEF Fine
    <3>4. es = edges \/ es = Append(edges, e)
      BY <3>1 DEF Builder!Linked
    <3>5. ~Builder!GoesOn(id) => \A i \in DOMAIN edges : edges[i].from # id
      BY <1>0, FirstIs
    <3>6. ~Builder!GoesOn(id) => \A i \in DOMAIN es : es[i].from # id
      <4> HIDE DEF es
      <4> QED BY <1>0, <1>4, <2>2, <3>4, <3>5, Grown
    <3> QED BY <2>2, <3>2, <3>3, <3>6
  <2> QED BY <2>1, <2>2
<1> HIDE DEF es
<1>6. Fine(edges', asked, nodes) /\ (last # id => Fine(edges', asked \cup Builder!Follow({id}), nodes))
  BY <1>1, <1>3, <1>5, StillFine
<1>7. \A p \in self : Led(edges', p)
  <2>1. CASE Builder!GoesOn(id)
    BY <2>1
  <2>2. CASE ~Builder!GoesOn(id)
    <3>1. Led(Append(es, r), <<r.from, id>>)
      BY <1>3, <1>5, <2>2, NewlyLed DEF Fine
    <3> QED BY <1>1, <1>3, <2>2, <3>1
  <2> QED BY <2>1, <2>2
<1> HIDE DEF self
<1>8. \A p \in asked' : Led(edges', p)
  BY <1>1, <1>5, <1>6, <1>7 DEF Fine
<1>9. Fine(edges', asked', nodes')
  BY <1>2, <1>6, <1>8 DEF Fine, JoinsAre
<1> QED BY <1>1, <1>2, <1>9, FluentFine

LEMMA FluentKeeps == GraphInv /\ Builder!Fluent => GraphInv'
<1> SUFFICES ASSUME GraphInv, Builder!Fluent PROVE GraphInv'
  OBVIOUS
<1>1. style = "fluent" /\ style' = style /\ compiled' = FALSE
  BY DEF Builder!Fluent
<1>2. PICK id \in Builder!Plain :
        \/ Builder!Then(id)
        \/ Builder!Join(id)
        \/ Builder!Loop(id)
        \/ \E other \in Builder!Targets : Builder!IfThen(id, other)
        \/ \E other \in Builder!Targets, given \in BOOLEAN : Builder!Branch(<<id, other>>, given)
        \/ \E other \in Builder!Plain : Builder!FanOut(<<id>>) \/ Builder!FanOut(<<id, other>>)
  BY DEF Builder!Fluent
<1>3. CASE Builder!Then(id)
  BY <1>1, <1>3, ThenKeeps
<1>4. CASE Builder!Join(id)
  BY <1>1, <1>4, JoinKeeps
<1>5. CASE Builder!Loop(id)
  BY <1>1, <1>5, LoopKeeps
<1>6. CASE \E other \in Builder!Targets : Builder!IfThen(id, other)
  BY <1>1, <1>6, IfThenKeeps
<1>7. CASE \E other \in Builder!Targets, given \in BOOLEAN : Builder!Branch(<<id, other>>, given)
  BY <1>1, <1>7, BranchKeeps
<1>8. CASE \E other \in Builder!Plain : Builder!FanOut(<<id>>) \/ Builder!FanOut(<<id, other>>)
  BY <1>1, <1>8, FanOutKeeps
<1> QED BY <1>2, <1>3, <1>4, <1>5, <1>6, <1>7, <1>8

LEMMA ExplicitKeeps == GraphInv /\ Builder!Explicit => GraphInv'
<1> SUFFICES ASSUME GraphInv, Builder!Explicit PROVE GraphInv'
  OBVIOUS
<1>1. /\ style = "explicit" /\ style' = style /\ compiled' = FALSE
      /\ last' = last /\ asked' = asked
  BY DEF Builder!Explicit
<1>2. edges' = edges \/ \E e : edges' = Append(edges, e)
  BY DEF Builder!Explicit, Builder!AddNode, Builder!SetEntryPoint, Builder!AddEdge
<1>3. last = Builder!None /\ asked = {} /\ IsEdges(edges)
  BY <1>1 DEF GraphInv
<1>4. IsEdges(edges')
  <2>1. CASE edges' = edges
    BY <1>3, <2>1
  <2>2. CASE \E e : edges' = Append(edges, e)
    <3>1. PICK e : edges' = Append(edges, e)
      BY <2>2
    <3>2. IsEdges(Append(edges, e))
      BY <1>3, Grown
    <3> QED BY <3>1, <3>2
  <2> QED BY <1>2, <2>1, <2>2
<1> QED BY <1>1, <1>3, <1>4 DEF GraphInv

LEMMA HandoffKeeps == GraphInv /\ Builder!AddHandoff => GraphInv'
BY DEF GraphInv, Builder!AddHandoff

(* The edge that compile() adds leads from a node to END.                  *)
LEMMA CompileKeeps == GraphInv /\ Builder!Compile => GraphInv'
<1> SUFFICES ASSUME GraphInv, Builder!Compile PROVE GraphInv'
  OBVIOUS
<1> DEFINE e == Builder!Edge(last, Builder!End)
           Good(x) == x.from \in nodes /\ Builder!ToSet(x.to) \subseteq nodes \cup {Builder!End}
<1>1. /\ style' = style /\ nodes' = nodes /\ last' = last /\ asked' = asked /\ entry' = entry
      /\ entry \in nodes /\ edges' = Builder!Closed
      /\ \A i \in DOMAIN edges : Builder!Validated(edges[i])
  BY DEF Builder!Compile, Builder!Valid
<1>2. \A i \in DOMAIN edges : Good(edges[i])
  BY <1>1 DEF Builder!Validated, Builder!Exists, Builder!ToSet
<1>3. IsEdges(edges)
  BY DEF GraphInv, Fine
<1>4. e.join = Builder!None /\ (last \in nodes => Good(e))
  BY EdgesAre, PairIs DEF Builder!Edge
<1>5. edges' = edges \/ (last # Builder!None /\ edges' = Append(edges, e))
  BY <1>1 DEF Builder!Closed
<1> HIDE DEF e
<1>6. last # Builder!None => last \in nodes /\ style = "fluent"
  BY DEF GraphInv
<1> HIDE DEF Good
<1>7. \A i \in DOMAIN edges' : Good(edges'[i])
  <2>1. CASE edges' = edges
    BY <1>2, <2>1
  <2>2. CASE last # Builder!None /\ edges' = Append(edges, e)
    <3>1. Good(e)
      BY <1>4, <1>6, <2>2
    <3>2. \A i \in 1 .. (Len(edges) + 1) : Good(edges'[i])
      BY <1>2, <1>3, <2>2, <3>1, Grown
    <3> QED BY <1>3, <2>2, <3>2, Grown
  <2> QED BY <1>5, <2>1, <2>2
<1>8. style = "fluent" => Fine(edges', asked, nodes)
  BY <1>4, <1>5, StillFine DEF GraphInv
<1>9. style = "explicit" => edges' = edges
  BY <1>5 DEF GraphInv
<1> QED BY <1>1, <1>7, <1>8, <1>9 DEF GraphInv, Good

LEMMA GraphStarts == Builder!Init => GraphInv
<1> SUFFICES ASSUME Builder!Init PROVE GraphInv
  OBVIOUS
<1>1. IsEdges(<< >>)
  BY DEF IsEdges
<1>2. edges = << >> /\ asked = {} /\ last = Builder!None /\ compiled = FALSE /\ style \in {"fluent", "explicit"}
  BY DEF Builder!Init
<1>3. JoinsAre(edges, nodes)
  BY <1>2 DEF JoinsAre
<1> QED BY <1>1, <1>2, <1>3 DEF GraphInv, Fine

LEMMA GraphIsAsked == GraphInv => Builder!BuiltAsAsked
<1> SUFFICES ASSUME GraphInv, compiled PROVE
      /\ entry \in nodes
      /\ \A e \in Builder!ToSet(edges) :
           /\ e.from \in nodes
           /\ (IF style = "fluent" THEN Builder!Goes(e) ELSE Builder!ToSet(e.to)) \subseteq nodes \cup {Builder!End}
      /\ \A p \in asked : p[2] \in Builder!After(p[1])
  BY Zenon DEF Builder!BuiltAsAsked
<1>1. entry \in nodes /\ IsEdges(edges)
  BY DEF GraphInv, Fine
<1>2. ASSUME NEW e \in Builder!ToSet(edges)
      PROVE  /\ e.from \in nodes
             /\ (IF style = "fluent" THEN Builder!Goes(e) ELSE Builder!ToSet(e.to)) \subseteq nodes \cup {Builder!End}
  <2>1. PICK i \in DOMAIN edges : e = edges[i]
    BY DEF Builder!ToSet
  <2>2. e.from \in nodes /\ Builder!ToSet(e.to) \subseteq nodes \cup {Builder!End}
    BY <2>1 DEF GraphInv
  <2>3. style = "fluent" /\ e.kind = "parallel" => e.join \in nodes \cup {Builder!None}
    BY <2>1 DEF GraphInv, Fine, JoinsAre
  <2> QED BY <2>2, <2>3 DEF Builder!Goes
<1>3. ASSUME NEW p \in asked
      PROVE  p[2] \in Builder!After(p[1])
  <2>1. Led(edges, p)
    BY DEF GraphInv, Fine
  <2>2. PICK i : FirstOf(edges, p[1], i) /\ Reaches(edges[i], p[2])
    BY <2>1 DEF Led
  <2>3. Builder!GoesOn(p[1]) /\ FirstOf(edges, p[1], Builder!First(p[1]))
    BY <1>1, <2>2, FirstIs DEF FirstOf
  <2>4. DOMAIN edges \subseteq Nat
    BY <1>1 DEF IsEdges
  <2>5. Builder!First(p[1]) = i
    BY <2>2, <2>3, <2>4 DEF FirstOf
  <2>6. p[2] \in Builder!Goes(edges[i])
    BY <2>2 DEF Reaches, Builder!Goes
  <2> QED BY <2>3, <2>5, <2>6 DEF Builder!After
<1> QED BY <1>1, <1>2, <1>3

(* A graph that compile() returned as it is begins and goes on at nodes    *)
(* that exist, and where fluent calls put a node behind one that went      *)
(* nowhere the engine can go, whatever was called and compiled in between. *)
THEOREM GraphStaysAsAsked == Spec => []BuiltAsAsked
<1> DEFINE Held == part = "graphs" => GraphInv
<1>1. Init => Held
  BY GraphStarts DEF Init
<1>2. Held /\ [Next]_vars => Held'
  <2> SUFFICES ASSUME Held, [Next]_vars, part' = "graphs" PROVE GraphInv'
    OBVIOUS
  <2>1. part = "graphs" /\ GraphInv
    BY DEF Next, vars
  <2>2. CASE UNCHANGED graphs
    BY <2>1, <2>2 DEF graphs, GraphInv
  <2>3. CASE Builder!Next
    BY <2>1, <2>3, FluentKeeps, ExplicitKeeps, HandoffKeeps, CompileKeeps DEF Builder!Next
  <2> QED BY <2>1, <2>2, <2>3 DEF Next, vars
<1>3. Held => BuiltAsAsked
  BY GraphIsAsked DEF BuiltAsAsked
<1> QED
  BY <1>1, <1>2, <1>3, PTL DEF Spec

==============================================================================
