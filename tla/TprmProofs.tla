------------------------------ MODULE TprmProofs -------------------------------
(***************************************************************************)
(* Proofs about the TPRM application.  The service, for any number of      *)
(* runs, clients, nodes and places in the registry: what a run tells on    *)
(* its queue, what a client that follows it gets, and which runs an        *)
(* eviction takes.  An assessment, for any requests, documents, routes and *)
(* answers: that its report is whole, and its decision strict.             *)
(***************************************************************************)
EXTENDS MCTprm, FiniteSetTheorems, WellFoundedInduction, TLAPS

-----------------------------------------------------------------------------
(***************************************************************************)
(* What a run tells.  Its queue holds the start and one event for each     *)
(* node reported, and at the end its conclusion, unless the run was        *)
(* evicted, between these and the two marks that close the stream.         *)
(***************************************************************************)
Words == {"started", "node_done", "verdict", "error", "done", "sentinel"}
Body(k) == [i \in 1 .. (k + 1) |-> IF i = 1 THEN "started" ELSE "node_done"]
Telling(k, v) == (Body(k) \o v) \o <<"done", "sentinel">>
Verdicts == {<<>>, <<"verdict">>, <<"error">>}

LEMMA BodyIs ==
  ASSUME NEW k \in Nat
  PROVE  /\ Body(k) \in Seq(Words) /\ Len(Body(k)) = k + 1
         /\ \A i \in 1 .. (k + 1) : Body(k)[i] = IF i = 1 THEN "started" ELSE "node_done"
  BY DEF Body, Words

LEMMA ConcatIs ==
  ASSUME NEW s \in Seq(Words), NEW t \in Seq(Words)
  PROVE  /\ s \o t \in Seq(Words) /\ Len(s \o t) = Len(s) + Len(t)
         /\ \A i \in 1 .. Len(s) : (s \o t)[i] = s[i]
         /\ \A i \in 1 .. Len(t) : (s \o t)[Len(s) + i] = t[i]
<1>1. s \o t \in Seq(Words) /\ Len(s \o t) = Len(s) + Len(t)
  OBVIOUS
<1>2. \A i \in 1 .. Len(s) : (s \o t)[i] = s[i]
  OBVIOUS
<1>3. \A i \in 1 .. Len(t) : (s \o t)[Len(s) + i] = t[i]
  OBVIOUS
<1> QED BY <1>1, <1>2, <1>3

LEMMA SameSequence ==
  ASSUME NEW s \in Seq(Words), NEW t \in Seq(Words), Len(s) = Len(t),
         \A i \in 1 .. Len(s) : s[i] = t[i]
  PROVE  s = t
<1>1. s = [i \in 1 .. Len(s) |-> s[i]] /\ t = [i \in 1 .. Len(t) |-> t[i]]
  OBVIOUS
<1> QED BY <1>1

LEMMA BodyGrows ==
  ASSUME NEW k \in Nat, NEW d \in Nat, k <= d
  PROVE  Body(k) \o [n \in 1 .. (d - k) |-> "node_done"] = Body(d)
<1> DEFINE t == [n \in 1 .. (d - k) |-> "node_done"]
<1>1. t \in Seq(Words) /\ Len(t) = d - k /\ \A n \in 1 .. (d - k) : t[n] = "node_done"
  BY DEF Words
<1> HIDE DEF t
<1> DEFINE b == Body(k) \o t
<1>2. /\ Body(k) \in Seq(Words) /\ Len(Body(k)) = k + 1
      /\ \A i \in 1 .. (k + 1) : Body(k)[i] = IF i = 1 THEN "started" ELSE "node_done"
      /\ Body(d) \in Seq(Words) /\ Len(Body(d)) = d + 1
      /\ \A i \in 1 .. (d + 1) : Body(d)[i] = IF i = 1 THEN "started" ELSE "node_done"
  BY BodyIs
<1>3. /\ b \in Seq(Words) /\ Len(b) = k + 1 + (d - k)
      /\ \A i \in 1 .. (k + 1) : b[i] = Body(k)[i]
      /\ \A i \in 1 .. (d - k) : b[k + 1 + i] = t[i]
  <2>1. /\ b \in Seq(Words) /\ Len(b) = Len(Body(k)) + Len(t)
        /\ \A i \in 1 .. Len(Body(k)) : b[i] = Body(k)[i]
        /\ \A i \in 1 .. Len(t) : b[Len(Body(k)) + i] = t[i]
    <3>1. Body(k) \in Seq(Words) /\ t \in Seq(Words)
      BY <1>1, <1>2
    <3> QED BY <3>1, ConcatIs
  <2>2. Len(Body(k)) = k + 1 /\ Len(t) = d - k
    BY <1>1, <1>2
  <2> HIDE DEF b
  <2> QED BY <2>1, <2>2
<1> HIDE DEF b
<1>4. Len(b) = d + 1
  BY <1>3
<1>5. \A i \in 1 .. (d + 1) : b[i] = Body(d)[i]
  <2> TAKE i \in 1 .. (d + 1)
  <2>1. CASE i <= k + 1
    BY <1>2, <1>3, <2>1
  <2>2. CASE i > k + 1
    <3>1. i - (k + 1) \in 1 .. (d - k) /\ i = k + 1 + (i - (k + 1))
      BY <2>2
    <3>2. b[i] = t[i - (k + 1)]
      BY <1>3, <3>1
    <3> QED BY <1>1, <1>2, <2>2, <3>1, <3>2
  <2> QED BY <2>1, <2>2
<1>6. b = Body(d)
  BY <1>2, <1>3, <1>4, <1>5, SameSequence
<1> QED BY <1>6 DEF b, t

LEMMA TellingIs ==
  ASSUME NEW k \in Nat, NEW v \in Verdicts
  PROVE  LET s == Telling(k, v)   n == k + 3 + Len(v) IN
           /\ s \in Seq(Words) /\ Len(s) = n /\ Len(v) \in {0, 1}
           /\ s[n] = "sentinel" /\ s[n - 1] = "done" /\ (Len(v) = 1 => s[k + 2] = v[1])
           /\ \A i \in 1 .. (k + 1) : s[i] = IF i = 1 THEN "started" ELSE "node_done"
<1>1. v \in Seq(Words) /\ Len(v) \in {0, 1}
  <2>1. CASE v = <<>>
    BY <2>1
  <2>2. CASE v = <<"verdict">>
    BY <2>2 DEF Words
  <2>3. CASE v = <<"error">>
    BY <2>3 DEF Words
  <2> QED BY <2>1, <2>2, <2>3 DEF Verdicts
<1> DEFINE c == <<"done", "sentinel">>   b == Body(k) \o v   s == b \o c
<1>2. c \in Seq(Words) /\ Len(c) = 2 /\ c[1] = "done" /\ c[2] = "sentinel"
  BY DEF Words
<1>3. /\ Body(k) \in Seq(Words) /\ Len(Body(k)) = k + 1
      /\ \A i \in 1 .. (k + 1) : Body(k)[i] = IF i = 1 THEN "started" ELSE "node_done"
  BY BodyIs
<1> HIDE DEF c
<1>4. /\ b \in Seq(Words) /\ Len(b) = k + 1 + Len(v)
      /\ \A i \in 1 .. (k + 1) : b[i] = Body(k)[i]
      /\ \A i \in 1 .. Len(v) : b[k + 1 + i] = v[i]
  <2>1. /\ b \in Seq(Words) /\ Len(b) = Len(Body(k)) + Len(v)
        /\ \A i \in 1 .. Len(Body(k)) : b[i] = Body(k)[i]
        /\ \A i \in 1 .. Len(v) : b[Len(Body(k)) + i] = v[i]
    <3>1. Body(k) \in Seq(Words) /\ v \in Seq(Words)
      BY <1>1, <1>3
    <3> QED BY <3>1, ConcatIs
  <2>2. Len(Body(k)) = k + 1
    BY <1>3
  <2> HIDE DEF b
  <2> QED BY <2>1, <2>2
<1>5. Len(v) = 1 => b[k + 1 + 1] = v[1]
  BY <1>4
<1> HIDE DEF b
<1>6. /\ s \in Seq(Words) /\ Len(s) = k + 1 + Len(v) + 2
      /\ \A i \in 1 .. (k + 1 + Len(v)) : s[i] = b[i]
      /\ \A i \in 1 .. 2 : s[k + 1 + Len(v) + i] = c[i]
  <2>1. /\ s \in Seq(Words) /\ Len(s) = Len(b) + Len(c)
        /\ \A i \in 1 .. Len(b) : s[i] = b[i]
        /\ \A i \in 1 .. Len(c) : s[Len(b) + i] = c[i]
    <3>1. b \in Seq(Words) /\ c \in Seq(Words)
      BY <1>2, <1>4
    <3> QED BY <3>1, ConcatIs
  <2>2. Len(b) = k + 1 + Len(v) /\ Len(c) = 2
    BY <1>2, <1>4
  <2> HIDE DEF s
  <2> QED BY <2>1, <2>2
<1>7. s[k + 1 + Len(v) + 1] = "done" /\ s[k + 1 + Len(v) + 2] = "sentinel"
  BY <1>2, <1>6
<1> HIDE DEF s
<1> DEFINE n == k + 3 + Len(v)
<1>8. Len(s) = n /\ s[n] = "sentinel" /\ s[n - 1] = "done"
  <2>1. k + 1 + Len(v) + 2 = n /\ k + 1 + Len(v) + 1 = n - 1
    BY <1>1
  <2> QED BY <1>6, <1>7, <2>1
<1>9. Len(v) = 1 => s[k + 2] = v[1]
  <2> SUFFICES ASSUME Len(v) = 1 PROVE s[k + 2] = v[1]
    OBVIOUS
  <2>1. k + 2 \in 1 .. (k + 1 + Len(v)) /\ k + 1 + 1 = k + 2
    OBVIOUS
  <2> QED BY <1>5, <1>6, <2>1
<1>10. \A i \in 1 .. (k + 1) : s[i] = IF i = 1 THEN "started" ELSE "node_done"
  <2>1. \A i \in 1 .. (k + 1) : i \in 1 .. (k + 1 + Len(v))
    BY <1>1
  <2> QED BY <1>3, <1>4, <1>6, <2>1
<1>11. Telling(k, v) = s
  BY DEF Telling, s, b, c
<1> QED BY <1>1, <1>6, <1>8, <1>9, <1>10, <1>11

LEMMA LastTwo ==
  ASSUME NEW s \in Seq(Words), Len(s) - 1 \in 1 .. Len(s)
  PROVE  SubSeq(s, Len(s) - 1, Len(s)) = <<s[Len(s) - 1], s[Len(s)]>>
<1> DEFINE t == SubSeq(s, Len(s) - 1, Len(s))   p == <<s[Len(s) - 1], s[Len(s)]>>
<1>1. t \in Seq(Words) /\ Len(t) = 2 /\ t[1] = s[Len(s) - 1] /\ t[2] = s[Len(s)]
  OBVIOUS
<1>2. s[Len(s) - 1] \in Words /\ s[Len(s)] \in Words
  OBVIOUS
<1>3. p \in Seq(Words) /\ Len(p) = 2 /\ p[1] = s[Len(s) - 1] /\ p[2] = s[Len(s)]
  BY <1>2
<1> HIDE DEF t, p
<1>4. \A i \in 1 .. Len(t) : t[i] = p[i]
  BY <1>1, <1>3
<1>5. t = p
  BY <1>1, <1>3, <1>4, SameSequence
<1> QED BY <1>5 DEF t, p

LEMMA CountIs ==
  ASSUME NEW s, NEW e
  PROVE  Service!Count(s, e) = Cardinality({i \in DOMAIN s : s[i] = e})
  BY DEF Service!Count, Service!Cardinality, Cardinality

ToldOnce(s, k, v) ==
  /\ Len(s) >= 2 /\ SubSeq(s, Len(s) - 1, Len(s)) = <<"done", "sentinel">>
  /\ Service!Count(s, "sentinel") = 1 /\ \A i \in 1 .. Len(s) : s[i] = "sentinel" => i = Len(s)
  /\ Service!Count(s, "node_done") = k
  /\ Service!Count(s, "verdict") = IF v = <<"verdict">> THEN 1 ELSE 0
  /\ Service!Count(s, "error") = IF v = <<"error">> THEN 1 ELSE 0

LEMMA TellingCounts ==
  ASSUME NEW k \in Nat, NEW v \in Verdicts, NEW s, s = Telling(k, v)
  PROVE  ToldOnce(s, k, v)
<1> DEFINE n == k + 3 + Len(v)   At(e) == {i \in DOMAIN s : s[i] = e}
<1>1. /\ s \in Seq(Words) /\ Len(s) = n /\ Len(v) \in {0, 1}
      /\ s[n] = "sentinel" /\ s[n - 1] = "done" /\ (Len(v) = 1 => s[k + 2] = v[1])
      /\ \A i \in 1 .. (k + 1) : s[i] = IF i = 1 THEN "started" ELSE "node_done"
  BY TellingIs
<1>2. DOMAIN s = 1 .. n /\ n \in Nat /\ n >= 3
  BY <1>1
<1>3. Len(v) = 1 => v[1] \in {"verdict", "error"} /\ v = <<v[1]>>
  BY DEF Verdicts
<1>4. Len(v) = 0 => v = <<>>
  BY DEF Verdicts
<1> DEFINE l == Len(v)
<1>5. SubSeq(s, Len(s) - 1, Len(s)) = <<"done", "sentinel">>
  <2>1. Len(s) \in Nat /\ Len(s) - 1 \in 1 .. Len(s) /\ s[Len(s)] = "sentinel" /\ s[Len(s) - 1] = "done"
    BY <1>1, <1>2
  <2>2. s \in Seq(Words)
    BY <1>1
  <2> QED BY <2>1, <2>2, LastTwo
<1>a. l \in {0, 1} /\ n = k + 3 + l
  BY <1>1
<1>b. s[n] = "sentinel" /\ s[n - 1] = "done"
  BY <1>1
<1>c. l = 1 => s[k + 2] = v[1] /\ v[1] \in {"verdict", "error"} /\ v = <<v[1]>>
  BY <1>1, <1>3
<1>d. l = 0 => v = <<>>
  BY <1>4
<1>e. \A i \in 1 .. (k + 1) : s[i] = IF i = 1 THEN "started" ELSE "node_done"
  BY <1>1
<1> HIDE DEF n, l
<1>6. \A i \in 1 .. n :
        /\ i <= k + 1 => s[i] \in {"started", "node_done"} /\ (s[i] = "started" <=> i = 1)
        /\ i > k + 1 => \/ i = n /\ s[i] = "sentinel"
                        \/ i = n - 1 /\ s[i] = "done"
                        \/ i = k + 2 /\ l = 1 /\ s[i] = v[1]
  <2> TAKE i \in 1 .. n
  <2>1. i <= k + 1 \/ i = n \/ i = n - 1 \/ (i = k + 2 /\ l = 1)
    BY <1>a
  <2>2. i <= k + 1 => i \in 1 .. (k + 1)
    BY <1>2
  <2>3. i <= k + 1 => s[i] \in {"started", "node_done"} /\ (s[i] = "started" <=> i = 1)
    BY <1>e, <2>2
  <2>4. i > k + 1 => \/ i = n /\ s[i] = "sentinel"
                     \/ i = n - 1 /\ s[i] = "done"
                     \/ i = k + 2 /\ l = 1 /\ s[i] = v[1]
    BY <1>2, <1>b, <1>c, <2>1
  <2> QED BY <2>3, <2>4
<1>7. n \in 1 .. n /\ n > k + 1 /\ n # k + 2 /\ (l = 1 => k + 2 \in 1 .. n /\ k + 2 # n - 1)
  BY <1>a, <1>2
<1>g. \A i \in 1 .. n : s[i] = "sentinel" <=> i = n
  BY <1>2, <1>6, <1>7, <1>b, <1>c
<1>8. At("sentinel") = {n}
  BY <1>2, <1>7, <1>g
<1>9. At("node_done") = 2 .. (k + 1)
  <2>1. \A i \in 1 .. n : s[i] = "node_done" <=> i # 1 /\ i <= k + 1
    BY <1>6, <1>c, <1>2
  <2>2. \A i : i \in 2 .. (k + 1) <=> i \in 1 .. n /\ i # 1 /\ i <= k + 1
    BY <1>a
  <2> QED BY <1>2, <2>1, <2>2
<1>f. \A e \in {"verdict", "error"} : At(e) = IF v = <<e>> THEN {k + 2} ELSE {}
  <2> TAKE e \in {"verdict", "error"}
  <2>1. v = <<e>> => l = 1 /\ v[1] = e
    BY DEF l
  <2>2. \A i \in 1 .. n : s[i] = e <=> i = k + 2 /\ v = <<e>>
    <3> TAKE i \in 1 .. n
    <3>1. s[i] = e => i = k + 2 /\ l = 1 /\ s[i] = v[1]
      BY <1>2, <1>6
    <3>2. s[i] = e => v = <<e>>
      BY <3>1, <1>c
    <3>3. i = k + 2 /\ v = <<e>> => s[i] = e
      BY <2>1, <1>c
    <3> QED BY <3>1, <3>2, <3>3
  <2>3. v = <<e>> => k + 2 \in 1 .. n
    BY <1>7, <2>1
  <2> QED BY <1>2, <2>2, <2>3
<1>10. At("verdict") = IF v = <<"verdict">> THEN {k + 2} ELSE {}
  BY <1>f
<1>11. At("error") = IF v = <<"error">> THEN {k + 2} ELSE {}
  BY <1>f
<1>12. Cardinality({n}) = 1 /\ Cardinality({k + 2}) = 1 /\ Cardinality({}) = 0
  BY FS_Singleton, FS_EmptySet
<1>13. Cardinality(2 .. (k + 1)) = k
  BY FS_Interval
<1>14. \A e : Service!Count(s, e) = Cardinality(At(e))
  BY CountIs
<1>15. Len(s) >= 2
  BY <1>1, <1>2
<1> HIDE DEF At
<1>16. Service!Count(s, "sentinel") = 1 /\ Service!Count(s, "node_done") = k
  BY <1>8, <1>9, <1>12, <1>13, <1>14
<1>17. Service!Count(s, "verdict") = IF v = <<"verdict">> THEN 1 ELSE 0
  BY <1>10, <1>12, <1>14
<1>18. Service!Count(s, "error") = IF v = <<"error">> THEN 1 ELSE 0
  BY <1>11, <1>12, <1>14
<1>19. \A i \in 1 .. Len(s) : s[i] = "sentinel" => i = Len(s)
  BY <1>1, <1>g DEF n
<1> QED BY <1>5, <1>15, <1>16, <1>17, <1>18, <1>19 DEF ToldOnce
-----------------------------------------------------------------------------
(***************************************************************************)
(* The invariant of the service.  What is on the queue of a run follows    *)
(* from the state of its task and the nodes it has reported; and of the    *)
(* streams of a run that has one, that one has what was taken.             *)
(***************************************************************************)
Runs == Service!Runs
serviceTypes ==
  /\ started \in 0 .. LastRun /\ listed \subseteq 1 .. started /\ expired \subseteq 1 .. started
  /\ status \in [Runs -> {"none", "accepted", "running", "done", "error"}]
  /\ task \in [Runs -> {"none", "created", "polling", "ended"}]
  /\ graph \in [Runs -> [done : Nat, result : {"none", "returned", "raised"}]]
  /\ shown \in [Runs -> Nat] /\ emitted \in [Runs -> Seq(Words)] /\ taken \in [Runs -> Nat]
  /\ stream \in [Clients -> [run : 0 .. LastRun, got : Nat,
                             state : {"unused", "open", "finished", "cut", "left"}]]

Ended(r) ==
  \E v \in Verdicts :
    /\ emitted[r] = Telling(shown[r], v)
    /\ v = <<>> => status[r] \in {"accepted", "running"}
    /\ v = <<"error">> => status[r] = "error"
    /\ v = <<"verdict">> => status[r] = "done" /\ shown[r] = Steps
RunHolds(r) ==
  /\ task[r] = "none" <=> r > started
  /\ task[r] \in {"none", "created"} =>
       emitted[r] = <<>> /\ shown[r] = 0 /\ graph[r].done = 0 /\ graph[r].result = "none"
  /\ task[r] = "none" => status[r] = "none"
  /\ task[r] = "created" => status[r] = "accepted"
  /\ task[r] = "polling" => status[r] = "running" /\ emitted[r] = Body(shown[r])
  /\ task[r] = "ended" => Ended(r)
  /\ shown[r] <= graph[r].done /\ graph[r].done <= Steps
  /\ graph[r].result = "returned" => graph[r].done = Steps

Follows(c, r) == stream[c].run = r
StreamHolds(c) ==
  LET r == stream[c].run IN
  /\ stream[c].state = "unused" <=> r = 0
  /\ stream[c].state = "finished" => task[r] = "ended" /\ taken[r] = Len(emitted[r])
  /\ r # 0 /\ (\A d \in Clients \ {c} : ~Follows(d, r)) =>
       taken[r] = IF stream[c].state = "finished" THEN stream[c].got + 1 ELSE stream[c].got
QueueHolds(r) ==
  /\ taken[r] <= Len(emitted[r])
  /\ (\A c \in Clients : ~Follows(c, r)) => taken[r] = 0

ServiceInv ==
  /\ serviceTypes
  /\ \A r \in Runs : RunHolds(r)
  /\ \A r \in Runs : QueueHolds(r)
  /\ \A c \in Clients : StreamHolds(c)

LEMMA ServiceInit == ASSUME Service!Init PROVE ServiceInv
<1>0. LastRun \in Nat /\ Steps \in Nat /\ \A r \in Runs : r \in 1 .. LastRun
  BY ServiceAssumption DEF Service!TprmAssumption, Runs, Service!Runs
<1>1. serviceTypes
  <2>1. graph \in [Runs -> [done : Nat, result : {"none", "returned", "raised"}]]
    BY DEF Service!Init, Runs, Service!Runs
  <2>2. stream \in [Clients -> [run : 0 .. LastRun, got : Nat,
                                state : {"unused", "open", "finished", "cut", "left"}]]
    BY <1>0 DEF Service!Init, Service!NoStream
  <2>3. emitted \in [Runs -> Seq(Words)]
    BY DEF Service!Init, Runs, Service!Runs
  <2> QED BY <1>0, <2>1, <2>2, <2>3 DEF Service!Init, serviceTypes, Runs, Service!Runs
<1>2. \A r \in Runs : RunHolds(r)
  BY <1>0 DEF Service!Init, RunHolds, Runs, Service!Runs
<1>3. \A r \in Runs : QueueHolds(r)
  BY <1>0 DEF Service!Init, QueueHolds, Runs, Service!Runs
<1>4. \A c \in Clients : stream[c].run = 0 /\ stream[c].state = "unused"
  BY DEF Service!Init, Service!NoStream
<1>5. \A c \in Clients : StreamHolds(c)
  BY <1>4 DEF StreamHolds
<1> QED BY <1>1, <1>2, <1>3, <1>5 DEF ServiceInv

(* A run that nothing happens to keeps what holds of it, and what its      *)
(* streams have.                                                           *)
SameRun(r) ==
  /\ task'[r] = task[r] /\ status'[r] = status[r] /\ graph'[r] = graph[r]
  /\ shown'[r] = shown[r] /\ emitted'[r] = emitted[r]

LEMMA SameRunHolds ==
  ASSUME NEW r \in Runs, RunHolds(r), SameRun(r), started' = started
  PROVE  RunHolds(r)'
BY DEF RunHolds, SameRun, Ended

(* The queue of a run only grows, and not after it ended.                  *)
Grows(r) == Len(emitted[r]) <= Len(emitted'[r])
            /\ (task[r] = "ended" => task'[r] = "ended" /\ emitted'[r] = emitted[r])

LEMMA QueuesHold ==
  ASSUME ServiceInv, taken' = taken, stream' = stream, serviceTypes',
         \A r \in Runs : Grows(r)
  PROVE  (\A r \in Runs : QueueHolds(r)') /\ (\A c \in Clients : StreamHolds(c)')
<1>1. \A r \in Runs : /\ taken[r] \in Nat /\ Len(emitted[r]) \in Nat /\ Len(emitted'[r]) \in Nat
  BY DEF ServiceInv, serviceTypes
<1>2. \A r \in Runs : QueueHolds(r)'
  BY <1>1 DEF ServiceInv, QueueHolds, Follows, Grows
<1>3. ASSUME NEW c \in Clients PROVE StreamHolds(c)'
  <2>1. StreamHolds(c)
    BY DEF ServiceInv
  <2>2. stream[c].run \in 0 .. LastRun
    BY DEF ServiceInv, serviceTypes
  <2>3. stream[c].run # 0 => stream[c].run \in Runs
    BY <2>2, ServiceAssumption DEF Runs, Service!Runs, Service!TprmAssumption
  <2>4. stream[c].state = "finished" => stream[c].run # 0
    BY <2>1 DEF StreamHolds
  <2> QED BY <2>1, <2>3, <2>4 DEF StreamHolds, Follows, Grows
<1> QED BY <1>2, <1>3

LEMMA StartKeeps ==
  ASSUME ServiceInv, Service!StartRun
  PROVE  ServiceInv'
<1> DEFINE n == started + 1
<1>0. started \in 0 .. LastRun /\ LastRun \in Nat /\ n \in Runs /\ n \in 1 .. n
  BY ServiceAssumption DEF ServiceInv, serviceTypes, Service!StartRun, Runs, Service!Runs, Service!TprmAssumption
<1>1. /\ started' = n
      /\ listed' \subseteq listed \cup {n}
      /\ status' = [status EXCEPT ![n] = "accepted"] /\ task' = [task EXCEPT ![n] = "created"]
      /\ expired' = expired /\ graph' = graph /\ shown' = shown /\ emitted' = emitted
      /\ taken' = taken /\ stream' = stream
  BY DEF Service!StartRun
<1>2. serviceTypes'
  <2>1. started' \in 0 .. LastRun /\ listed' \subseteq 1 .. n /\ expired' \subseteq 1 .. n
    <3>1. 1 .. started \subseteq 1 .. n
      BY <1>0
    <3>2. listed \subseteq 1 .. started /\ expired \subseteq 1 .. started
      BY DEF ServiceInv, serviceTypes
    <3>3. n \in 0 .. LastRun
      BY <1>0 DEF Runs, Service!Runs
    <3> HIDE DEF n
    <3> QED BY <1>0, <1>1, <3>1, <3>2, <3>3
  <2> HIDE DEF n
  <2> QED BY <1>0, <1>1, <2>1 DEF ServiceInv, serviceTypes
<1>3. task[n] = "none"
  <2>1. n > started
    BY <1>0
  <2> QED BY <1>0, <2>1 DEF ServiceInv, RunHolds
<1>4. \A r \in Runs : RunHolds(r)'
  <2> TAKE r \in Runs
  <2>1. RunHolds(r) /\ r \in Nat
    BY DEF ServiceInv, Runs, Service!Runs
  <2>2. CASE r = n
    <3>1. task'[n] = "created" /\ status'[n] = "accepted"
      BY <1>0, <1>1 DEF ServiceInv, serviceTypes
    <3>2. ~(n > started') /\ RunHolds(n)
      BY <1>0, <1>1, <2>1, <2>2
    <3> HIDE DEF n
    <3> QED BY <1>1, <1>3, <2>2, <3>1, <3>2 DEF RunHolds
  <2>3. CASE r # n
    <3>1. task'[r] = task[r] /\ status'[r] = status[r]
      BY <1>0, <1>1, <2>3 DEF ServiceInv, serviceTypes
    <3>2. r > started' <=> r > started
      BY <1>0, <1>1, <2>1, <2>3
    <3> HIDE DEF n
    <3> QED BY <1>1, <2>1, <3>1, <3>2 DEF RunHolds, Ended
  <2> QED BY <2>2, <2>3
<1>5. \A r \in Runs : Grows(r)
  <2> TAKE r \in Runs
  <2>1. task[r] = "ended" => task'[r] = "ended"
    BY <1>0, <1>1, <1>3 DEF ServiceInv, serviceTypes
  <2>2. Len(emitted[r]) \in Nat
    BY DEF ServiceInv, serviceTypes
  <2> HIDE DEF n
  <2> QED BY <1>1, <2>1, <2>2 DEF Grows
<1> HIDE DEF n
<1> QED BY <1>1, <1>2, <1>4, <1>5, QueuesHold DEF ServiceInv

LEMMA ExpireKeeps ==
  ASSUME ServiceInv, Service!Expire
  PROVE  ServiceInv'
<1>1. PICK r \in 1 .. started : expired' = expired \cup {r}
  BY DEF Service!Expire
<1>2. /\ started' = started /\ listed' = listed /\ status' = status /\ task' = task
      /\ graph' = graph /\ shown' = shown /\ emitted' = emitted /\ taken' = taken /\ stream' = stream
  BY DEF Service!Expire
<1>3. serviceTypes'
  BY <1>1, <1>2 DEF ServiceInv, serviceTypes
<1>4. \A q \in Runs : RunHolds(q)'
  BY <1>2, SameRunHolds DEF ServiceInv, SameRun
<1>5. \A q \in Runs : QueueHolds(q)'
  BY <1>2 DEF ServiceInv, QueueHolds, Follows
<1>6. \A c \in Clients : StreamHolds(c)'
  BY <1>2 DEF ServiceInv, StreamHolds, Follows
<1> QED BY <1>3, <1>4, <1>5, <1>6 DEF ServiceInv

(* A step of the task of one run leaves the others alone.                  *)
LEMMA TaskKeeps ==
  ASSUME ServiceInv, NEW r \in Runs,
         started' = started, listed' = listed, expired' = expired, taken' = taken, stream' = stream,
         serviceTypes', RunHolds(r)', Grows(r),
         \A q \in Runs \ {r} : SameRun(q)
  PROVE  ServiceInv'
<1>1. \A q \in Runs : RunHolds(q)'
  BY SameRunHolds DEF ServiceInv
<1>2. \A q \in Runs : Len(emitted[q]) \in Nat
  BY DEF ServiceInv, serviceTypes
<1>3. \A q \in Runs : Grows(q)
  <2> TAKE q \in Runs
  <2>1. CASE q = r
    BY <2>1
  <2>2. CASE q # r
    BY <1>2, <2>2 DEF Grows, SameRun
  <2> QED BY <2>1, <2>2
<1> QED BY <1>1, <1>3, QueuesHold DEF ServiceInv

(* The task of a run concludes: it closes the queue, after its conclusion  *)
(* when the registry still has the run.                                    *)
LEMMA ConcludeKeeps ==
  ASSUME ServiceInv, NEW r \in Runs, task[r] \in {"created", "polling"},
         NEW before, NEW e \in {"error", "verdict"},
         Service!Concludes(r, before, IF e = "error" THEN "error" ELSE "done", e),
         emitted[r] \o before = Body(shown'[r]),
         e = "verdict" => shown'[r] = Steps,
         shown' \in [Runs -> Nat], \A q \in Runs \ {r} : shown'[q] = shown[q],
         shown[r] <= shown'[r], shown'[r] <= graph[r].done,
         started' = started, listed' = listed, expired' = expired, graph' = graph,
         taken' = taken, stream' = stream
  PROVE  ServiceInv'
<1> DEFINE v == IF r \in listed THEN <<e>> ELSE <<>>
           o == IF e = "error" THEN "error" ELSE "done"
           told == Telling(shown'[r], v)
           was == emitted[r]
<1>1. /\ task' = [task EXCEPT ![r] = "ended"]
      /\ status' = IF r \in listed THEN [status EXCEPT ![r] = o] ELSE status
      /\ emitted' = [emitted EXCEPT ![r] = told]
  <2>1. was \o before \o v \o Service!Closing(r) = told
    BY DEF Telling, Service!Closing, Service!End
  <2> HIDE DEF told
  <2> QED BY <2>1 DEF Service!Concludes
<1>2. v \in Verdicts
  BY DEF Verdicts
<1>3. shown'[r] \in Nat /\ Len(v) \in Nat
  <2>1. Len(v) \in Nat
    BY <1>2 DEF Verdicts
  <2> QED BY <2>1
<1>4. told \in Seq(Words) /\ Len(told) = shown'[r] + 3 + Len(v)
  <2>1. \A k \in Nat : \A w \in Verdicts :
          Telling(k, w) \in Seq(Words) /\ Len(Telling(k, w)) = k + 3 + Len(w)
    BY TellingIs
  <2> HIDE DEF v
  <2> QED BY <1>2, <1>3, <2>1
<1>5. status[r] \in {"accepted", "running"} /\ Len(was) <= shown'[r] + 1
  <2>1. RunHolds(r) /\ shown[r] \in Nat
    BY DEF ServiceInv, serviceTypes
  <2>2. status[r] \in {"accepted", "running"}
    BY <2>1 DEF RunHolds
  <2>3. CASE task[r] = "created"
    <3>1. was = <<>>
      BY <2>1, <2>3 DEF RunHolds
    <3> QED BY <1>3, <2>2, <3>1
  <2>4. CASE task[r] = "polling"
    <3>1. was = Body(shown[r]) /\ Len(was) = shown[r] + 1
      BY <2>1, <2>4, BodyIs DEF RunHolds
    <3> QED BY <1>3, <2>1, <2>2, <3>1
  <2> QED BY <2>3, <2>4
<1> HIDE DEF told, v
<1>6. task'[r] = "ended" /\ emitted'[r] = told /\ (r \in listed => status'[r] = o)
      /\ (r \notin listed => status'[r] = status[r])
  BY <1>1 DEF ServiceInv, serviceTypes
<1>7. /\ o \in {"done", "error"}
      /\ \A q \in Runs \ {r} : /\ task'[q] = task[q] /\ status'[q] = status[q]
                              /\ emitted'[q] = emitted[q]
  BY <1>1 DEF ServiceInv, serviceTypes
<1>8. serviceTypes'
  <2>1. task' \in [Runs -> {"none", "created", "polling", "ended"}]
    BY <1>1 DEF ServiceInv, serviceTypes
  <2>2. status' \in [Runs -> {"none", "accepted", "running", "done", "error"}]
    BY <1>1, <1>7 DEF ServiceInv, serviceTypes
  <2>3. emitted' \in [Runs -> Seq(Words)]
    <3> HIDE DEF o
    <3> QED BY <1>1, <1>4 DEF ServiceInv, serviceTypes
  <2> QED BY <2>1, <2>2, <2>3 DEF ServiceInv, serviceTypes
<1>9. Ended(r)'
  <2>1. v = <<>> => r \notin listed
    BY DEF v
  <2>2. v = <<"error">> => e = "error" /\ r \in listed
    BY DEF v
  <2>3. v = <<"verdict">> => e = "verdict" /\ r \in listed
    BY DEF v
  <2>4. emitted'[r] = Telling(shown'[r], v)
    BY <1>6 DEF told
  <2> QED BY <1>2, <1>5, <1>6, <2>1, <2>2, <2>3, <2>4 DEF Ended
<1>10. RunHolds(r)'
  <2>1. RunHolds(r)
    BY DEF ServiceInv
  <2> QED BY <1>6, <1>9, <2>1 DEF RunHolds
<1>11. Grows(r)
  <2>1. Len(was) \in Nat /\ task[r] # "ended"
    BY DEF ServiceInv, serviceTypes
  <2>2. Len(was) <= Len(told)
    <3> HIDE DEF was
    <3> QED BY <1>3, <1>4, <1>5, <2>1
  <2> QED BY <1>6, <2>1, <2>2 DEF Grows
<1>12. \A q \in Runs \ {r} : SameRun(q)
  BY <1>7 DEF SameRun
<1> QED BY <1>8, <1>10, <1>11, <1>12, TaskKeeps

LEMMA BodyStarts == Body(0) = <<"started">> /\ <<>> \o <<"started">> = <<"started">>
<1>1. <<"started">> \in Seq(Words) /\ Len(<<"started">>) = 1 /\ <<"started">>[1] = "started"
  BY DEF Words
<1>2. /\ Body(0) \in Seq(Words) /\ Len(Body(0)) = 1
      /\ \A i \in 1 .. 1 : Body(0)[i] = <<"started">>[i]
  <2>1. /\ Body(0) \in Seq(Words) /\ Len(Body(0)) = 0 + 1
        /\ \A i \in 1 .. (0 + 1) : Body(0)[i] = IF i = 1 THEN "started" ELSE "node_done"
    BY BodyIs
  <2> QED BY <1>1, <2>1
<1>3. <<>> \o <<"started">> = <<"started">>
  OBVIOUS
<1> QED BY <1>1, <1>2, <1>3, SameSequence

LEMMA BeginKeeps ==
  ASSUME ServiceInv, NEW r \in Runs, Service!Begin(r)
  PROVE  ServiceInv'
<1>1. /\ task[r] = "created"
      /\ started' = started /\ listed' = listed /\ expired' = expired /\ graph' = graph
      /\ shown' = shown /\ taken' = taken /\ stream' = stream
  BY DEF Service!Begin
<1>2. RunHolds(r) /\ shown \in [Runs -> Nat] /\ emitted[r] = <<>> /\ shown[r] = 0 /\ graph[r].done = 0
  BY <1>1 DEF ServiceInv, serviceTypes, RunHolds
<1>3. CASE Service!Concludes(r, <<"started">>, "error", "error")
  <2>1. Service!Concludes(r, <<"started">>, IF "error" = "error" THEN "error" ELSE "done", "error")
    BY <1>3
  <2>2. emitted[r] \o <<"started">> = Body(shown'[r])
    BY <1>1, <1>2, BodyStarts
  <2>3. shown[r] <= shown'[r] /\ shown'[r] <= graph[r].done
    BY <1>1, <1>2
  <2> QED BY <1>1, <1>2, <2>1, <2>2, <2>3, ConcludeKeeps
<1>4. CASE /\ task' = [task EXCEPT ![r] = "polling"]
           /\ status' = [status EXCEPT ![r] = "running"]
           /\ emitted' = [emitted EXCEPT ![r] = <<"started">>]
  <2>1. task'[r] = "polling" /\ status'[r] = "running" /\ emitted'[r] = Body(0)
    BY <1>4, BodyStarts DEF ServiceInv, serviceTypes
  <2>2. Body(0) \in Seq(Words) /\ Len(Body(0)) = 1 /\ Body(0) = <<"started">>
    BY BodyIs, BodyStarts
  <2>3. serviceTypes'
    <3>1. emitted' \in [Runs -> Seq(Words)]
      BY <1>4, <2>2 DEF ServiceInv, serviceTypes
    <3> QED BY <1>1, <1>4, <3>1 DEF ServiceInv, serviceTypes
  <2>4. RunHolds(r)'
    BY <1>1, <1>2, <2>1 DEF RunHolds
  <2>5. Grows(r)
    BY <1>1, <1>2, <2>1, <2>2 DEF Grows
  <2>6. \A q \in Runs \ {r} : SameRun(q)
    BY <1>1, <1>4 DEF ServiceInv, serviceTypes, SameRun
  <2> QED BY <1>1, <2>3, <2>4, <2>5, <2>6, TaskKeeps
<1> QED BY <1>3, <1>4 DEF Service!Begin

(* The graph moves on while its task polls.                                *)
LEMMA GraphKeeps ==
  ASSUME ServiceInv, NEW r \in Runs, task[r] = "polling", NEW g \in [done : Nat, result : {"none", "returned", "raised"}],
         graph' = [graph EXCEPT ![r] = g], graph[r].done <= g.done, g.done <= Steps,
         g.result = "returned" => g.done = Steps,
         UNCHANGED <<started, listed, expired, status, task, shown, emitted, taken, stream>>
  PROVE  ServiceInv'
<1>1. graph'[r] = g /\ \A q \in Runs \ {r} : graph'[q] = graph[q]
  BY DEF ServiceInv, serviceTypes
<1>2. serviceTypes'
  BY DEF ServiceInv, serviceTypes
<1>3. RunHolds(r)'
  <2>1. RunHolds(r) /\ shown[r] \in Nat /\ graph[r].done \in Nat /\ g.done \in Nat
    BY DEF ServiceInv, serviceTypes
  <2> QED BY <1>1, <2>1 DEF RunHolds, Ended
<1>4. Grows(r)
  <2>1. Len(emitted[r]) \in Nat
    BY DEF ServiceInv, serviceTypes
  <2> QED BY <2>1 DEF Grows
<1>5. \A q \in Runs \ {r} : SameRun(q)
  BY <1>1 DEF SameRun
<1> QED BY <1>2, <1>3, <1>4, <1>5, TaskKeeps

LEMMA NodeDoneKeeps ==
  ASSUME ServiceInv, NEW r \in Runs, Service!NodeDone(r)
  PROVE  ServiceInv'
<1>1. graph[r].done \in Nat /\ Steps \in Nat
  BY ServiceAssumption DEF ServiceInv, serviceTypes, Service!TprmAssumption
<1> DEFINE g == [done |-> graph[r].done + 1, result |-> "none"]
<1>2. g \in [done : Nat, result : {"none", "returned", "raised"}]
      /\ g.done = graph[r].done + 1 /\ g.result = "none"
  BY <1>1
<1>3. graph[r].done <= g.done /\ g.done <= Steps
  BY <1>1, <1>2 DEF Service!NodeDone
<1>4. graph' = [graph EXCEPT ![r] = g] /\ task[r] = "polling"
  BY DEF Service!NodeDone
<1>5. UNCHANGED <<started, listed, expired, status, task, shown, emitted, taken, stream>>
  BY DEF Service!NodeDone
<1> HIDE DEF g
<1> QED BY <1>2, <1>3, <1>4, <1>5, GraphKeeps

LEMMA GraphEndsKeeps ==
  ASSUME ServiceInv, NEW r \in Runs, Service!GraphEnds(r)
  PROVE  ServiceInv'
<1>1. graph[r].done \in Nat /\ graph[r].done <= Steps /\ Steps \in Nat
  BY ServiceAssumption DEF ServiceInv, serviceTypes, RunHolds, Service!TprmAssumption
<1>2. PICK result \in {"raised"} \cup (IF graph[r].done = Steps THEN {"returned"} ELSE {}) :
        graph' = [graph EXCEPT ![r] = [done |-> graph[r].done, result |-> result]]
  BY DEF Service!GraphEnds
<1> DEFINE g == [done |-> graph[r].done, result |-> result]
<1>3. g \in [done : Nat, result : {"none", "returned", "raised"}]
      /\ g.done = graph[r].done /\ g.result = result
  BY <1>1
<1>4. g.result = "returned" => g.done = Steps
  BY <1>3
<1>5. graph[r].done <= g.done /\ g.done <= Steps
  BY <1>1, <1>3
<1>6. graph' = [graph EXCEPT ![r] = g] /\ task[r] = "polling"
  BY <1>2 DEF Service!GraphEnds
<1>7. UNCHANGED <<started, listed, expired, status, task, shown, emitted, taken, stream>>
  BY DEF Service!GraphEnds
<1> HIDE DEF g
<1> QED BY <1>3, <1>4, <1>5, <1>6, <1>7, GraphKeeps

LEMMA PollKeeps ==
  ASSUME ServiceInv, NEW r \in Runs, Service!Poll(r)
  PROVE  ServiceInv'
<1> DEFINE d == graph[r].done   new == Service!Unreported(r)
<1>1. /\ task[r] = "polling" /\ shown' = [shown EXCEPT ![r] = d]
      /\ started' = started /\ listed' = listed /\ expired' = expired /\ graph' = graph
      /\ taken' = taken /\ stream' = stream
  BY DEF Service!Poll
<1>2. /\ RunHolds(r) /\ shown[r] \in Nat /\ d \in Nat /\ shown[r] <= d /\ d <= Steps
      /\ emitted[r] = Body(shown[r]) /\ status[r] = "running"
  BY <1>1 DEF ServiceInv, serviceTypes, RunHolds
<1>3. emitted[r] \o new = Body(d)
  BY <1>2, BodyGrows DEF Service!Unreported
<1>4. /\ shown' \in [Runs -> Nat] /\ shown'[r] = d /\ \A q \in Runs \ {r} : shown'[q] = shown[q]
  BY <1>1, <1>2 DEF ServiceInv, serviceTypes
<1>5. graph[r].result = "returned" => d = Steps
  BY <1>2 DEF RunHolds
<1>6. d <= graph[r].done
  BY <1>2
<1>7. ASSUME NEW e \in {"error", "verdict"}, e = "verdict" => d = Steps,
             Service!Concludes(r, new, IF e = "error" THEN "error" ELSE "done", e)
      PROVE  ServiceInv'
  BY <1>1, <1>2, <1>3, <1>4, <1>6, <1>7, ConcludeKeeps
<1>8. CASE /\ emitted' = [emitted EXCEPT ![r] = @ \o new]
           /\ UNCHANGED <<task, status>>
  <2> HIDE DEF d, new
  <2>1. emitted'[r] = Body(d)
    BY <1>3, <1>8 DEF ServiceInv, serviceTypes
  <2>2. Body(d) \in Seq(Words) /\ Len(Body(d)) = d + 1 /\ Len(emitted[r]) = shown[r] + 1
    BY <1>2, BodyIs
  <2>3. emitted' = [emitted EXCEPT ![r] = Body(d)]
    BY <1>3, <1>8
  <2>4. serviceTypes'
    <3>1. emitted' \in [Runs -> Seq(Words)]
      BY <2>2, <2>3 DEF ServiceInv, serviceTypes
    <3> QED BY <1>1, <1>4, <1>8, <3>1 DEF ServiceInv, serviceTypes
  <2>5. RunHolds(r)'
    <3>1. task'[r] = "polling" /\ status'[r] = "running" /\ started' = started /\ graph' = graph
      BY <1>1, <1>2, <1>8
    <3>2. graph[r].done = d
      BY DEF d
    <3> QED BY <1>1, <1>2, <1>4, <2>1, <3>1, <3>2 DEF RunHolds
  <2>6. Grows(r)
    <3>1. Len(emitted[r]) <= Len(emitted'[r])
      BY <1>2, <2>1, <2>2
    <3> QED BY <1>1, <3>1 DEF Grows
  <2>7. \A q \in Runs \ {r} : SameRun(q)
    BY <1>1, <1>4, <1>8 DEF ServiceInv, serviceTypes, SameRun
  <2> QED BY <1>1, <2>4, <2>5, <2>6, <2>7, TaskKeeps
<1>9. CASE graph[r].result = "returned" /\ Service!Concludes(r, new, "done", "verdict")
  <2>1. Service!Concludes(r, new, IF "verdict" = "error" THEN "error" ELSE "done", "verdict")
    BY <1>9
  <2> HIDE DEF new
  <2> QED BY <1>5, <1>7, <1>9, <2>1
<1>10. CASE graph[r].result = "raised" /\ Service!Concludes(r, new, "error", "error")
  <2>1. Service!Concludes(r, new, IF "error" = "error" THEN "error" ELSE "done", "error")
    BY <1>10
  <2> HIDE DEF new
  <2> QED BY <1>7, <2>1
<1> QED BY <1>8, <1>9, <1>10 DEF Service!Poll

-----------------------------------------------------------------------------
(* The streams.                                                            *)
LEMMA BodyHasNoEnd ==
  ASSUME NEW k \in Nat, NEW i \in 1 .. Len(Body(k))
  PROVE  Body(k)[i] # "sentinel"
<1>1. Body(k)[i] = IF i = 1 THEN "started" ELSE "node_done"
  BY BodyIs
<1> QED BY <1>1

(* The end mark is the last event of a run whose task has ended.           *)
LEMMA EndIsLast ==
  ASSUME NEW r \in Runs, RunHolds(r), serviceTypes,
         NEW i \in 1 .. Len(emitted[r]), emitted[r][i] = "sentinel"
  PROVE  task[r] = "ended" /\ i = Len(emitted[r])
<1>1. shown[r] \in Nat /\ task[r] \in {"none", "created", "polling", "ended"}
  BY DEF serviceTypes
<1>2. CASE task[r] \in {"none", "created"}
  <2>1. emitted[r] = <<>>
    BY <1>2 DEF RunHolds
  <2> QED BY <2>1
<1>3. CASE task[r] = "polling"
  <2>1. emitted[r] = Body(shown[r])
    BY <1>3 DEF RunHolds
  <2> QED BY <1>1, <2>1, BodyHasNoEnd
<1>4. CASE task[r] = "ended"
  <2>1. PICK v \in Verdicts : emitted[r] = Telling(shown[r], v)
    BY <1>4 DEF RunHolds, Ended
  <2>2. ToldOnce(emitted[r], shown[r], v)
    BY <1>1, <2>1, TellingCounts
  <2>3. \A j \in 1 .. Len(emitted[r]) : emitted[r][j] = "sentinel" => j = Len(emitted[r])
    BY <2>2 DEF ToldOnce
  <2> QED BY <1>4, <2>3
<1> QED BY <1>1, <1>2, <1>3, <1>4

LEMMA StreamSteps ==
  ASSUME ServiceInv, NEW c \in Clients, NEW s, stream' = [stream EXCEPT ![c] = s],
         s \in [run : 0 .. LastRun, got : Nat, state : {"unused", "open", "finished", "cut", "left"}],
         taken' \in [Runs -> Nat],
         UNCHANGED <<started, listed, expired, status, task, graph, shown, emitted>>
  PROVE  /\ serviceTypes' /\ \A r \in Runs : RunHolds(r)'
         /\ stream'[c] = s /\ \A d \in Clients \ {c} : stream'[d] = stream[d]
<1>1. serviceTypes'
  BY DEF ServiceInv, serviceTypes
<1>2. \A r \in Runs : RunHolds(r)'
  BY SameRunHolds DEF ServiceInv, SameRun
<1>3. stream'[c] = s /\ \A d \in Clients \ {c} : stream'[d] = stream[d]
  BY DEF ServiceInv, serviceTypes
<1> QED BY <1>1, <1>2, <1>3

LEMMA StreamRun ==
  ASSUME ServiceInv, NEW c \in Clients, stream[c].state # "unused"
  PROVE  stream[c].run \in Runs /\ stream[c].run # 0 /\ stream[c].got \in Nat
<1>1. stream[c].run \in 0 .. LastRun /\ stream[c].run # 0 /\ stream[c].got \in Nat /\ LastRun \in Nat
  BY ServiceAssumption DEF ServiceInv, serviceTypes, StreamHolds, Service!TprmAssumption
<1> QED BY <1>1 DEF Runs, Service!Runs

LEMMA OpenKeeps ==
  ASSUME ServiceInv, NEW c \in Clients, Service!Open(c)
  PROVE  ServiceInv'
<1>1. PICK r \in listed : stream' = [stream EXCEPT ![c] = [run |-> r, got |-> 0, state |-> "open"]]
  BY DEF Service!Open
<1>2. r \in Runs /\ r \in 0 .. LastRun /\ r # 0
  BY ServiceAssumption DEF ServiceInv, serviceTypes, Service!TprmAssumption, Runs, Service!Runs
<1>3. taken' = taken /\ UNCHANGED <<started, listed, expired, status, task, graph, shown, emitted>>
  BY DEF Service!Open
<1> DEFINE s == [run |-> r, got |-> 0, state |-> "open"]
<1>4. s \in [run : 0 .. LastRun, got : Nat, state : {"unused", "open", "finished", "cut", "left"}]
      /\ s.run = r /\ s.got = 0 /\ s.state = "open"
  BY <1>2
<1>5. taken' \in [Runs -> Nat]
  BY <1>3 DEF ServiceInv, serviceTypes
<1> HIDE DEF s
<1>6. /\ serviceTypes' /\ \A q \in Runs : RunHolds(q)'
      /\ stream'[c] = s /\ \A d \in Clients \ {c} : stream'[d] = stream[d]
  BY <1>1, <1>3, <1>4, <1>5, StreamSteps DEF s
<1>7. stream[c].run = 0
  BY DEF Service!Open, ServiceInv, StreamHolds
<1>8. \A q \in Runs : q # 0
  BY DEF Runs, Service!Runs
<1>9. \A d \in Clients, q \in Runs : Follows(d, q) => Follows(d, q)'
  BY <1>6, <1>7, <1>8 DEF Follows
<1>10. \A q \in Runs : QueueHolds(q)'
  BY <1>3, <1>9 DEF ServiceInv, QueueHolds
<1>11. StreamHolds(c)'
  <2>1. stream'[c].run = r /\ stream'[c].state = "open" /\ stream'[c].got = 0
    BY <1>4, <1>6
  <2>2. (\A d \in Clients \ {c} : ~Follows(d, r)') => taken'[r] = 0
    <3>1. (\A d \in Clients : ~Follows(d, r)) => taken[r] = 0
      BY <1>2 DEF ServiceInv, QueueHolds
    <3>2. ~Follows(c, r)
      BY <1>2, <1>7 DEF Follows
    <3> QED BY <1>2, <1>3, <1>9, <3>1, <3>2
  <2> QED BY <1>2, <2>1, <2>2 DEF StreamHolds
<1>12. ASSUME NEW d \in Clients \ {c} PROVE StreamHolds(d)'
  <2>1. StreamHolds(d) /\ stream'[d] = stream[d]
    BY <1>6 DEF ServiceInv
  <2>2. stream[d].run \in Runs \/ stream[d].run = 0
    <3>1. stream[d].state # "unused" => stream[d].run \in Runs
      BY StreamRun
    <3> QED BY <2>1, <3>1 DEF StreamHolds
  <2>3. taken' = taken /\ task' = task /\ emitted' = emitted
    BY <1>3
  <2>4. \A q \in Runs : (\A b \in Clients \ {d} : ~Follows(b, q)') => \A b \in Clients \ {d} : ~Follows(b, q)
    BY <1>9
  <2> QED BY <2>1, <2>2, <2>3, <2>4 DEF StreamHolds
<1> QED BY <1>6, <1>10, <1>11, <1>12 DEF ServiceInv

LEMMA TakeKeeps ==
  ASSUME ServiceInv, NEW c \in Clients, Service!Take(c)
  PROVE  ServiceInv'
<1> DEFINE r == stream[c].run
           ends == emitted[r][taken[r] + 1] = "sentinel"
           got == IF ends THEN stream[c].got ELSE stream[c].got + 1
           state == IF ends THEN "finished" ELSE "open"
           s == [run |-> r, got |-> got, state |-> state]
<1>1. /\ stream[c].state = "open" /\ taken[r] < Len(emitted[r])
      /\ taken' = [taken EXCEPT ![r] = taken[r] + 1]
      /\ stream' = [stream EXCEPT ![c] = s]
      /\ UNCHANGED <<started, listed, expired, status, task, graph, shown, emitted>>
  <2>1. CASE ends
    BY <2>1 DEF Service!Take, Service!Moves, Service!End
  <2>2. CASE ~ends
    BY <2>2 DEF Service!Take, Service!Moves, Service!End
  <2> QED BY <2>1, <2>2
<1>2. r \in Runs /\ r # 0 /\ stream[c].got \in Nat
  BY <1>1, StreamRun
<1>3. /\ taken[r] \in Nat /\ Len(emitted[r]) \in Nat /\ RunHolds(r) /\ serviceTypes
      /\ StreamHolds(c) /\ QueueHolds(r)
  BY <1>2 DEF ServiceInv, serviceTypes
<1>4. ends => task[r] = "ended" /\ taken[r] + 1 = Len(emitted[r])
  <2>1. taken[r] + 1 \in 1 .. Len(emitted[r])
    BY <1>1, <1>3
  <2> QED BY <1>2, <1>3, <2>1, EndIsLast
<1>5. s \in [run : 0 .. LastRun, got : Nat, state : {"unused", "open", "finished", "cut", "left"}]
  <2>1. r \in 0 .. LastRun /\ got \in Nat /\ state \in {"open", "finished"}
    BY <1>2 DEF Runs, Service!Runs
  <2> HIDE DEF r, got, state
  <2> QED BY <2>1
<1>6. s.run = r /\ s.got = got /\ s.state = state
  OBVIOUS
<1>7. taken' \in [Runs -> Nat] /\ taken'[r] = taken[r] + 1 /\ \A q \in Runs \ {r} : taken'[q] = taken[q]
  BY <1>1, <1>2, <1>3 DEF serviceTypes
<1> HIDE DEF s, ends
<1>8. /\ serviceTypes' /\ \A q \in Runs : RunHolds(q)'
      /\ stream'[c] = s /\ \A d \in Clients \ {c} : stream'[d] = stream[d]
  BY <1>1, <1>5, <1>7, StreamSteps
<1>9. \A d \in Clients : stream'[d].run = stream[d].run
  BY <1>6, <1>8
<1>10. \A d \in Clients : \A q : Follows(d, q)' <=> Follows(d, q)
  BY <1>9 DEF Follows
<1>11. emitted' = emitted /\ task' = task
  BY <1>1
<1>12. \A q \in Runs : QueueHolds(q)'
  <2> TAKE q \in Runs
  <2>1. CASE q = r
    <3>1. Follows(c, r)
      BY DEF Follows
    <3>2. taken'[r] <= Len(emitted[r])
      BY <1>1, <1>3, <1>7
    <3> HIDE DEF r
    <3> QED BY <1>10, <1>11, <2>1, <3>1, <3>2 DEF QueueHolds
  <2>2. CASE q # r
    <3>1. QueueHolds(q) /\ taken'[q] = taken[q]
      BY <1>7, <2>2 DEF ServiceInv
    <3> HIDE DEF r
    <3> QED BY <1>10, <1>11, <3>1 DEF QueueHolds
  <2> QED BY <2>1, <2>2
<1>13. StreamHolds(c)'
  <2>1. (\A d \in Clients \ {c} : ~Follows(d, r)) => taken[r] = stream[c].got
    BY <1>1, <1>2, <1>3 DEF StreamHolds
  <2>2. stream'[c].run = r /\ stream'[c].got = got /\ stream'[c].state = state
    BY <1>6, <1>8
  <2> HIDE DEF r
  <2>3. CASE ends
    BY <1>2, <1>4, <1>7, <1>10, <1>11, <2>1, <2>2, <2>3 DEF StreamHolds
  <2>4. CASE ~ends
    BY <1>2, <1>7, <1>10, <1>11, <2>1, <2>2, <2>4 DEF StreamHolds
  <2> QED BY <2>3, <2>4
<1>14. ASSUME NEW d \in Clients \ {c} PROVE StreamHolds(d)'
  <2>1. StreamHolds(d) /\ stream'[d] = stream[d]
    BY <1>8 DEF ServiceInv
  <2>2. CASE stream[d].run = r
    <3>1. \E b \in Clients \ {d} : stream'[b].run = stream'[d].run
      BY <1>9, <2>2
    <3>2. stream[d].state # "finished"
      BY <1>1, <1>3, <2>1, <2>2 DEF StreamHolds
    <3>3. ~(\A b \in Clients \ {d} : stream'[b].run # stream'[d].run)
      BY <3>1
    <3>4. (stream'[d].state = "unused" <=> stream'[d].run = 0) /\ stream'[d].state # "finished"
      BY <2>1, <3>2 DEF StreamHolds
    <3> QED BY <3>3, <3>4 DEF StreamHolds, Follows
  <2>3. CASE stream[d].run # r
    <3>1. stream[d].state # "unused" => stream[d].run \in Runs
      BY StreamRun
    <3>2. stream[d].run # 0 => stream[d].run \in Runs
      BY <2>1, <3>1 DEF StreamHolds
    <3>3. stream[d].run # 0 => taken'[stream[d].run] = taken[stream[d].run]
      BY <1>7, <2>3, <3>2
    <3>4. stream[d].state = "finished" => stream[d].run # 0
      BY <2>1 DEF StreamHolds
    <3> QED BY <1>10, <1>11, <2>1, <3>3, <3>4 DEF StreamHolds
  <2> QED BY <2>2, <2>3
<1> QED BY <1>8, <1>12, <1>13, <1>14 DEF ServiceInv

LEMMA ClosesKeeps ==
  ASSUME ServiceInv, NEW c \in Clients, NEW how \in {"cut", "left"}, Service!Closes(c, how)
  PROVE  ServiceInv'
<1> DEFINE s == [run |-> stream[c].run, got |-> stream[c].got, state |-> how]
<1>1. /\ stream[c].state = "open" /\ stream' = [stream EXCEPT ![c] = s] /\ taken' = taken
      /\ UNCHANGED <<started, listed, expired, status, task, graph, shown, emitted>>
  BY DEF Service!Closes, Service!Moves
<1>2. s \in [run : 0 .. LastRun, got : Nat, state : {"unused", "open", "finished", "cut", "left"}]
  <2>1. stream[c].run \in 0 .. LastRun /\ stream[c].got \in Nat
    BY DEF ServiceInv, serviceTypes
  <2> QED BY <2>1
<1>3. s.run = stream[c].run /\ s.got = stream[c].got /\ s.state = how
  OBVIOUS
<1>4. taken' \in [Runs -> Nat]
  BY <1>1 DEF ServiceInv, serviceTypes
<1> HIDE DEF s
<1>5. /\ serviceTypes' /\ \A q \in Runs : RunHolds(q)'
      /\ stream'[c] = s /\ \A d \in Clients \ {c} : stream'[d] = stream[d]
  BY <1>1, <1>2, <1>4, StreamSteps
<1>6. \A d \in Clients : stream'[d].run = stream[d].run /\ stream'[d].got = stream[d].got
  BY <1>3, <1>5
<1>7. \A d \in Clients : \/ stream'[d].state = stream[d].state
                         \/ d = c /\ stream'[d].state = how
  BY <1>3, <1>5
<1>8. \A d \in Clients : \A q : Follows(d, q)' <=> Follows(d, q)
  BY <1>6 DEF Follows
<1>9. emitted' = emitted /\ task' = task /\ taken' = taken
  BY <1>1
<1>10. \A q \in Runs : QueueHolds(q)'
  BY <1>8, <1>9 DEF ServiceInv, QueueHolds
<1>11. ASSUME NEW d \in Clients PROVE StreamHolds(d)'
  <2>1. StreamHolds(d) /\ (d = c => stream[d].state = "open")
    BY <1>1 DEF ServiceInv
  <2>2. CASE stream'[d].state = stream[d].state
    BY <1>6, <1>8, <1>9, <2>1, <2>2 DEF StreamHolds
  <2>3. CASE d = c /\ stream'[d].state = how
    BY <1>6, <1>8, <1>9, <2>1, <2>3 DEF StreamHolds
  <2> QED BY <1>7, <2>2, <2>3
<1> QED BY <1>5, <1>10, <1>11 DEF ServiceInv

LEMMA ServiceKeeps ==
  ASSUME ServiceInv, [MCNext]_<<part, aVars, serviceVars>>
  PROVE  ServiceInv'
<1>1. CASE UNCHANGED serviceVars
  <2>1. /\ started' = started /\ listed' = listed /\ expired' = expired /\ status' = status
        /\ task' = task /\ graph' = graph /\ shown' = shown /\ emitted' = emitted
        /\ taken' = taken /\ stream' = stream
    BY <1>1 DEF serviceVars
  <2>2. serviceTypes'
    BY <2>1 DEF ServiceInv, serviceTypes
  <2>3. \A r \in Runs : RunHolds(r)'
    BY <2>1, SameRunHolds DEF ServiceInv, SameRun
  <2>4. \A r \in Runs : QueueHolds(r)'
    BY <2>1 DEF ServiceInv, QueueHolds, Follows
  <2>5. \A c \in Clients : StreamHolds(c)'
    BY <2>1 DEF ServiceInv, StreamHolds, Follows
  <2> QED BY <2>2, <2>3, <2>4, <2>5 DEF ServiceInv
<1>2. CASE Service!StartRun \/ Service!Expire
  BY <1>2, StartKeeps, ExpireKeeps
<1>3. ASSUME NEW r \in Runs, Service!Begin(r) \/ Service!NodeDone(r) \/ Service!GraphEnds(r) \/ Service!Poll(r)
      PROVE  ServiceInv'
  BY <1>3, BeginKeeps, NodeDoneKeeps, GraphEndsKeeps, PollKeeps
<1>4. ASSUME NEW c \in Clients, Service!Open(c) \/ Service!Take(c) \/ Service!Deadline(c) \/ Service!Leave(c)
      PROVE  ServiceInv'
  <2>1. CASE Service!Deadline(c)
    BY <2>1, ClosesKeeps DEF Service!Deadline
  <2>2. CASE Service!Leave(c)
    BY <2>2, ClosesKeeps DEF Service!Leave
  <2> QED BY <1>4, <2>1, <2>2, OpenKeeps, TakeKeeps
<1>5. CASE Service!Next
  BY <1>2, <1>3, <1>4, <1>5 DEF Service!Next, Runs
<1> QED BY <1>1, <1>5 DEF MCNext

(* What the invariant says of a task that has ended and of a lone client.  *)
LEMMA ServiceConcludes == ASSUME ServiceInv PROVE Concluded
<1>1. ASSUME NEW r \in Runs, task[r] = "ended"
      PROVE  LET s == emitted[r] IN
             /\ Len(s) >= 2 /\ SubSeq(s, Len(s) - 1, Len(s)) = <<"done", "sentinel">>
             /\ Service!Count(s, "sentinel") = 1 /\ Service!Conclusions(r) <= 1
             /\ status[r] \in {"done", "error"} <=> Service!Conclusions(r) = 1
             /\ Service!Count(s, "verdict") = 1 => Service!Count(s, "node_done") = Steps
  <2> DEFINE s == emitted[r]
  <2>1. shown[r] \in Nat /\ Ended(r)
    BY <1>1 DEF ServiceInv, serviceTypes, RunHolds
  <2>2. PICK v \in Verdicts :
          /\ s = Telling(shown[r], v)
          /\ v = <<>> => status[r] \in {"accepted", "running"}
          /\ v = <<"error">> => status[r] = "error"
          /\ v = <<"verdict">> => status[r] = "done" /\ shown[r] = Steps
    BY <2>1 DEF Ended
  <2>3. Service!Conclusions(r) = Service!Count(s, "verdict") + Service!Count(s, "error")
    BY DEF Service!Conclusions
  <2> HIDE DEF s
  <2>4. /\ Len(s) >= 2 /\ SubSeq(s, Len(s) - 1, Len(s)) = <<"done", "sentinel">>
        /\ Service!Count(s, "sentinel") = 1 /\ Service!Count(s, "node_done") = shown[r]
        /\ Service!Count(s, "verdict") = IF v = <<"verdict">> THEN 1 ELSE 0
        /\ Service!Count(s, "error") = IF v = <<"error">> THEN 1 ELSE 0
    <3>1. ToldOnce(s, shown[r], v)
      BY <2>1, <2>2, TellingCounts
    <3> QED BY <3>1 DEF ToldOnce
  <2>5. \/ v = <<>> /\ v # <<"verdict">> /\ v # <<"error">>
        \/ v = <<"verdict">> /\ v # <<"error">>
        \/ v = <<"error">> /\ v # <<"verdict">>
    BY DEF Verdicts
  <2>6. CASE v = <<>> /\ v # <<"verdict">> /\ v # <<"error">>
    <3>1. Service!Count(s, "verdict") = 0 /\ Service!Count(s, "error") = 0 /\ status[r] \in {"accepted", "running"}
      BY <2>2, <2>4, <2>6
    <3> QED BY <2>3, <2>4, <3>1 DEF s
  <2>7. CASE v = <<"verdict">> /\ v # <<"error">>
    <3>1. /\ Service!Count(s, "verdict") = 1 /\ Service!Count(s, "error") = 0
          /\ status[r] = "done" /\ shown[r] = Steps
      BY <2>2, <2>4, <2>7
    <3> QED BY <2>3, <2>4, <3>1 DEF s
  <2>8. CASE v = <<"error">> /\ v # <<"verdict">>
    <3>1. Service!Count(s, "verdict") = 0 /\ Service!Count(s, "error") = 1 /\ status[r] = "error"
      BY <2>2, <2>4, <2>8
    <3> QED BY <2>3, <2>4, <3>1 DEF s
  <2> QED BY <2>5, <2>6, <2>7, <2>8
<1>2. Service!TaskConcludes
  BY <1>1 DEF Service!TaskConcludes, Service!Over, Service!End, Runs
<1>3. ASSUME NEW c \in Clients, stream[c].state = "finished",
             \A d \in Clients \ {c} : stream[d].run # stream[c].run
      PROVE  stream[c].got = Len(emitted[stream[c].run]) - 1
  <2>1. stream[c].run \in Runs /\ stream[c].run # 0 /\ stream[c].got \in Nat
    BY <1>3, StreamRun
  <2>2. StreamHolds(c)
    BY DEF ServiceInv
  <2>3. taken[stream[c].run] = Len(emitted[stream[c].run]) /\ taken[stream[c].run] = stream[c].got + 1
    BY <1>3, <2>1, <2>2 DEF StreamHolds, Follows
  <2> QED BY <2>1, <2>3
<1>4. Service!LoneClientKnows
  BY <1>3 DEF Service!LoneClientKnows
<1> QED BY <1>2, <1>4 DEF Concluded, Service!Concluded

LEMMA ServiceAlways == MCSpec => []ServiceInv
<1>1. MCInit => ServiceInv
  BY ServiceInit DEF MCInit
<1>2. ServiceInv /\ [MCNext]_<<part, aVars, serviceVars>> => ServiceInv'
  BY ServiceKeeps
<1> QED BY <1>1, <1>2, PTL DEF MCSpec

(* orchestra_tprm/server/app.py: the task of a run closes its stream once, *)
(* after one verdict or one error at most and after every node of a run    *)
(* that has a verdict; the registry says so when it still has the run; and *)
(* a client that alone followed a run to the end has all of its events.    *)
THEOREM TaskConcludesOnce == MCSpec => []Concluded
<1>1. ServiceInv => Concluded
  BY ServiceConcludes
<1> QED BY <1>1, ServiceAlways, PTL

-----------------------------------------------------------------------------
(***************************************************************************)
(* The registry.  When it is full every stale run goes; when it is not,    *)
(* the new run fits.                                                       *)
(***************************************************************************)
LEMMA SameCardinality == ASSUME NEW S PROVE Service!Cardinality(S) = Cardinality(S)
BY DEF Service!Cardinality, Cardinality

LEMMA RegistryKeeps ==
  ASSUME ServiceInv, Service!StartRun
  PROVE  Service!Evicts
<1> DEFINE n == started + 1
           stale == {r \in listed : Service!IsStale(r)}
           excess == Cardinality(listed) - MaxRuns + Cardinality(stale)
           gone == {r \in stale : Cardinality({q \in stale : q <= r}) <= excess}
<1>1. listed' = (listed \ gone) \cup {n} /\ status' = [status EXCEPT ![n] = "accepted"] /\ expired' = expired
  BY SameCardinality DEF Service!StartRun, Service!Evicted, Service!Oldest
<1>2. /\ started \in 0 .. LastRun /\ LastRun \in Nat /\ MaxRuns \in Nat /\ n \in Runs
      /\ listed \subseteq 1 .. started /\ expired \subseteq 1 .. started
  BY ServiceAssumption DEF ServiceInv, serviceTypes, Service!TprmAssumption, Service!StartRun, Runs, Service!Runs
<1>3. IsFiniteSet(listed) /\ IsFiniteSet(stale) /\ Cardinality(listed) \in Nat /\ Cardinality(stale) \in Nat
  <2>1. IsFiniteSet(listed)
    <3>1. IsFiniteSet(1 .. started)
      BY <1>2, FS_Interval
    <3> QED BY <1>2, <3>1, FS_Subset
  <2>2. IsFiniteSet(stale)
    BY <2>1, FS_Subset
  <2> QED BY <2>1, <2>2, FS_CardinalityType
<1>4. \A r \in listed \ listed' : Service!IsStale(r)
  BY <1>1
<1>5. CASE Cardinality(listed) < MaxRuns
  <2>1. Cardinality(listed \ gone) <= Cardinality(listed) /\ IsFiniteSet(listed \ gone)
    BY <1>3, FS_Subset
  <2>2. Cardinality((listed \ gone) \cup {n}) <= Cardinality(listed \ gone) + 1
    <3> DEFINE rest == listed \ gone
    <3>1. Cardinality(rest \cup {n}) = IF n \in rest THEN Cardinality(rest) ELSE Cardinality(rest) + 1
      <4> HIDE DEF rest
      <4>1. IsFiniteSet(rest)
        BY <2>1 DEF rest
      <4> QED BY <4>1, FS_AddElement
    <3>2. Cardinality(rest) \in Nat
      BY <2>1, FS_CardinalityType
    <3> HIDE DEF rest
    <3>3. Cardinality(rest \cup {n}) <= Cardinality(rest) + 1
      BY <3>1, <3>2
    <3> QED BY <3>3 DEF rest
  <2> DEFINE before == Cardinality(listed \ gone)   after == Cardinality((listed \ gone) \cup {n})
  <2>3. before \in Nat /\ after \in Nat
    <3>1. IsFiniteSet((listed \ gone) \cup {n})
      BY <2>1, FS_AddElement
    <3> QED BY <2>1, <3>1, FS_CardinalityType
  <2>4. before <= Cardinality(listed) /\ after <= before + 1
    BY <2>1, <2>2
  <2> HIDE DEF before, after
  <2>5. after <= MaxRuns
    BY <1>2, <1>3, <1>5, <2>3, <2>4
  <2>6. Service!Cardinality(listed') = after
    BY <1>1, SameCardinality DEF after
  <2> QED BY <1>4, <2>5, <2>6 DEF Service!Evicts
<1>6. CASE Cardinality(listed) >= MaxRuns
  <2>1. Cardinality(stale) <= excess
    <3> HIDE DEF stale
    <3> QED BY <1>2, <1>3, <1>6
  <2>2. \A r \in stale : Cardinality({q \in stale : q <= r}) \in Nat
                         /\ Cardinality({q \in stale : q <= r}) <= Cardinality(stale)
    BY <1>3, FS_Subset, FS_CardinalityType
  <2>3. gone = stale
    <3> DEFINE upTo(r) == Cardinality({q \in stale : q <= r})
    <3>1. \A r \in stale : upTo(r) \in Nat /\ upTo(r) <= Cardinality(stale)
      BY <2>2
    <3>2. excess \in Int /\ Cardinality(stale) \in Nat
      <4> HIDE DEF stale
      <4> QED BY <1>2, <1>3
    <3>3. gone = {r \in stale : upTo(r) <= excess}
      OBVIOUS
    <3> HIDE DEF upTo, excess, stale, gone
    <3> QED BY <2>1, <3>1, <3>2, <3>3
  <2>4. n \notin expired /\ status[n] = "none"
    <3>1. n > started /\ RunHolds(n)
      BY <1>2 DEF ServiceInv
    <3> QED BY <1>2, <3>1 DEF RunHolds
  <2>5. \A r \in listed' : ~Service!IsStale(r)
    BY <1>1, <2>3, <2>4 DEF Service!IsStale, Service!Over
  <2>6. \A r \in listed' : ~(r \in expired \/ status[r] \in {"done", "error"})
    BY <2>5 DEF Service!IsStale, Service!Over
  <2>7. \A r \in listed \ listed' : r \in expired \/ status[r] \in {"done", "error"}
    BY <1>4 DEF Service!IsStale, Service!Over
  <2> HIDE DEF gone, stale
  <2> QED BY <2>6, <2>7 DEF Service!Evicts, Service!IsStale, Service!Over
<1> QED BY <1>2, <1>3, <1>5, <1>6

LEMMA RegistryStays ==
  ASSUME ServiceInv, [MCNext]_<<part, aVars, serviceVars>>, ~Service!StartRun
  PROVE  started' = started
<1>1. CASE Service!Next
  BY <1>1 DEF Service!Next, Service!Expire, Service!Begin, Service!NodeDone, Service!GraphEnds,
     Service!Poll, Service!Open, Service!Take, Service!Closes, Service!Deadline, Service!Leave
<1>2. CASE UNCHANGED serviceVars
  BY <1>2 DEF serviceVars
<1> QED BY <1>1, <1>2 DEF MCNext

(* orchestra_tprm/server/app.py, _evict_stale_runs: starting a run takes   *)
(* no run out of the registry that is neither over nor expired, and keeps  *)
(* it within its limit unless every run left in it is live.                *)
THEOREM EvictionTakesStale == MCSpec => EvictionSpares
<1>1. ServiceInv /\ [MCNext]_<<part, aVars, serviceVars>> => [Service!Evicts]_serviceVars
  <2> SUFFICES ASSUME ServiceInv, [MCNext]_<<part, aVars, serviceVars>> PROVE Service!Evicts
    OBVIOUS
  <2>1. CASE Service!StartRun
    BY <2>1, RegistryKeeps
  <2>2. CASE ~Service!StartRun
    BY <2>2, RegistryStays DEF Service!Evicts
  <2> QED BY <2>1, <2>2
<1>2. MCSpec => [][Service!Evicts]_serviceVars
  BY <1>1, ServiceAlways, PTL DEF MCSpec
<1> QED BY <1>2 DEF EvictionSpares, Service!EvictionSpares, Service!rVars, serviceVars

-----------------------------------------------------------------------------
(* Induction over the naturals, from their well-foundedness: of the        *)
(* numbers outside T the least would have a predecessor inside.            *)
LEMMA Least ==
  ASSUME NEW T, T \subseteq Nat, T # {}
  PROVE  \E x \in T : \A y \in T : x <= y
<1>1. PICK x \in T : \A y \in T : <<y, x>> \notin OpToRel(<, Nat)
  BY NatLessThanWellFounded, WFMin
<1>2. \A y \in T : ~(y < x)
  BY <1>1 DEF OpToRel
<1>3. \A y \in T : x \in Nat /\ y \in Nat
  OBVIOUS
<1> QED
  BY <1>2, <1>3

LEMMA Induct ==
  ASSUME NEW T, 0 \in T, \A n \in Nat : n \in T => n + 1 \in T
  PROVE  Nat \subseteq T
<1> SUFFICES ASSUME Nat \ T # {} PROVE FALSE
  OBVIOUS
<1>1. PICK x \in Nat \ T : \A y \in Nat \ T : x <= y
  <2> DEFINE U == Nat \ T
  <2>1. U \subseteq Nat /\ U # {}
    OBVIOUS
  <2> HIDE DEF U
  <2>2. \E x \in U : \A y \in U : x <= y
    BY <2>1, Least
  <2> QED BY <2>2 DEF U
<1>2. x # 0 /\ x \in Nat
  BY <1>1
<1>3. x - 1 \in Nat /\ ~(x <= x - 1) /\ (x - 1) + 1 = x
  BY <1>2
<1>4. x - 1 \in T
  BY <1>1, <1>3
<1> QED BY <1>1, <1>3, <1>4

-----------------------------------------------------------------------------
(***************************************************************************)
(* Lists of findings: what joining them keeps, and what their sums are.    *)
(***************************************************************************)
LEMMA JoinedHas ==
  ASSUME NEW S, NEW s \in Seq(S), NEW t \in Seq(S)
  PROVE  /\ s \o t \in Seq(S)
         /\ ToSet(s) \subseteq ToSet(s \o t) /\ ToSet(t) \subseteq ToSet(s \o t)
<1>1. s \o t \in Seq(S) /\ Len(s \o t) = Len(s) + Len(t)
  OBVIOUS
<1>2. \A i \in DOMAIN s : i \in DOMAIN (s \o t) /\ (s \o t)[i] = s[i]
  OBVIOUS
<1>3. \A i \in DOMAIN t : Len(s) + i \in DOMAIN (s \o t) /\ (s \o t)[Len(s) + i] = t[i]
  OBVIOUS
<1> QED BY <1>1, <1>2, <1>3 DEF ToSet

(* The function FlattenSeq defines recursively, and that there is one.     *)
Flattens(f, ss, m) == f = [i \in 1 .. m |-> IF i = 1 THEN ss[i] ELSE f[i - 1] \o ss[i]]

LEMMA FlattenExists ==
  ASSUME NEW ss, NEW n \in Nat
  PROVE  \E f : Flattens(f, ss, n)
<1> DEFINE T == {m \in Nat : \E f : Flattens(f, ss, m)}
<1>1. 0 \in T
  <2> DEFINE f == [i \in 1 .. 0 |-> i]
  <2>1. Flattens(f, ss, 0)
    BY DEF Flattens
  <2> HIDE DEF f
  <2> QED BY <2>1
<1>2. ASSUME NEW m \in Nat, m \in T PROVE m + 1 \in T
  <2>1. PICK f : Flattens(f, ss, m)
    BY <1>2
  <2> DEFINE g == [i \in 1 .. (m + 1) |-> IF i = 1 THEN ss[i] ELSE f[i - 1] \o ss[i]]
  <2>2. \A i \in 1 .. m : f[i] = (IF i = 1 THEN ss[i] ELSE f[i - 1] \o ss[i])
    BY <2>1, Zenon DEF Flattens
  <2>3. \A i \in 1 .. m : i \in 1 .. (m + 1)
    OBVIOUS
  <2>4. \A i \in 1 .. m : g[i] = f[i]
    BY <2>2, <2>3, Zenon
  <2>5. \A i \in 1 .. (m + 1) : i # 1 => i - 1 \in 1 .. m
    OBVIOUS
  <2>6. \A i \in 1 .. (m + 1) : i # 1 => g[i - 1] = f[i - 1]
    BY <2>4, <2>5
  <2>7. Flattens(g, ss, m + 1)
    BY <2>6, Zenon DEF Flattens
  <2> HIDE DEF g
  <2> QED BY <2>7
<1>3. Nat \subseteq T
  <2> HIDE DEF T
  <2> QED BY <1>1, <1>2, Induct
<1> QED BY <1>3

LEMMA FlattenHas ==
  ASSUME NEW S, NEW n \in Nat, NEW ss \in [1 .. n -> Seq(S)]
  PROVE  /\ FlattenSeq(ss) \in Seq(S)
         /\ \A i \in 1 .. n : ToSet(ss[i]) \subseteq ToSet(FlattenSeq(ss))
<1>0. Len(ss) = n /\ ss \in Seq(Seq(S))
  OBVIOUS
<1>1. CASE n = 0
  <2>1. FlattenSeq(ss) = ss
    BY <1>0, <1>1 DEF FlattenSeq
  <2>2. ss = <<>>
    BY <1>1
  <2> QED BY <1>1, <2>1, <2>2
<1>2. CASE n # 0
  <2> DEFINE f == CHOOSE h : Flattens(h, ss, n)
  <2>1. FlattenSeq(ss) = f[n]
    BY <1>0, <1>2, Zenon DEF FlattenSeq, Flattens
  <2>2. Flattens(f, ss, n)
    BY FlattenExists
  <2> HIDE DEF f
  <2>3. \A i \in 1 .. n : f[i] = IF i = 1 THEN ss[i] ELSE f[i - 1] \o ss[i]
    BY <2>2 DEF Flattens
  <2> DEFINE Holds(m) == f[m] \in Seq(S) /\ \A i \in 1 .. m : ToSet(ss[i]) \subseteq ToSet(f[m])
             T == {m \in Nat : m + 1 <= n => Holds(m + 1)}
  <2>4. 0 \in T
    <3>1. 1 \in 1 .. n /\ 1 .. 1 = {1} /\ 0 + 1 = 1
      BY <1>2
    <3>2. f[1] = ss[1] /\ ss[1] \in Seq(S)
      BY <2>3, <3>1
    <3> QED BY <3>1, <3>2
  <2>5. ASSUME NEW m \in Nat, m \in T PROVE m + 1 \in T
    <3> SUFFICES ASSUME m + 2 <= n PROVE Holds(m + 2)
      BY (m + 1) + 1 = m + 2
    <3>1. Holds(m + 1)
      BY <2>5
    <3>2. m + 2 \in 1 .. n /\ m + 2 # 1 /\ (m + 2) - 1 = m + 1
      OBVIOUS
    <3>3. f[m + 2] = f[m + 1] \o ss[m + 2] /\ ss[m + 2] \in Seq(S)
      BY <2>3, <3>2
    <3>4. \A i \in 1 .. (m + 2) : i \in 1 .. (m + 1) \/ i = m + 2
      OBVIOUS
    <3>5. /\ f[m + 2] \in Seq(S)
          /\ ToSet(f[m + 1]) \subseteq ToSet(f[m + 2]) /\ ToSet(ss[m + 2]) \subseteq ToSet(f[m + 2])
      BY <3>1, <3>3, JoinedHas
    <3> QED BY <3>1, <3>4, <3>5
  <2>6. Nat \subseteq T
    <3> HIDE DEF T
    <3> QED BY <2>4, <2>5, Induct
  <2>7. n - 1 \in Nat /\ (n - 1) + 1 = n
    BY <1>2
  <2>8. Holds(n)
    <3>1. n - 1 \in T
      <4> HIDE DEF T
      <4> QED BY <2>6, <2>7
    <3> HIDE DEF Holds
    <3> QED BY <2>7, <3>1
  <2> QED BY <2>1, <2>8
<1> QED BY <1>1, <1>2

(* Likewise the sum of a list of numbers.                                  *)
Adds(f, n, m) == f = [i \in 0 .. m |-> IF i = 0 THEN 0 ELSE f[i - 1] + n[i]]

LEMMA AddExists ==
  ASSUME NEW n, NEW k \in Nat
  PROVE  \E f : Adds(f, n, k)
<1> DEFINE T == {m \in Nat : \E f : Adds(f, n, m)}
<1>1. 0 \in T
  <2> DEFINE f == [i \in 0 .. 0 |-> 0]
  <2>1. Adds(f, n, 0)
    BY DEF Adds
  <2> HIDE DEF f
  <2> QED BY <2>1
<1>2. ASSUME NEW m \in Nat, m \in T PROVE m + 1 \in T
  <2>1. PICK f : Adds(f, n, m)
    BY <1>2
  <2> DEFINE g == [i \in 0 .. (m + 1) |-> IF i = 0 THEN 0 ELSE f[i - 1] + n[i]]
  <2>2. \A i \in 0 .. m : f[i] = (IF i = 0 THEN 0 ELSE f[i - 1] + n[i])
    BY <2>1, Zenon DEF Adds
  <2>3. \A i \in 0 .. m : i \in 0 .. (m + 1)
    OBVIOUS
  <2>4. \A i \in 0 .. m : g[i] = f[i]
    BY <2>2, <2>3, Zenon
  <2>5. \A i \in 0 .. (m + 1) : i # 0 => i - 1 \in 0 .. m
    OBVIOUS
  <2>6. \A i \in 0 .. (m + 1) : i # 0 => g[i - 1] = f[i - 1]
    BY <2>4, <2>5
  <2>7. Adds(g, n, m + 1)
    BY <2>6, Zenon DEF Adds
  <2> HIDE DEF g
  <2> QED BY <2>7
<1>3. Nat \subseteq T
  <2> HIDE DEF T
  <2> QED BY <1>1, <1>2, Induct
<1> QED BY <1>3

LEMMA AddedIs ==
  ASSUME NEW n \in Seq(Nat)
  PROVE  \E f : Adds(f, n, Len(n)) /\ Added(n) = f[Len(n)]
<1> DEFINE f == CHOOSE h : Adds(h, n, Len(n))
<1>1. Added(n) = f[Len(n)]
  BY Zenon DEF Added, Adds
<1>2. Adds(f, n, Len(n))
  BY AddExists
<1> HIDE DEF f
<1> QED BY <1>1, <1>2

LEMMA AddedAppend ==
  ASSUME NEW n \in Seq(Nat), NEW x \in Nat
  PROVE  Added(n) \in Nat /\ Added(Append(n, x)) = Added(n) + x
<1> DEFINE k == Len(n)
           p == Append(n, x)
<1>0. /\ k \in Nat /\ p \in Seq(Nat) /\ Len(p) = k + 1 /\ p[k + 1] = x
      /\ \A i \in 1 .. k : p[i] = n[i] /\ n[i] \in Nat
  OBVIOUS
<1> HIDE DEF p
<1>1. PICK f : Adds(f, n, k) /\ Added(n) = f[k]
  BY AddedIs
<1>2. PICK g : Adds(g, p, k + 1) /\ Added(p) = g[k + 1]
  BY <1>0, AddedIs
<1> HIDE DEF k
<1>3. \A i \in 0 .. k : f[i] = IF i = 0 THEN 0 ELSE f[i - 1] + n[i]
  BY <1>1, Zenon DEF Adds
<1>4. \A i \in 0 .. (k + 1) : g[i] = IF i = 0 THEN 0 ELSE g[i - 1] + p[i]
  BY <1>2, Zenon DEF Adds
<1> DEFINE T == {m \in Nat : m <= k => f[m] \in Nat /\ g[m] = f[m]}
<1>5. 0 \in T
  <2>1. 0 \in 0 .. k /\ 0 \in 0 .. (k + 1)
    BY <1>0
  <2> QED BY <1>3, <1>4, <2>1
<1>6. ASSUME NEW m \in Nat, m \in T PROVE m + 1 \in T
  <2> SUFFICES ASSUME m + 1 <= k PROVE f[m + 1] \in Nat /\ g[m + 1] = f[m + 1]
    OBVIOUS
  <2>1. /\ m + 1 \in 0 .. k /\ m + 1 \in 0 .. (k + 1) /\ m + 1 \in 1 .. k
        /\ m + 1 # 0 /\ (m + 1) - 1 = m /\ m <= k
    BY <1>0
  <2>2. f[m + 1] = f[m] + n[m + 1] /\ g[m + 1] = g[m] + p[m + 1]
    BY <1>3, <1>4, <2>1
  <2>3. f[m] \in Nat /\ g[m] = f[m] /\ p[m + 1] = n[m + 1] /\ n[m + 1] \in Nat
    BY <1>0, <1>6, <2>1
  <2> QED BY <2>2, <2>3
<1>7. Nat \subseteq T
  <2> HIDE DEF T
  <2> QED BY <1>5, <1>6, Induct
<1>8. f[k] \in Nat /\ g[k] = f[k]
  <2>1. k \in T
    <3> HIDE DEF T
    <3> QED BY <1>0, <1>7
  <2>2. k <= k
    BY <1>0
  <2> QED BY <2>1, <2>2
<1>9. g[k + 1] = g[k] + x
  <2>1. k + 1 \in 0 .. (k + 1) /\ k + 1 # 0 /\ (k + 1) - 1 = k
    BY <1>0
  <2> QED BY <1>0, <1>4, <2>1
<1> QED BY <1>1, <1>2, <1>8, <1>9 DEF p

-----------------------------------------------------------------------------
(***************************************************************************)
(* The decision.  One more finding changes neither sum downwards.          *)
(***************************************************************************)
Specialists == UNION {ToSet(q.roster) : q \in Requests}
Agents == Specialists \cup {"VDRGate", "CodeAgent", "X"}
Categories == {"agent-error", "filter-suppressed", "parse-error", "no-docs", "vdr-missing",
               "item", "code-risk", "oss-license", "qoe"} \cup UNION {q.breakers : q \in Requests}
Severities == Answers \cup {"low", "medium", "high", "critical"}
Tags == {None, "deal-stopper", "price-adjustment", "SPA-protection", "post-close-monitoring"}
Finding == [agent : Agents, category : Categories, severity : Severities, ic : Tags, upper : Nat]

LEMMA WeightIs == ASSUME NEW s PROVE Weight(s) \in Nat
  BY DEF Weight

LEMMA AppendIs ==
  ASSUME NEW S, NEW s \in Seq(S), NEW x \in S
  PROVE  /\ Append(s, x) = [i \in 1 .. (Len(s) + 1) |-> Append(s, x)[i]]
         /\ \A i \in 1 .. Len(s) : Append(s, x)[i] = s[i]
         /\ Append(s, x)[Len(s) + 1] = x
<1>1. Append(s, x) \in Seq(S) /\ Len(Append(s, x)) = Len(s) + 1
  OBVIOUS
<1>2. Append(s, x) = [i \in 1 .. (Len(s) + 1) |-> Append(s, x)[i]]
  <2>1. \A t \in Seq(S) : t = [i \in 1 .. Len(t) |-> t[i]]
    OBVIOUS
  <2> DEFINE a == Append(s, x)
  <2>2. a = [i \in 1 .. Len(a) |-> a[i]] /\ Len(a) = Len(s) + 1
    <3>1. a \in Seq(S) /\ Len(a) = Len(s) + 1
      BY <1>1
    <3> HIDE DEF a
    <3> QED BY <2>1, <3>1
  <2> HIDE DEF a
  <2>3. a = [i \in 1 .. (Len(s) + 1) |-> a[i]]
    BY <2>2, Zenon
  <2> QED BY <2>3 DEF a
<1>3. \A i \in 1 .. Len(s) : Append(s, x)[i] = s[i]
  OBVIOUS
<1>4. Append(s, x)[Len(s) + 1] = x
  OBVIOUS
<1> QED BY <1>2, <1>3, <1>4

Measured(v, fs) == Added([i \in DOMAIN fs |-> v[fs[i]]])

LEMMA MeasureGrows ==
  ASSUME NEW v \in [Finding -> Nat], NEW fs \in Seq(Finding), NEW f \in Finding
  PROVE  /\ Measured(v, fs) \in Nat /\ Measured(v, Append(fs, f)) \in Nat
         /\ Measured(v, fs) <= Measured(v, Append(fs, f))
<1> DEFINE n == [i \in DOMAIN fs |-> v[fs[i]]]
           w == v[f]
           p == [i \in DOMAIN Append(fs, f) |-> v[Append(fs, f)[i]]]
<1>1. n \in Seq(Nat) /\ Len(n) = Len(fs) /\ w \in Nat
  OBVIOUS
<1>2. p = Append(n, w)
  <2>1. /\ DOMAIN Append(fs, f) = 1 .. (Len(fs) + 1) /\ Len(fs) \in Nat
        /\ \A i \in 1 .. Len(fs) : Append(fs, f)[i] = fs[i]
        /\ Append(fs, f)[Len(fs) + 1] = f
    OBVIOUS
  <2> DEFINE q == Append(n, w)
  <2>2. /\ q = [i \in 1 .. (Len(fs) + 1) |-> q[i]]
        /\ \A i \in 1 .. Len(fs) : q[i] = n[i]
        /\ q[Len(fs) + 1] = w
    <3> HIDE DEF n, w
    <3>1. /\ q = [i \in 1 .. (Len(n) + 1) |-> q[i]]
          /\ \A i \in 1 .. Len(n) : q[i] = n[i]
          /\ q[Len(n) + 1] = w
      BY <1>1, AppendIs
    <3> HIDE DEF q
    <3> QED BY <1>1, <3>1
  <2>3. \A i \in 1 .. (Len(fs) + 1) : p[i] = q[i]
    <3>1. \A i \in 1 .. (Len(fs) + 1) : i \in 1 .. Len(fs) \/ i = Len(fs) + 1
      OBVIOUS
    <3>2. \A i \in 1 .. Len(fs) : q[i] = v[fs[i]]
      BY <2>2
    <3>3. \A i \in 1 .. (Len(fs) + 1) : p[i] = v[Append(fs, f)[i]]
      BY <2>1
    <3>4. Len(fs) + 1 \in 1 .. (Len(fs) + 1)
      BY <2>1
    <3> HIDE DEF p, q, n
    <3>5. \A i \in 1 .. Len(fs) : i \in 1 .. (Len(fs) + 1)
      BY <2>1
    <3>6. \A i \in 1 .. Len(fs) : p[i] = q[i]
      <4> TAKE i \in 1 .. Len(fs)
      <4>1. p[i] = v[Append(fs, f)[i]]
        BY <3>3, <3>5
      <4>2. Append(fs, f)[i] = fs[i]
        BY <2>1
      <4>3. q[i] = v[fs[i]]
        BY <3>2
      <4> QED BY <4>1, <4>2, <4>3, Zenon
    <3>7. p[Len(fs) + 1] = q[Len(fs) + 1]
      BY <2>1, <2>2, <3>3, <3>4, Zenon
    <3> QED BY <3>1, <3>6, <3>7
  <2>4. p = [i \in 1 .. (Len(fs) + 1) |-> p[i]]
    BY <2>1
  <2> HIDE DEF p, q
  <2> QED BY <2>2, <2>3, <2>4, Zenon DEF q
<1>3. Added(n) \in Nat /\ Added(p) = Added(n) + w
  <2> HIDE DEF n, w, p
  <2> QED BY <1>1, <1>2, AddedAppend
<1>4. Measured(v, fs) = Added(n) /\ Measured(v, Append(fs, f)) = Added(p)
  BY Zenon DEF Measured
<1> HIDE DEF n, w, p
<1> QED BY <1>1, <1>3, <1>4

LEMMA TotalGrows ==
  ASSUME NEW fs \in Seq(Finding), NEW f \in Finding
  PROVE  Total(fs) \in Nat /\ Total(Append(fs, f)) \in Nat /\ Total(fs) <= Total(Append(fs, f))
<1> DEFINE v == [g \in Finding |-> Weight(g.severity)]
<1>1. v \in [Finding -> Nat]
  BY WeightIs
<1>2. ASSUME NEW gs \in Seq(Finding) PROVE Total(gs) = Measured(v, gs)
  <2>1. \A i \in DOMAIN gs : gs[i] \in Finding
    OBVIOUS
  <2>2. [i \in DOMAIN gs |-> Weight(gs[i].severity)] = [i \in DOMAIN gs |-> v[gs[i]]]
    BY <2>1, Zenon
  <2> QED BY <2>2, Zenon DEF Total, Measured
<1>3. Append(fs, f) \in Seq(Finding)
  OBVIOUS
<1> HIDE DEF v
<1> QED BY <1>1, <1>2, <1>3, MeasureGrows

LEMMA ExposedGrows ==
  ASSUME NEW fs \in Seq(Finding), NEW f \in Finding
  PROVE  Exposed(fs) \in Nat /\ Exposed(Append(fs, f)) \in Nat /\ Exposed(fs) <= Exposed(Append(fs, f))
<1> DEFINE v == [g \in Finding |-> g.upper]
<1>1. v \in [Finding -> Nat]
  BY DEF Finding
<1>2. ASSUME NEW gs \in Seq(Finding) PROVE Exposed(gs) = Measured(v, gs)
  <2>1. \A i \in DOMAIN gs : gs[i] \in Finding
    OBVIOUS
  <2>2. [i \in DOMAIN gs |-> gs[i].upper] = [i \in DOMAIN gs |-> v[gs[i]]]
    BY <2>1, Zenon
  <2> QED BY <2>2, Zenon DEF Exposed, Measured
<1>3. Append(fs, f) \in Seq(Finding)
  OBVIOUS
<1> HIDE DEF v
<1> QED BY <1>1, <1>2, <1>3, MeasureGrows

Critical(fs) == \E i \in DOMAIN fs : fs[i].severity = "critical"
Stopped(fs) == \E i \in DOMAIN fs : fs[i].ic = "deal-stopper" \/ fs[i].category \in request.breakers
LEMMA HasStill ==
  ASSUME NEW fs \in Seq(Finding), NEW f \in Finding
  PROVE  /\ Critical(fs) => Critical(Append(fs, f))
         /\ Stopped(fs) => Stopped(Append(fs, f))
<1>1. \A i \in DOMAIN fs : i \in DOMAIN Append(fs, f) /\ Append(fs, f)[i] = fs[i]
  OBVIOUS
<1> QED BY <1>1, Zenon DEF Critical, Stopped

LEMMA Stricter ==
  ASSUME NEW fs \in Seq(Finding), NEW f \in Finding, AssessmentAssumption, request \in Requests
  PROVE  Strictness(Verdict(Append(fs, f))) >= Strictness(Verdict(fs))
<1> DEFINE gs == Append(fs, f)
<1>1. /\ Critical(fs) => Critical(gs)
      /\ Stopped(fs) => Stopped(gs)
  BY HasStill
<1>2. Total(fs) \in Nat /\ Total(gs) \in Nat /\ Total(fs) <= Total(gs)
  BY TotalGrows
<1>3. Exposed(fs) \in Nat /\ Exposed(gs) \in Nat /\ Exposed(fs) <= Exposed(gs)
  BY ExposedGrows
<1> HIDE DEF gs
<1>4. CASE request.scope
  <2> DEFINE Material(ss) == \E threshold \in Materiality : Exposed(ss) > threshold
  <2>1. \A ss : /\ Stopped(ss) => Verdict(ss) = "walk"
                /\ ~Stopped(ss) /\ Material(ss) => Verdict(ss) = "reprice"
                /\ ~Stopped(ss) /\ ~Material(ss) => Verdict(ss) = "proceed"
    <3>1. \A ss : Verdict(ss) = IF Stopped(ss) THEN "walk"
                                ELSE IF Material(ss) THEN "reprice" ELSE "proceed"
      BY <1>4, Zenon DEF Verdict, Recommended, Stopped, Has, IsStopper
    <3> HIDE DEF Material
    <3> QED BY <3>1
  <2>2. Materiality \subseteq Int
    <3>1. request.value \in Nat /\ request.materiality \subseteq Int
      BY Zenon DEF AssessmentAssumption
    <3> QED BY <3>1 DEF Materiality
  <2>3. /\ Strictness("walk") = 2 /\ Strictness("reprice") = 1 /\ Strictness("proceed") = 0
    BY DEF Strictness
  <2>4. Material(fs) => Material(gs)
    BY <1>3, <2>2
  <2> HIDE DEF Material
  <2>5. /\ Verdict(fs) = "walk" => Verdict(gs) = "walk"
        /\ Verdict(fs) = "reprice" => Verdict(gs) \in {"walk", "reprice"}
        /\ Verdict(fs) \in {"walk", "reprice", "proceed"}
        /\ Verdict(gs) \in {"walk", "reprice", "proceed"}
    BY <1>1, <2>1, <2>4
  <2> QED BY <2>3, <2>5 DEF gs
<1>5. CASE ~request.scope
  <2>1. \A ss : /\ Critical(ss) \/ Total(ss) > Ceiling => Verdict(ss) = "reject"
                /\ ~Critical(ss) /\ ~(Total(ss) > Ceiling) /\ Total(ss) > Floor
                     => Verdict(ss) = "conditional-approve"
                /\ ~Critical(ss) /\ ~(Total(ss) > Ceiling) /\ ~(Total(ss) > Floor)
                     => Verdict(ss) = "approve"
    <3>1. \A ss : Verdict(ss) = IF Critical(ss) \/ Total(ss) > Ceiling THEN "reject"
                                ELSE IF Total(ss) > Floor THEN "conditional-approve" ELSE "approve"
      BY <1>5, Zenon DEF Verdict, Ruled, Critical, Has, IsCritical
    <3> QED BY <3>1
  <2>2. Ceiling \in Nat /\ Floor \in Nat /\ Floor <= Ceiling
    BY DEF Ceiling, Floor
  <2>3. /\ Strictness("reject") = 2 /\ Strictness("conditional-approve") = 1
        /\ Strictness("approve") = 0
    BY DEF Strictness
  <2>4. /\ Total(fs) > Ceiling => Total(gs) > Ceiling
        /\ Total(fs) > Floor => Total(gs) > Floor
    BY <1>2, <2>2
  <2>5. /\ Verdict(fs) = "reject" => Verdict(gs) = "reject"
        /\ Verdict(fs) = "conditional-approve" => Verdict(gs) \in {"reject", "conditional-approve"}
        /\ Verdict(fs) \in {"reject", "conditional-approve", "approve"}
        /\ Verdict(gs) \in {"reject", "conditional-approve", "approve"}
    BY <1>1, <2>1, <2>4
  <2> QED BY <2>3, <2>5 DEF gs
<1> QED BY <1>4, <1>5

-----------------------------------------------------------------------------
(***************************************************************************)
(* What a specialist has found.  One that raised says so with a critical   *)
(* finding, one whose answer was withheld with one that is not low.        *)
(***************************************************************************)
BranchFine(a, b) ==
  /\ b.found \in Seq(Finding)
  /\ b.status = "raised" =>
       \E i \in DOMAIN b.found : b.found[i].agent = a /\ b.found[i].severity = "critical"
  /\ b.status = "suppressed" =>
       \E i \in DOMAIN b.found : b.found[i].agent = a /\ b.found[i].severity # "low"

LEMMA OneFinding ==
  ASSUME NEW f \in Finding
  PROVE  <<f>> \in Seq(Finding) /\ 1 \in DOMAIN <<f>> /\ <<f>>[1] = f
OBVIOUS

LEMMA PlainIs ==
  ASSUME NEW a \in Agents, NEW c \in Categories, NEW s \in Severities
  PROVE  Plain(a, c, s) \in Finding /\ Plain(a, c, s).agent = a /\ Plain(a, c, s).severity = s
BY DEF Plain, Finding, Tags

LEMMA TaggedIs ==
  ASSUME NEW a \in Agents, NEW c \in Categories, NEW s \in Severities, NEW ic \in Tags, NEW u \in Nat
  PROVE  Tagged(a, c, s, ic, u) \in Finding
BY DEF Tagged, Finding

LEMMA ErrorFine == ASSUME NEW a \in Agents PROVE BranchFine(a, Error(a))
<1> DEFINE f == Plain(a, "agent-error", "critical")
<1>1. f \in Finding /\ f.agent = a /\ f.severity = "critical"
  BY PlainIs DEF Categories, Severities
<1>2. Error(a).found = <<f>> /\ Error(a).status = "raised"
  BY DEF Error
<1> HIDE DEF f
<1>3. <<f>> \in Seq(Finding) /\ 1 \in DOMAIN <<f>> /\ <<f>>[1] = f
  BY <1>1, OneFinding
<1> QED BY <1>1, <1>2, <1>3 DEF BranchFine

LEMMA SuppressedFine == ASSUME NEW a \in Agents PROVE BranchFine(a, Suppressed(a))
<1> DEFINE f == Plain(a, "filter-suppressed", "medium")
<1>1. f \in Finding /\ f.agent = a /\ f.severity = "medium"
  BY PlainIs DEF Categories, Severities
<1>2. Suppressed(a).found = <<f>> /\ Suppressed(a).status = "suppressed"
  BY DEF Suppressed
<1> HIDE DEF f
<1>3. <<f>> \in Seq(Finding) /\ 1 \in DOMAIN <<f>> /\ <<f>>[1] = f
  BY <1>1, OneFinding
<1> QED BY <1>1, <1>2, <1>3 DEF BranchFine

LEMMA CalmFine ==
  ASSUME NEW a, NEW todo, NEW found \in Seq(Finding), NEW st, st \notin {"raised", "suppressed"}
  PROVE  BranchFine(a, [todo |-> todo, found |-> found, status |-> st])
BY DEF BranchFine

LEMMA SettledFine ==
  ASSUME NEW a, NEW found \in Seq(Finding) PROVE BranchFine(a, Settled(found))
BY CalmFine DEF Settled

LEMMA OpeningFine ==
  ASSUME NEW a \in Agents, NEW docs PROVE BranchFine(a, Opening(a, docs))
<1> DEFINE todo == SelectSeq(docs, LAMBDA n : Asks(a, n))
           w(t) == [todo |-> t, found |-> <<>>, status |-> "working"]
           p == <<Plain(a, "no-docs", "low")>>
           q == <<Tagged(a, "no-docs", "low", "post-close-monitoring", 0)>>
<1>1. Opening(a, docs) \in {Error(a), w(<<"all">>), w(todo), Settled(<<>>), Settled(p), Settled(q)}
  <2>1. CASE a = "ExternalAgent"
    BY <2>1, Zenon DEF Opening
  <2>2. CASE a = "CodeAgent"
    BY <2>2, Zenon DEF Opening
  <2>3. CASE a = "ESGAgent" /\ docs = <<>>
    BY <2>3, Zenon DEF Opening
  <2>4. CASE a = "SaaSMetricsAgent" /\ docs = <<>>
    BY <2>4, Zenon DEF Opening
  <2>5. CASE /\ a \notin {"ExternalAgent", "CodeAgent"}
             /\ ~(a = "ESGAgent" /\ docs = <<>>) /\ ~(a = "SaaSMetricsAgent" /\ docs = <<>>)
    BY <2>5, Zenon DEF Opening
  <2> QED BY <2>1, <2>2, <2>3, <2>4, <2>5
<1>2. p \in Seq(Finding) /\ q \in Seq(Finding) /\ <<>> \in Seq(Finding)
  <2>1. Plain(a, "no-docs", "low") \in Finding
    BY PlainIs DEF Categories, Severities
  <2>2. Tagged(a, "no-docs", "low", "post-close-monitoring", 0) \in Finding
    BY TaggedIs DEF Categories, Severities, Tags
  <2> QED BY <2>1, <2>2, OneFinding
<1>3. \A t : BranchFine(a, w(t))
  BY <1>2, CalmFine
<1>4. BranchFine(a, Settled(<<>>)) /\ BranchFine(a, Settled(p)) /\ BranchFine(a, Settled(q))
  BY <1>2, SettledFine
<1> HIDE DEF w, p, q, todo
<1> QED BY <1>1, <1>3, <1>4, ErrorFine

LEMMA ItemsAre ==
  ASSUME NEW a \in Agents, NEW answer \in Answers, NEW license \in Licenses,
         AssessmentAssumption, request \in Requests
  PROVE  Items(a, answer, license) \in Seq(Finding)
<1>1. Exposure \in Nat
  BY DEF AssessmentAssumption
<1>2. Severity(answer) \in Severities
  BY DEF Severity, Severities
<1>3. License(license) \in Seq(Finding)
  <2> DEFINE f == Tagged("CodeAgent", "oss-license", "critical", "deal-stopper", request.value)
             g == Tagged("CodeAgent", "oss-license", "high", "SPA-protection", 0)
             h == Tagged("CodeAgent", "oss-license", "low", "post-close-monitoring", 0)
  <2>1. License(license) \in {<<>>, <<f>>, <<g>>, <<h>>}
    <3>1. CASE ~MA \/ license = "standard"
      BY <3>1, Zenon DEF License
    <3>2. CASE MA /\ license = "gpl"
      BY <3>2, Zenon DEF License
    <3>3. CASE MA /\ license = "lgpl"
      BY <3>3, Zenon DEF License
    <3>4. CASE MA /\ license \notin {"standard", "gpl", "lgpl"}
      BY <3>4, Zenon DEF License
    <3> QED BY <3>1, <3>2, <3>3, <3>4
  <2>2. f \in Finding /\ g \in Finding /\ h \in Finding
    <3>1. "CodeAgent" \in Agents
      BY DEF Agents
    <3>2. request.value \in Nat
      BY Zenon DEF AssessmentAssumption
    <3> QED BY <3>1, <3>2, TaggedIs DEF Categories, Severities, Tags
  <2> HIDE DEF f, g, h
  <2>3. <<f>> \in Seq(Finding) /\ <<g>> \in Seq(Finding) /\ <<h>> \in Seq(Finding) /\ <<>> \in Seq(Finding)
    BY <2>2, OneFinding
  <2> QED BY <2>1, <2>3
<1>4. CASE a = "SaaSMetricsAgent"
  <2> DEFINE f == Tagged(a, "item", "critical", "deal-stopper", 0)
             g == Tagged(a, "item", "high", "price-adjustment", Exposure)
             h == Tagged(a, "item", Severity(answer), "post-close-monitoring", 0)
  <2>1. Items(a, answer, license) \in {<<f>>, <<g>>, <<h>>}
    <3>1. CASE answer = "stopper"
      BY <1>4, <3>1, Zenon DEF Items
    <3>2. CASE answer = "chip"
      BY <1>4, <3>2, Zenon DEF Items
    <3>3. CASE answer # "stopper" /\ answer # "chip"
      BY <1>4, <3>3, Zenon DEF Items
    <3> QED BY <3>1, <3>2, <3>3
  <2>2. f \in Finding /\ g \in Finding /\ h \in Finding
    BY <1>1, <1>2, TaggedIs DEF Categories, Severities, Tags
  <2> HIDE DEF f, g, h
  <2>3. <<f>> \in Seq(Finding) /\ <<g>> \in Seq(Finding) /\ <<h>> \in Seq(Finding)
    BY <2>2, OneFinding
  <2> QED BY <2>1, <2>3
<1>5. CASE a = "CodeAgent"
  <2>1. Items(a, answer, license) = <<Plain(a, "code-risk", Severity(answer))>> \o License(license)
    BY <1>5, Zenon DEF Items
  <2>2. <<Plain(a, "code-risk", Severity(answer))>> \in Seq(Finding)
    BY <1>2, PlainIs, OneFinding DEF Categories
  <2> QED BY <1>3, <2>1, <2>2, JoinedHas
<1>6. CASE a \notin {"SaaSMetricsAgent", "CodeAgent"}
  <2>1. Items(a, answer, license) = <<Plain(a, "item", Severity(answer))>>
    BY <1>6, Zenon DEF Items
  <2> QED BY <1>2, <2>1, PlainIs, OneFinding DEF Categories
<1> QED BY <1>4, <1>5, <1>6

LEMMA HeardFine ==
  ASSUME NEW a \in Agents, NEW answer \in Answers, NEW b, BranchFine(a, b), b.status = "working",
         NEW license \in Licenses, AssessmentAssumption, request \in Requests
  PROVE  BranchFine(a, Heard(a, b, answer, license))
<1> DEFINE p == Plain(a, "parse-error", IF a \in Trusting THEN "high" ELSE "critical")
<1>0. b.found \in Seq(Finding)
  BY DEF BranchFine
<1>1. ASSUME NEW found \in Seq(Finding) PROVE BranchFine(a, Answered(b, found))
  BY CalmFine DEF Answered
<1>2. p \in Finding
  BY PlainIs DEF Categories, Severities
<1>3. Items(a, answer, license) \in Seq(Finding)
  BY ItemsAre
<1>4. Heard(a, b, answer, license) \in
        {Error(a), Suppressed(a), Answered(b, b.found), Answered(b, Append(b.found, p)),
         Answered(b, b.found \o Items(a, answer, license))}
  <2>1. CASE answer = "raises" \/ (answer = "shape" /\ a \in Trusting)
    BY <2>1, Zenon DEF Heard
  <2>2. CASE answer = "suppressed"
    BY <2>2, Zenon DEF Heard
  <2>3. CASE answer = "silent"
    BY <2>3, Zenon DEF Heard
  <2>4. CASE answer = "prose" \/ (answer = "shape" /\ a \notin Trusting)
    BY <2>4, Zenon DEF Heard
  <2>5. CASE answer \notin {"raises", "shape", "suppressed", "silent", "prose"}
    BY <2>5, Zenon DEF Heard
  <2> QED BY <2>1, <2>2, <2>3, <2>4, <2>5
<1> HIDE DEF p
<1>5. Append(b.found, p) \in Seq(Finding) /\ b.found \o Items(a, answer, license) \in Seq(Finding)
  BY <1>0, <1>2, <1>3
<1> QED BY <1>0, <1>1, <1>4, <1>5, ErrorFine, SuppressedFine

LEMMA WoundFine ==
  ASSUME NEW a, NEW b, BranchFine(a, b)
  PROVE  BranchFine(a, Wound(a, b))
<1>1. CASE b.status # "working" \/ b.todo # <<>>
  BY <1>1 DEF Wound
<1>2. CASE ~(b.status # "working" \/ b.todo # <<>>)
  <2> DEFINE s == IF a = "FinancialAgent" /\ MA /\ b.found # <<>> THEN "qoe" ELSE "done"
  <2>1. s \notin {"raised", "suppressed"}
    OBVIOUS
  <2>2. Wound(a, b) = [todo |-> b.todo, found |-> b.found, status |-> s]
    BY <1>2, Zenon DEF Wound
  <2> HIDE DEF s
  <2> QED BY <2>1, <2>2, CalmFine DEF BranchFine
<1> QED BY <1>1, <1>2

-----------------------------------------------------------------------------
(***************************************************************************)
(* An assessment.  Nothing is audited, decided or written before its node; *)
(* what the specialists found stays among the findings, and from the       *)
(* decision on neither they nor the audit change.                          *)
(***************************************************************************)
Kept == \A a \in Roster : ToSet(branch[a].found) \subseteq ToSet(findings)
Undecided == {"intake", "vdr_gate", "router", "specialists", "risk_score", "policy"}
Decided == {"remediation", "coordinator"}
Settles == /\ audit = findings
           /\ decision.verdict = Verdict(findings) /\ decision.recommendation = Advised(findings)
ToldAll == /\ audit = findings /\ report.findings = findings /\ Kept
           /\ decision.verdict = Verdict(findings)
           /\ report.verdict = IF MA THEN Advised(findings) ELSE Verdict(findings)

FoundFine ==
  /\ request \in Requests /\ findings \in Seq(Finding)
  /\ branch = [a \in Roster |-> branch[a]]
  /\ \A a \in Roster : BranchFine(a, branch[a])
AssessmentInv ==
  /\ FoundFine
  /\ at \in Undecided => audit = <<>> /\ ~Written
  /\ at \in {"risk_score", "policy"} \cup Decided => Kept
  /\ at \in Decided => Settles /\ ~Written
  /\ Written => ToldAll

LEMMA RosterIs ==
  ASSUME AssessmentAssumption, FoundFine
  PROVE  /\ Roster \subseteq Agents
         /\ request.roster \in Seq(STRING)
<1>1. request \in Requests
  BY DEF FoundFine
<1>2. request.roster \in Seq(STRING)
  BY <1>1, Zenon DEF AssessmentAssumption
<1>3. Roster \subseteq Specialists
  BY <1>1, Zenon DEF Roster, Specialists
<1> QED BY <1>2, <1>3 DEF Agents

LEMMA SameVerdict ==
  ASSUME request' = request, findings' = findings
  PROVE  UNCHANGED <<Verdict(findings), Advised(findings), MA>>
<1>1. [i \in DOMAIN findings' |-> findings'[i].upper] = [i \in DOMAIN findings |-> findings[i].upper]
  OBVIOUS
<1>2. \A s : Weight(s)' = Weight(s)
  BY DEF Weight, MA
<1>3. Total(findings)' = Total(findings)
  BY <1>2 DEF Total
<1>4. Ceiling' = Ceiling /\ Floor' = Floor
  BY DEF Ceiling, Floor, MA
<1>5. Ruled(findings)' = Ruled(findings)
  BY <1>3, <1>4 DEF Ruled, Has, IsCritical
<1>6. Recommended(findings)' = Recommended(findings)
  <2>1. UNCHANGED <<Exposed(findings), Materiality>>
    BY <1>1 DEF Exposed, Materiality
  <2>2. Has(findings, IsStopper)' = Has(findings, IsStopper)
    BY DEF Has, IsStopper
  <2> QED BY <2>1, <2>2, Zenon DEF Recommended
<1>7. MA' = MA
  BY DEF MA
<1>8. Verdict(findings)' = Verdict(findings) /\ Advised(findings)' = Advised(findings)
  BY <1>5, <1>6 DEF Verdict, Advised
<1> QED BY <1>7, <1>8

LEMMA AssessmentStarts ==
  ASSUME AssessmentAssumption, Init PROVE AssessmentInv
<1>1. /\ request \in Requests /\ at = "intake" /\ findings = <<>> /\ audit = <<>>
      /\ report = Unwritten
      /\ branch = [a \in Roster |-> [todo |-> <<>>, found |-> <<>>, status |-> "idle"]]
  BY DEF Init, Roster
<1>2. ~Written
  BY <1>1 DEF Written, Unwritten
<1>3. \A a \in Roster : BranchFine(a, branch[a])
  <2>1. <<>> \in Seq(Finding)
    OBVIOUS
  <2>2. \A a : BranchFine(a, [todo |-> <<>>, found |-> <<>>, status |-> "idle"])
    BY <2>1, CalmFine
  <2> QED BY <1>1, <2>2, Zenon
<1>4. FoundFine
  <2>1. findings \in Seq(Finding)
    BY <1>1
  <2>2. branch = [a \in Roster |-> branch[a]]
    BY <1>1
  <2> QED BY <1>1, <1>3, <2>1, <2>2 DEF FoundFine
<1> QED BY <1>1, <1>2, <1>4 DEF AssessmentInv, Decided

(* Steps that leave the findings alone keep what is known of them.         *)
LEMMA FoundKept ==
  ASSUME AssessmentInv, request' = request, findings' = findings, branch' = branch
  PROVE  FoundFine' /\ (Kept' <=> Kept) /\ UNCHANGED <<Verdict(findings), Advised(findings), MA>>
<1>1. UNCHANGED <<Verdict(findings), Advised(findings), MA>>
  BY SameVerdict
<1>2. Roster' = Roster
  BY DEF Roster
<1>3. Kept' <=> Kept
  BY <1>2, Zenon DEF Kept
<1>4. FoundFine'
  BY <1>2, Zenon DEF AssessmentInv, FoundFine
<1> QED BY <1>1, <1>3, <1>4

LEMMA QuietKeeps ==
  ASSUME AssessmentInv, UNCHANGED <<request, findings, branch, decision, audit, report>>,
         \/ at' = at
         \/ Intake \/ RiskScore \/ Remediation \/ PmiPlanner
  PROVE  AssessmentInv'
<1>0. FoundFine' /\ (Kept' <=> Kept) /\ UNCHANGED <<Verdict(findings), Advised(findings), MA>>
  BY FoundKept
<1>1. Written' <=> Written
  BY DEF Written
<1>2. /\ at' \in Undecided => at \in Undecided
      /\ at' \in {"risk_score", "policy"} \cup Decided =>
           at \in {"risk_score", "policy"} \cup Decided
      /\ at' \in Decided => at \in Decided
  <2>1. CASE at' = at
    BY <2>1
  <2>2. CASE Intake
    <3>1. at = "intake" /\ at' \in {"failed", "vdr_gate", "router"}
      BY <2>2 DEF Intake, Goto, Fails
    <3> QED BY <3>1 DEF Undecided, Decided
  <2>3. CASE RiskScore
    <3>1. at = "risk_score" /\ at' = "policy"
      BY <2>3 DEF RiskScore, Goto
    <3> QED BY <3>1 DEF Undecided, Decided
  <2>4. CASE Remediation
    <3>1. at = "remediation" /\ at' \in {"failed", "coordinator"}
      BY <2>4 DEF Remediation, Goto, Fails
    <3> QED BY <3>1 DEF Undecided, Decided
  <2>5. CASE PmiPlanner
    <3>1. at' \in {"failed", "end"}
      BY <2>5 DEF PmiPlanner, Goto, Fails
    <3> QED BY <3>1 DEF Undecided, Decided
  <2> QED BY <2>1, <2>2, <2>3, <2>4, <2>5
<1> QED BY <1>0, <1>1, <1>2 DEF AssessmentInv, Settles, ToldAll

LEMMA PolicyKeeps ==
  ASSUME AssessmentInv, Policy PROVE AssessmentInv'
<1>0. UNCHANGED <<request, findings, branch, report>> /\ at = "policy"
  BY DEF Policy
<1>1. FoundFine' /\ (Kept' <=> Kept) /\ UNCHANGED <<Verdict(findings), Advised(findings), MA>>
  BY <1>0, FoundKept
<1>2. audit = <<>> /\ ~Written /\ Kept /\ ~Written'
  BY <1>0 DEF AssessmentInv, Undecided, Written
<1>3. CASE at' = "failed"
  BY <1>1, <1>2, <1>3 DEF AssessmentInv, Undecided, Decided
<1>4. CASE at' # "failed"
  <2>1. /\ at' = "remediation" /\ audit' = Audited(findings)
        /\ decision' = [verdict |-> Verdict(findings), recommendation |-> Advised(findings),
                        register |-> Register(findings)]
    BY <1>4 DEF Policy, Goto, Fails
  <2>2. audit' = findings
    BY <1>2, <2>1 DEF Audited, AssessmentInv, FoundFine
  <2>3. decision'.verdict = Verdict(findings) /\ decision'.recommendation = Advised(findings)
    BY <2>1
  <2> QED BY <1>0, <1>1, <1>2, <2>1, <2>2, <2>3 DEF AssessmentInv, Undecided, Decided, Settles
<1> QED BY <1>3, <1>4

LEMMA CoordinatorKeeps ==
  ASSUME AssessmentInv, Coordinator PROVE AssessmentInv'
<1>0. UNCHANGED <<request, findings, branch, decision, audit>> /\ at = "coordinator"
  BY DEF Coordinator
<1>1. FoundFine' /\ (Kept' <=> Kept) /\ UNCHANGED <<Verdict(findings), Advised(findings), MA>>
  BY <1>0, FoundKept
<1>2. Kept /\ Settles /\ ~Written
  BY <1>0 DEF AssessmentInv, Decided
<1>3. at' \notin Undecided \cup {"risk_score", "policy"} \cup Decided
  <2>1. at' \in {"failed", "end", "pmi_planner"}
    BY DEF Coordinator, Goto, Fails
  <2> QED BY <2>1 DEF Undecided, Decided
<1>4. report' = report \/ report' = Told
  BY DEF Coordinator
<1>5. CASE report' = report
  <2>1. ~Written'
    BY <1>2, <1>5 DEF Written
  <2> QED BY <1>1, <1>3, <2>1 DEF AssessmentInv
<1>6. CASE report' = Told
  <2>1. /\ report'.findings = findings
        /\ report'.verdict = IF MA THEN decision.recommendation ELSE decision.verdict
    BY <1>6 DEF Told
  <2>2. ToldAll'
    BY <1>0, <1>1, <1>2, <2>1 DEF ToldAll, Settles
  <2> QED BY <1>1, <1>3, <2>2 DEF AssessmentInv
<1> QED BY <1>4, <1>5, <1>6

(* Before anything is audited, the findings and the branches may change.   *)
LEMMA EarlyKeeps ==
  ASSUME AssessmentInv, at \in Undecided, UNCHANGED <<request, audit, report>>, FoundFine',
         at' \in (Undecided \ {"risk_score", "policy"}) \cup {"failed"} \/ (at' = "risk_score" /\ Kept')
  PROVE  AssessmentInv'
<1>1. audit = <<>> /\ ~Written /\ ~Written'
  BY DEF AssessmentInv, Written
<1>2. at' \notin Decided /\ (at' \in {"risk_score", "policy"} => Kept')
  BY DEF Undecided, Decided
<1> QED BY <1>1, <1>2 DEF AssessmentInv

LEMMA VdrGateKeeps ==
  ASSUME AssessmentAssumption, AssessmentInv, VdrGate PROVE AssessmentInv'
<1> DEFINE f == Tagged("VDRGate", "vdr-missing", "low", "post-close-monitoring", 0)
           n == Cardinality(Gaps)
           t == [i \in 1 .. n |-> f]
<1>1. n \in Nat
  <2>1. IsFiniteSet(Drl)
    <3> DEFINE one == {"financial_statements"}
               two == one \cup {"legal_corporate"}
               three == two \cup {"ip_assignments"}
               four == three \cup {"security_pentest"}
               five == four \cup {"cap_table"}
               six == five \cup {"tax_returns"}
    <3>1. IsFiniteSet(one) 
      BY FS_Singleton
    <3>2. /\ IsFiniteSet(one) => IsFiniteSet(two)
          /\ IsFiniteSet(two) => IsFiniteSet(three)
          /\ IsFiniteSet(three) => IsFiniteSet(four)
          /\ IsFiniteSet(four) => IsFiniteSet(five)
          /\ IsFiniteSet(five) => IsFiniteSet(six)
      BY FS_AddElement, Zenon
    <3>3. Drl = six
      BY DEF Drl
    <3> QED BY <3>1, <3>2, <3>3, Zenon
  <2>2. Gaps \subseteq Drl
    BY DEF Gaps
  <2>3. IsFiniteSet(Gaps)
    BY <2>1, <2>2, FS_Subset
  <2> QED BY <2>3, FS_CardinalityType
<1>2. f \in Finding
  <2>1. "VDRGate" \in Agents
    BY DEF Agents
  <2> QED BY <2>1, TaggedIs DEF Categories, Severities, Tags
<1>3. findings' = findings \o t /\ at = "vdr_gate" /\ at' = "router"
  BY Zenon DEF VdrGate, Goto
<1> HIDE DEF f, n
<1>4. t \in Seq(Finding)
  BY <1>1, <1>2
<1> HIDE DEF t
<1>5. UNCHANGED <<request, branch, audit, report>>
  BY DEF VdrGate
<1>6. findings' \in Seq(Finding)
  BY <1>3, <1>4 DEF AssessmentInv, FoundFine
<1>7. FoundFine'
  <2>1. Roster' = Roster
    BY <1>5 DEF Roster
  <2> QED BY <1>5, <1>6, <2>1, Zenon DEF AssessmentInv, FoundFine
<1> QED BY <1>3, <1>5, <1>7, EarlyKeeps DEF Undecided

LEMMA RouteKeeps ==
  ASSUME AssessmentAssumption, AssessmentInv, Route PROVE AssessmentInv'
<1>1. UNCHANGED <<request, findings, audit, report>> /\ at = "router"
  BY DEF Route
<1>2. Roster' = Roster
  BY <1>1 DEF Roster
<1>3. FoundFine /\ Roster \subseteq Agents
  BY RosterIs DEF AssessmentInv
<1>4. CASE UNCHANGED branch /\ at' = "failed"
  <2>1. FoundFine'
    BY <1>1, <1>2, <1>3, <1>4, Zenon DEF FoundFine
  <2> QED BY <1>1, <1>4, <2>1, EarlyKeeps DEF Undecided
<1>5. CASE branch' = [a \in Roster |-> Opening(a, routing'[a])] /\ at' = "specialists"
  <2>1. \A a \in Roster : BranchFine(a, branch'[a])
    BY <1>3, <1>5, OpeningFine
  <2>2. branch' = [a \in Roster |-> branch'[a]]
    BY <1>5
  <2>3. \A a \in Roster' : BranchFine(a, branch[a])'
    BY <1>2, <2>1 DEF BranchFine
  <2>4. FoundFine'
    BY <1>1, <1>2, <1>3, <2>2, <2>3, Zenon DEF FoundFine
  <2> QED BY <1>1, <1>5, <2>4, EarlyKeeps DEF Undecided
<1> QED BY <1>4, <1>5, Zenon DEF Route, Goto, Fails

LEMMA OneBranchKeeps ==
  ASSUME AssessmentInv, at = "specialists", UNCHANGED <<request, at, findings, audit, report>>,
         NEW a \in Roster, NEW b, BranchFine(a, b), branch' = [branch EXCEPT ![a] = b]
  PROVE  AssessmentInv'
<1>1. Roster' = Roster
  BY DEF Roster
<1>2. FoundFine
  BY DEF AssessmentInv
<1>3. branch = [c \in Roster |-> branch[c]] /\ \A c \in Roster : BranchFine(c, branch[c])
  BY <1>2 DEF FoundFine
<1>4. /\ branch' = [c \in Roster |-> branch'[c]]
      /\ \A c \in Roster : branch'[c] = IF c = a THEN b ELSE branch[c]
  BY <1>3
<1>5. \A c \in Roster : BranchFine(c, branch'[c])
  BY <1>3, <1>4
<1>6. FoundFine'
  BY <1>1, <1>2, <1>4, <1>5, Zenon DEF FoundFine
<1> QED BY <1>6, EarlyKeeps DEF Undecided

LEMMA AskKeeps ==
  ASSUME AssessmentAssumption, AssessmentInv, NEW a \in Roster, Ask(a) PROVE AssessmentInv'
<1>1. a \in Agents /\ BranchFine(a, branch[a]) /\ request \in Requests
  BY RosterIs DEF AssessmentInv, FoundFine
<1>2. PICK answer \in IF request.provider THEN Answers ELSE {"raises"}, license \in Licenses :
        branch' = [branch EXCEPT ![a] = Wound(a, Heard(a, branch[a], answer, license))]
  BY Zenon DEF Ask
<1>3. branch[a].status = "working"
  BY DEF Ask
<1>4. BranchFine(a, Heard(a, branch[a], answer, license))
  <2>1. CASE answer \in Answers
    BY <1>1, <1>3, <2>1, HeardFine
  <2>2. CASE answer = "raises"
    <3>1. Heard(a, branch[a], answer, license) = Error(a)
      BY <2>2, Zenon DEF Heard
    <3> QED BY <1>1, <3>1, ErrorFine
  <2> QED BY <1>2, <2>1, <2>2
<1>5. BranchFine(a, Wound(a, Heard(a, branch[a], answer, license)))
  BY <1>4, WoundFine
<1>6. at = "specialists" /\ UNCHANGED <<request, at, findings, audit, report>>
  BY DEF Ask
<1> QED BY <1>2, <1>5, <1>6, OneBranchKeeps

LEMMA NormaliseKeeps ==
  ASSUME AssessmentAssumption, AssessmentInv, NEW a \in Roster, Normalise(a) PROVE AssessmentInv'
<1> DEFINE s == branch[a].found
           f == Tagged(a, "qoe", "high", "price-adjustment", Exposure)
           g == Tagged(a, "qoe", "low", "post-close-monitoring", 0)
<1>1. a \in Agents /\ s \in Seq(Finding)
  BY RosterIs DEF AssessmentInv, FoundFine, BranchFine
<1>2. f \in Finding /\ g \in Finding
  <2>1. Exposure \in Nat
    BY DEF AssessmentAssumption
  <2> QED BY <1>1, <2>1, TaggedIs DEF Categories, Severities, Tags
<1>3. PICK b \in {Settled(s \o <<f>>), Settled(s \o <<g>>), Settled(s), Error(a), Suppressed(a)} :
        branch' = [branch EXCEPT ![a] = b]
  BY Zenon DEF Normalise
<1> HIDE DEF s, f, g
<1>4. s \o <<f>> \in Seq(Finding) /\ s \o <<g>> \in Seq(Finding)
  BY <1>1, <1>2
<1>5. BranchFine(a, b)
  BY <1>1, <1>3, <1>4, SettledFine, ErrorFine, SuppressedFine
<1>6. at = "specialists" /\ UNCHANGED <<request, at, findings, audit, report>>
  BY DEF Normalise
<1> QED BY <1>3, <1>5, <1>6, OneBranchKeeps

LEMMA JoinKeeps ==
  ASSUME AssessmentAssumption, AssessmentInv, Join PROVE AssessmentInv'
<1> DEFINE n == Len(request.roster)
           ss == [i \in 1 .. n |-> branch[request.roster[i]].found]
<1>1. /\ UNCHANGED <<request, branch, audit, report>> /\ at = "specialists" /\ at' = "risk_score"
      /\ findings' = findings \o Merged
  BY DEF Join, Goto
<1>2. FoundFine /\ request.roster \in Seq(STRING)
  BY RosterIs DEF AssessmentInv
<1>3. n \in Nat /\ DOMAIN request.roster = 1 .. n
  BY <1>2
<1>4. \A i \in 1 .. n : request.roster[i] \in Roster
  BY <1>3 DEF Roster, ToSet
<1>5. ss \in [1 .. n -> Seq(Finding)]
  BY <1>2, <1>4 DEF FoundFine, BranchFine
<1>6. Merged = FlattenSeq(ss)
  BY <1>3, Zenon DEF Merged
<1>7. /\ FlattenSeq(ss) \in Seq(Finding)
      /\ \A i \in 1 .. n : ToSet(ss[i]) \subseteq ToSet(FlattenSeq(ss))
  <2> HIDE DEF ss, n
  <2> QED BY <1>3, <1>5, FlattenHas
<1>8. findings \in Seq(Finding)
  BY <1>2 DEF FoundFine
<1>9. findings' \in Seq(Finding) /\ ToSet(Merged) \subseteq ToSet(findings')
  BY <1>1, <1>6, <1>7, <1>8, JoinedHas
<1>10. Roster' = Roster
  BY <1>1 DEF Roster
<1>11. Kept'
  <2> SUFFICES ASSUME NEW a \in Roster PROVE ToSet(branch[a].found) \subseteq ToSet(findings')
    BY <1>1, <1>10, Zenon DEF Kept
  <2>1. PICK i \in 1 .. n : a = request.roster[i]
    BY <1>3 DEF Roster, ToSet
  <2>2. ss[i] = branch[a].found
    BY <2>1
  <2> QED BY <1>6, <1>7, <1>9, <2>2
<1>12. FoundFine'
  BY <1>1, <1>2, <1>9, <1>10, Zenon DEF FoundFine
<1> QED BY <1>1, <1>11, <1>12, EarlyKeeps DEF Undecided

LEMMA AssessmentKeeps ==
  ASSUME AssessmentAssumption, AssessmentInv, [Next]_aVars PROVE AssessmentInv'
<1>1. CASE UNCHANGED aVars
  BY <1>1, QuietKeeps DEF aVars
<1>2. CASE Intake
  <2>1. UNCHANGED <<request, findings, branch, decision, audit, report>>
    BY <1>2 DEF Intake
  <2> QED BY <1>2, <2>1, QuietKeeps
<1>3. CASE RiskScore
  <2>1. UNCHANGED <<request, findings, branch, decision, audit, report>>
    BY <1>3 DEF RiskScore
  <2> QED BY <1>3, <2>1, QuietKeeps
<1>4. CASE Remediation
  <2>1. UNCHANGED <<request, findings, branch, decision, audit, report>>
    BY <1>4 DEF Remediation
  <2> QED BY <1>4, <2>1, QuietKeeps
<1>5. CASE PmiPlanner
  <2>1. UNCHANGED <<request, findings, branch, decision, audit, report>>
    BY <1>5 DEF PmiPlanner
  <2> QED BY <1>5, <2>1, QuietKeeps
<1>6. CASE VdrGate \/ Route \/ Join \/ Policy \/ Coordinator
  BY <1>6, VdrGateKeeps, RouteKeeps, JoinKeeps, PolicyKeeps, CoordinatorKeeps
<1>7. CASE \E a \in Roster : Ask(a) \/ Normalise(a)
  BY <1>7, AskKeeps, NormaliseKeeps
<1> QED BY <1>1, <1>2, <1>3, <1>4, <1>5, <1>6, <1>7, Zenon DEF Next

LEMMA AssessmentAlways == MCSpec => []AssessmentInv
<1>0. AssessmentAssumption
  BY AssessmentAssumed
<1>1. MCInit => AssessmentInv
  BY <1>0, AssessmentStarts DEF MCInit
<1>2. AssessmentInv /\ [MCNext]_<<part, aVars, serviceVars>> => AssessmentInv'
  <2> SUFFICES ASSUME AssessmentInv, [MCNext]_<<part, aVars, serviceVars>> PROVE AssessmentInv'
    OBVIOUS
  <2>1. [Next]_aVars
    BY Zenon DEF MCNext
  <2> QED BY <1>0, <2>1, AssessmentKeeps
<1> QED BY <1>1, <1>2, PTL DEF MCSpec

LEMMA WholeReport == ASSUME AssessmentInv PROVE ReportIsWhole
<1> SUFFICES ASSUME Written PROVE ReportIsWhole
  BY DEF ReportIsWhole, ReportIsAudited, NothingLost
<1>1. ToldAll
  BY DEF AssessmentInv
<1>2. ReportIsAudited
  BY <1>1 DEF ReportIsAudited, ToldAll
<1>3. ASSUME NEW a \in Roster
      PROVE  /\ ToSet(branch[a].found) \subseteq ToSet(report.findings)
             /\ branch[a].status \in {"raised", "suppressed"} =>
                  \E i \in DOMAIN report.findings :
                    report.findings[i].agent = a /\ report.findings[i].severity # "low"
  <2>1. ToSet(branch[a].found) \subseteq ToSet(report.findings)
    BY <1>1 DEF ToldAll, Kept
  <2>2. ASSUME branch[a].status \in {"raised", "suppressed"}
        PROVE  \E f \in ToSet(branch[a].found) : f.agent = a /\ f.severity # "low"
    <3>1. BranchFine(a, branch[a])
      BY DEF AssessmentInv, FoundFine
    <3>2. \E i \in DOMAIN branch[a].found :
            branch[a].found[i].agent = a /\ branch[a].found[i].severity # "low"
      BY <2>2, <3>1 DEF BranchFine
    <3> QED BY <3>2 DEF ToSet
  <2> QED BY <2>1, <2>2 DEF ToSet
<1>4. NothingLost
  BY <1>3, Zenon DEF NothingLost, Has, IsMediumUp
<1> QED BY <1>2, <1>4 DEF ReportIsWhole

LEMMA VerdictIs ==
  ASSUME AssessmentAssumption, AssessmentInv PROVE VerdictHolds
<1>1. FailsClosed
  <2> SUFFICES ASSUME Written PROVE FailsClosed
    BY DEF FailsClosed
  <2>1. /\ report.findings = findings /\ Kept /\ decision.verdict = Verdict(findings)
        /\ report.verdict = IF MA THEN Advised(findings) ELSE Verdict(findings)
    BY DEF AssessmentInv, ToldAll
  <2>2. ASSUME ~request.scope, NEW a \in Roster, branch[a].status = "raised"
        PROVE  decision.verdict = "reject" /\ (~MA => report.verdict = "reject")
    <3>1. \E i \in DOMAIN branch[a].found : branch[a].found[i].severity = "critical"
      BY <2>2 DEF AssessmentInv, FoundFine, BranchFine
    <3>2. ToSet(branch[a].found) \subseteq ToSet(findings)
      BY <2>1 DEF Kept
    <3>3. Critical(findings)
      BY <3>1, <3>2 DEF Critical, ToSet
    <3>4. Ruled(findings) = "reject"
      BY <3>3, Zenon DEF Ruled, Has, IsCritical, Critical
    <3> QED BY <2>1, <2>2, <3>4 DEF Verdict
  <2>3. ASSUME request.scope, Stopped(findings)
        PROVE  decision.verdict = "walk" /\ report.verdict = "walk"
    <3>1. Recommended(findings) = "walk"
      BY <2>3, Zenon DEF Recommended, Has, IsStopper, Stopped
    <3> QED BY <2>1, <2>3, <3>1 DEF Verdict, Advised
  <2>4. request.scope /\ Has(report.findings, IsStopper) =>
          decision.verdict = "walk" /\ report.verdict = "walk"
    BY <2>1, <2>3, Zenon DEF Has, IsStopper, Stopped
  <2> QED BY <2>2, <2>4, Zenon DEF FailsClosed
<1>2. NeverSofter
  <2>1. findings \in Seq(Finding) /\ request \in Requests
    BY DEF AssessmentInv, FoundFine
  <2>2. Further \subseteq Finding
    <3>1. "X" \in Agents /\ Exposure \in Nat
      BY DEF Agents, AssessmentAssumption
    <3>2. \A c \in {"item"} \cup request.breakers, s \in {"low", "medium", "high", "critical"} :
            Plain("X", c, s) \in Finding
      <4>1. {"item"} \cup request.breakers \subseteq Categories
        BY <2>1 DEF Categories
      <4> QED BY <3>1, <4>1, PlainIs DEF Severities
    <3>3. /\ Tagged("X", "item", "low", "price-adjustment", Exposure) \in Finding
          /\ Tagged("X", "item", "low", "deal-stopper", 0) \in Finding
      BY <3>1, TaggedIs DEF Categories, Severities, Tags
    <3> QED BY <3>2, <3>3 DEF Further
  <2>3. \A f \in Further : Strictness(Verdict(Append(findings, f))) >= Strictness(Verdict(findings))
    BY <2>1, <2>2, Stricter
  <2> QED BY <2>3, Zenon DEF NeverSofter
<1> QED BY <1>1, <1>2 DEF VerdictHolds

(* graph.py, agents/base.py: a report tells the findings that were         *)
(* audited, in that order and all that the specialists found, and one that *)
(* raised or whose answer was withheld is visible in it.                   *)
THEOREM ReportStaysWhole == MCSpec => []ReportIsWhole
<1>1. AssessmentInv => ReportIsWhole
  BY WholeReport
<1> QED BY <1>1, AssessmentAlways, PTL

(* agents/policy.py, coordinator.py: a specialist that raised blocks a     *)
(* decision by the policy pack and a deal-stopper or a deal-breaker        *)
(* keyword one by a scope, and so says the report (but for the memo of an  *)
(* M&A run without a scope, whose recommendation is a placeholder); one    *)
(* more finding never softens a decision.                                  *)
THEOREM VerdictStaysStrict == MCSpec => []VerdictHolds
<1>1. AssessmentInv => VerdictHolds
  BY AssessmentAssumed, VerdictIs
<1> QED BY <1>1, AssessmentAlways, PTL
================================================================================
