---------------------------- MODULE RunManagerProofs ----------------------------
(***************************************************************************)
(* Theorems about a run in the HTTP server: its status settles, whoever    *)
(* resumes and cancels it, and its event streams deliver its log.          *)
(***************************************************************************)
EXTENDS RunManager, TLAPS

(* Only run() feeds the queue, with an event that is in the store.         *)
Feeding ==
  /\ tpc[1] = "appending" => feed < stored
  /\ \A t \in Tasks : tpc[t] = "appending" => t = 1

(* A run marked running has a task that is still going to say how it ends, *)
(* or a cancel request that will; a task not yet created is untouched.     *)
Owned ==
  /\ \A t \in Tasks : t > task \/ status = "none" => tpc[t] = "none" /\ ~asked[t]
  /\ status = "none" => task = 1
  /\ status = "running" => tpc[task] \in Running \cup {"cancelled"}
  /\ status = "running" /\ app = "up" =>
       \/ tpc[task] \in Running /\ ~asked[task]
       \/ \E h \in Cancellers : hpc[h] = "waiting" /\ hTask[h] = task

(* While nobody resumes, cancels or stops the run, its only task decides   *)
(* its status and ends the queue.                                          *)
Alone == app = "up" /\ Undisturbed
AloneSettles ==
  Alone =>
    /\ ~asked[1]
    /\ status = "none" <=> tpc[1] = "none"
    /\ status = "running" <=> tpc[1] \in Running
    /\ tpc[1] # "cancelled"
    /\ \A i \in DOMAIN queue :
         queue[i] = Done => i = Len(queue) /\ tpc[1] \in {"returned", "raised"}
    /\ \A c \in Clients : told[c] # "running"
    /\ \A c \in Clients : cpc[c] \in {"ending", "closed"} => tpc[1] \in {"returned", "raised"}

(* What is still to come from the queue, the events of agents apart, is    *)
(* newer than event x.                                                     *)
Numbering == tpc[1] = "appending" /\ feed \in Nat
Before(x) ==
  /\ x < stored
  /\ Numbering => x < feed
  /\ \A i \in DOMAIN queue : queue[i] \in Nat => x < queue[i]

QueueOrder ==
  \A i \in DOMAIN queue : queue[i] \in Nat =>
    /\ Numbering => queue[i] < feed
    /\ \A j \in DOMAIN queue : i < j /\ queue[j] \in Nat => queue[i] < queue[j]

(* A stream holds the item it is about to send.                            *)
Holds(c) ==
  IF cpc[c] = "sending"
  THEN /\ hand[c] = <<hand[c][1]>> /\ hand[c][1] \in Nat \cup {Unnumbered}
       /\ hand[c][1] \in Nat => Before(hand[c][1])
  ELSE hand[c] = IF cpc[c] = "ending" THEN <<Done>> ELSE << >>
HandOrder == \A c \in Clients : Holds(c)

(* On its first connection a client is sent the queue and nothing else.    *)
FirstConnection(c) ==
  /\ after[c] = NoId /\ cpc[c] \notin {"reading", "replaying"}
  /\ cpc[c] = "off" => lastId[c] = NoId
  /\ \A i \in DOMAIN seen[c] :
       /\ Before(seen[c][i])
       /\ cpc[c] = "sending" /\ hand[c][1] \in Nat => seen[c][i] < hand[c][1]
       /\ \A j \in DOMAIN seen[c] : i < j => seen[c][i] < seen[c][j]

OrderInv ==
  /\ TypeOK /\ Feeding /\ QueueOrder /\ HandOrder
  /\ \A c \in Clients : drops[c] = 0 => FirstConnection(c)

(* What client c has not received of the log, and where it is: in the      *)
(* queue, about to be queued, in the stream's hand or to be replayed.      *)
Range1(s) == {s[i] : i \in DOMAIN s}
Unseen(c) == (1 .. stored - 1) \ Received(c)
Coming == Range1(queue) \cup (IF tpc[1] = "appending" THEN {feed} ELSE {})
From(c) == IF cpc[c] = "off" THEN lastId[c] ELSE after[c]

(* A client that came back without an id, after a ping.                    *)
Forgot(c) == Heartbeats /\ drops[c] > 0 /\ From(c) = NoId

Follows(c) ==
  /\ \A x \in Received(c) : x < stored
  /\ lastId[c] \in Received(c) \cup {NoId, 0}
  /\ \A u \in Unseen(c) : lastId[c] < u
  /\ cpc[c] = "open" => after[c] = lastId[c]
  /\ cpc[c] = "reading" => after[c] \in Received(c) \cup {0} /\ \A u \in Unseen(c) : after[c] < u
  /\ cpc[c] \in {"off", "open"} /\ From(c) = NoId => Unseen(c) \subseteq Coming
  /\ cpc[c] = "replaying" =>
       /\ \A i, j \in DOMAIN todo[c] : i < j => todo[c][i] < todo[c][j]
       /\ \A x \in Range1(todo[c]) : x < stored
       /\ \A u \in Unseen(c) : \/ u \in Range1(todo[c])
                               \/ u \in Coming /\ \A x \in Range1(todo[c]) : x < u
  /\ cpc[c] \in {"live", "sending"} => Unseen(c) \subseteq Coming \cup Range1(hand[c])
  /\ cpc[c] \in {"ending", "closed"} => Unseen(c) = {}
  /\ ~Heartbeats /\ lastId[c] = NoId => cpc[c] \in {"off", "open"}

FollowInv == Alone => \A c \in Clients : ~Forgot(c) => Follows(c)

--------------------------------------------------------------------------------
(* Type correctness.                                                       *)

Items(n) == (0 .. n - 1) \cup {Done, Unnumbered}
Places   == {"off", "open", "reading", "replaying", "live", "sending", "ending", "closed"}

LEMMA SeqGrows ==
  ASSUME NEW S, NEW T, S \subseteq T, NEW s \in Seq(S)
  PROVE  s \in Seq(T)
OBVIOUS

LEMMA QueueGrows ==
  ASSUME TypeOK, NEW e \in Items(stored)
  PROVE  /\ Append(queue, e) \in Seq(Items(stored))
         /\ Len(Append(queue, e)) = Len(queue) + 1
         /\ \A i \in DOMAIN queue : Append(queue, e)[i] = queue[i]
         /\ Append(queue, e)[Len(queue) + 1] = e
         /\ \A i \in DOMAIN Append(queue, e) : i \in DOMAIN queue \/ i = Len(queue) + 1
  BY DEF TypeOK, Items

LEMMA QueueShrinks ==
  ASSUME TypeOK, queue # << >>
  PROVE  /\ Tail(queue) \in Seq(Items(stored))
         /\ Head(queue) \in Items(stored)
         /\ 1 \in DOMAIN queue /\ Head(queue) = queue[1]
         /\ Len(Tail(queue)) = Len(queue) - 1 /\ Len(queue) \in Nat \ {0}
         /\ \A i \in DOMAIN Tail(queue) : i + 1 \in DOMAIN queue /\ Tail(queue)[i] = queue[i + 1]
  BY DEF TypeOK, Items

LEMMA TaskTypes ==
  ASSUME TypeOK, Feeding, NEW t \in Tasks, TaskStep(t) \/ CatchCancel(t)
  PROVE  TypeOK' /\ Feeding'
<1> USE RunManagerAssumption
<1>0. UNCHANGED <<task, hpc, hTask, cpc, lastId, after, todo, hand, seen, told, drops, app>>
  BY DEF TaskStep, BeginTask, SkipTask, AppendEvent, PutEvent, LoadCheckpoint, ReturnTask,
         RaiseTask, CancelTask, CatchCancel, cancels, streams
<1>1. CASE BeginTask(t) \/ SkipTask(t) \/ LoadCheckpoint(t) \/ CatchCancel(t)
  <2>1. /\ UNCHANGED <<status, stored, agents, feed, saved, queue>>
        /\ tpc' = tpc \/ \E l \in {"running", "loading", "cancelled"} : TaskGoes(t, l)
        /\ asked' = asked \/ asked' = [asked EXCEPT ![t] = FALSE]
    BY <1>1 DEF BeginTask, SkipTask, LoadCheckpoint, CatchCancel
  <2>2. asked' \in [Tasks -> BOOLEAN]
    BY <2>1 DEF TypeOK
  <2>3. tpc' \in [Tasks -> Running \cup Ended \cup {"none"}]
    BY <2>1 DEF TypeOK, TaskGoes, Running, Ended
  <2>4. \A e \in Tasks : tpc'[e] = "appending" => tpc[e] = "appending"
    BY <2>1 DEF TypeOK, TaskGoes
  <2>5. Feeding'
    BY <2>1, <2>4, RunManagerAssumption DEF Feeding, Tasks
  <2> QED BY <1>0, <2>1, <2>2, <2>3, <2>5 DEF TypeOK
<1>2. CASE AppendEvent(t)
  <2>1. /\ UNCHANGED <<status, asked, saved, queue>>
        /\ \/ /\ stored' = stored + 1 /\ stored < MaxEvents /\ agents' = agents
              /\ feed' = IF t = 1 THEN stored ELSE feed
           \/ /\ agents' = agents + 1 /\ agents < MaxAgent /\ stored' = stored
              /\ feed' = IF t = 1 THEN Unnumbered ELSE feed
        /\ tpc' = [tpc EXCEPT ![t] = IF t = 1 THEN "appending" ELSE "running"]
    BY <1>2 DEF AppendEvent, TaskGoes
  <2>2. queue' \in Seq(Items(stored'))
    <3>1. Items(stored) \subseteq Items(stored')
      BY <2>1 DEF TypeOK, Items
    <3>2. queue \in Seq(Items(stored))
      BY DEF TypeOK, Items
    <3> QED BY <2>1, <3>1, <3>2, SeqGrows
  <2>3. /\ stored' \in 0 .. MaxEvents /\ agents' \in 0 .. MaxAgent
        /\ feed' \in (0 .. MaxEvents) \cup {Unnumbered} /\ Feeding'
    BY <2>1 DEF TypeOK, Feeding, Tasks, Unnumbered
  <2> QED BY <1>0, <2>1, <2>2, <2>3 DEF TypeOK, Running, Items
<1>3. CASE PutEvent(t)
  <2>1. /\ UNCHANGED <<status, asked, stored, agents, feed, saved>> /\ tpc[t] = "appending"
        /\ queue' = Append(queue, feed) /\ tpc' = [tpc EXCEPT ![t] = "running"]
    BY <1>3 DEF PutEvent, Broadcast, TaskGoes
  <2>2. feed \in Items(stored)
    BY <2>1 DEF TypeOK, Feeding, Items, Unnumbered
  <2>3. queue' \in Seq(Items(stored'))
    BY <2>1, <2>2, QueueGrows
  <2> QED BY <1>0, <2>1, <2>3 DEF TypeOK, Feeding, Running, Items
<1>4. CASE ReturnTask(t) \/ RaiseTask(t) \/ CancelTask(t)
  <2>1. /\ UNCHANGED <<asked, stored, agents, feed>> /\ queue' = Append(queue, Done)
        /\ saved' \in BOOLEAN /\ status' \in {status, "completed", "failed"}
        /\ \E l \in Ended : tpc' = [tpc EXCEPT ![t] = l]
    BY <1>4 DEF ReturnTask, RaiseTask, CancelTask, Signal, TaskGoes, Ended, OnError, TypeOK
  <2>2. queue' \in Seq(Items(stored'))
    <3>1. Done \in Items(stored)
      BY DEF Items
    <3> QED BY <2>1, <3>1, QueueGrows
  <2> QED BY <1>0, <2>1, <2>2 DEF TypeOK, Feeding, Ended, Final, Items
<1> QED BY <1>1, <1>2, <1>3, <1>4 DEF TaskStep

LEMMA ControlTypes ==
  ASSUME TypeOK, Feeding,
         \/ StartRun \/ ResumeRun \/ Stop \/ Close
         \/ \E h \in Cancellers : CancelRun(h) \/ CancelStep(h)
  PROVE  TypeOK' /\ Feeding'
<1>1. CASE StartRun \/ ResumeRun
  <2>1. /\ UNCHANGED <<asked, stored, agents, feed, saved, queue, cancels, streams, app>>
        /\ status' = "running" /\ task' \in Tasks
        /\ \E t \in Tasks : tpc' = [tpc EXCEPT ![t] = "created"]
    BY <1>1, RunManagerAssumption DEF StartRun, ResumeRun, TaskGoes, TypeOK, Tasks
  <2>2. tpc' \in [Tasks -> Running \cup Ended \cup {"none"}] /\ Feeding'
    BY <2>1 DEF TypeOK, Feeding, Running
  <2> QED BY <2>1, <2>2 DEF TypeOK, cancels, streams
<1>2. CASE Stop
  <2>1. /\ UNCHANGED <<status, task, tpc, stored, agents, feed, saved, queue, cancels, streams>>
        /\ app' = "stopping" /\ asked' = [asked EXCEPT ![task] = @ \/ tpc[task] \in Running]
    BY <1>2 DEF Stop
  <2>2. asked' \in [Tasks -> BOOLEAN]
    BY <2>1 DEF TypeOK
  <2> QED BY <2>1, <2>2 DEF TypeOK, Feeding, cancels, streams
<1>3. CASE Close
  BY <1>3 DEF Close, TypeOK, Feeding, tasks, cancels, streams
<1>4. ASSUME NEW h \in Cancellers, CancelRun(h) \/ CancelStep(h) PROVE TypeOK' /\ Feeding'
  <2>1. CASE CancelRun(h)
    <3>1. /\ UNCHANGED <<status, task, tpc, stored, agents, feed, saved, queue, streams, app>>
          /\ asked' = [asked EXCEPT ![task] = tpc[task] \in Running]
          /\ hTask' = [hTask EXCEPT ![h] = task] /\ hpc' = [hpc EXCEPT ![h] = "waiting"]
      BY <2>1 DEF CancelRun
    <3>2. asked' \in [Tasks -> BOOLEAN]
      BY <3>1 DEF TypeOK
    <3> QED BY <3>1, <3>2 DEF TypeOK, Feeding, streams
  <2>2. CASE CancelStep(h)
    <3>1. /\ UNCHANGED <<task, tpc, asked, stored, agents, feed, saved, queue, hTask, streams, app>>
          /\ status' \in {status, "cancelled"} /\ hpc' = [hpc EXCEPT ![h] = "answered"]
      BY <2>2 DEF CancelStep, CancelFails, CancelReturns, tasks
    <3>2. hpc' \in [Cancellers -> {"idle", "waiting", "answered"}]
      BY <3>1 DEF TypeOK
    <3>3. status' \in Final \cup {"none", "running"}
      BY <3>1 DEF TypeOK, Final
    <3> QED BY <3>1, <3>2, <3>3 DEF TypeOK, Feeding, streams
  <2> QED BY <1>4, <2>1, <2>2
<1> QED BY <1>1, <1>2, <1>3, <1>4

(* The fields of a stream's record that most of its steps leave alone.     *)
LEMMA StreamTypes ==
  ASSUME TypeOK, Feeding, HandOrder, NEW c \in Clients,
         Connect(c) \/ StreamStep(c) \/ Ping(c) \/ Drop(c)
  PROVE  TypeOK' /\ Feeding'
<1>0. UNCHANGED <<status, tasks, stored, agents, feed, saved, cancels, app>>
  BY DEF Connect, StreamStep, SendConfig, ReadStore, Replay, GoLive, TakeEvent, SendEvent,
         SendDone, Ping, Drop
<1>f. Feeding'
  BY <1>0 DEF Feeding, tasks
<1> SUFFICES
      /\ queue' \in Seq(Items(stored))
      /\ cpc' \in [Clients -> Places]
      /\ lastId' \in [Clients -> Nat \cup {NoId}] /\ after' \in [Clients -> Nat \cup {NoId}]
      /\ todo' \in [Clients -> Seq(Nat)]
      /\ hand' \in [Clients -> Seq(Nat \cup {Done, Unnumbered})]
      /\ seen' \in [Clients -> Seq(Nat)]
      /\ told' \in [Clients -> Final \cup {"none", "running"}]
      /\ drops' \in [Clients -> 0 .. MaxDrops]
  BY <1>0, <1>f DEF TypeOK, tasks, cancels, Items, Places
<1>q. queue' = queue => queue' \in Seq(Items(stored))
  BY DEF TypeOK, Items
<1>p. cpc \in [Clients -> Places] /\ \A l \in Places : StreamGoes(c, l) => cpc' \in [Clients -> Places]
  BY DEF TypeOK, Places, StreamGoes
<1>t. /\ cpc \in [Clients -> Places] /\ todo \in [Clients -> Seq(Nat)]
      /\ lastId \in [Clients -> Nat \cup {NoId}] /\ after \in [Clients -> Nat \cup {NoId}]
      /\ hand \in [Clients -> Seq(Nat \cup {Done, Unnumbered})] /\ seen \in [Clients -> Seq(Nat)]
      /\ told \in [Clients -> Final \cup {"none", "running"}]
      /\ drops \in [Clients -> 0 .. MaxDrops]
  BY DEF TypeOK, Places
<1>1. CASE Connect(c) \/ SendConfig(c) \/ GoLive(c) \/ Ping(c)
  <2>1. /\ UNCHANGED <<queue, todo, hand, seen, told, drops>>
        /\ after' = after \/ after' = [after EXCEPT ![c] = lastId[c]]
        /\ lastId' = lastId \/ \E i \in {0, NoId} : lastId' = [lastId EXCEPT ![c] = i]
        /\ cpc' = cpc \/ \E l \in {"open", "reading", "live"} : StreamGoes(c, l)
    BY <1>1 DEF Connect, SendConfig, GoLive, Ping
  <2>2. cpc' \in [Clients -> Places]
    BY <1>p, <2>1 DEF Places
  <2>3. lastId' \in [Clients -> Nat \cup {NoId}]
    <3>1. lastId \in [Clients -> Nat \cup {NoId}]
      BY DEF TypeOK
    <3> QED BY <2>1, <3>1
  <2>4. after' \in [Clients -> Nat \cup {NoId}]
    <3>1. lastId[c] \in Nat \cup {NoId} /\ after \in [Clients -> Nat \cup {NoId}]
      BY DEF TypeOK
    <3> QED BY <2>1, <3>1
  <2> QED BY <1>q, <2>1, <2>2, <2>3, <2>4 DEF TypeOK
<1>2. CASE ReadStore(c)
  <2>1. Missed(c) \in Seq(Nat)
    <3>1. stored \in Nat /\ after[c] \in Nat \cup {-1}
      BY RunManagerAssumption DEF TypeOK, NoId
    <3>2. CASE stored - 1 - after[c] \in Nat
      BY <3>1, <3>2 DEF Missed
    <3>3. CASE stored - 1 - after[c] \notin Nat
      <4>1. 1 .. stored - 1 - after[c] = 1 .. 0
        BY <3>1, <3>3
      <4>2. Missed(c) = [i \in 1 .. 0 |-> after[c] + i]
        BY <4>1 DEF Missed
      <4> QED BY <4>2
    <3> QED BY <3>2, <3>3
  <2> QED BY <1>p, <1>q, <1>2, <2>1 DEF ReadStore, TypeOK, Places
<1>3. CASE Replay(c)
  <2>1. todo[c] \in Seq(Nat) /\ todo[c] # << >> /\ seen[c] \in Seq(Nat)
    BY <1>3 DEF Replay, TypeOK
  <2>2. /\ Head(todo[c]) \in Nat /\ Tail(todo[c]) \in Seq(Nat)
        /\ Append(seen[c], Head(todo[c])) \in Seq(Nat)
    BY <2>1
  <2>3. /\ UNCHANGED <<queue, cpc, after, hand, told, drops>>
        /\ lastId' = [lastId EXCEPT ![c] = Head(todo[c])]
        /\ seen' = [seen EXCEPT ![c] = Append(seen[c], Head(todo[c]))]
        /\ todo' = [todo EXCEPT ![c] = Tail(todo[c])]
    BY <1>3, <2>2 DEF Replay, Receive, Unnumbered
  <2> QED BY <1>q, <1>t, <2>2, <2>3
<1>4. CASE TakeEvent(c)
  <2>1. Tail(queue) \in Seq(Items(stored)) /\ Head(queue) \in Items(stored)
    BY <1>4, QueueShrinks DEF TakeEvent
  <2>2. <<Head(queue)>> \in Seq(Nat \cup {Done, Unnumbered})
    <3>1. Head(queue) \in Nat \cup {Done, Unnumbered}
      BY <2>1, RunManagerAssumption DEF Items, TypeOK
    <3> QED BY <3>1
  <2>3. cpc' \in [Clients -> Places]
    BY <1>p, <1>4 DEF TakeEvent, Places
  <2> QED BY <1>4, <2>1, <2>2, <2>3 DEF TakeEvent, TypeOK
<1>5. CASE SendEvent(c)
  <2>1. /\ seen[c] \in Seq(Nat) /\ Head(hand[c]) \in Nat \cup {Unnumbered}
    BY <1>5 DEF SendEvent, TypeOK, HandOrder, Holds
  <2>2. Head(hand[c]) \in Nat => Append(seen[c], Head(hand[c])) \in Seq(Nat)
    BY <2>1
  <2>3. seen' \in [Clients -> Seq(Nat)] /\ lastId' \in [Clients -> Nat \cup {NoId}]
    <3>1. CASE Head(hand[c]) \in Nat
      <4>1. /\ lastId' = [lastId EXCEPT ![c] = Head(hand[c])]
            /\ seen' = [seen EXCEPT ![c] = Append(seen[c], Head(hand[c]))]
        BY <1>5, <3>1 DEF SendEvent, Receive, Unnumbered
      <4> QED BY <1>t, <2>2, <3>1, <4>1
    <3>2. CASE Head(hand[c]) = Unnumbered
      <4>1. lastId' = [lastId EXCEPT ![c] = 0] /\ seen' = seen
        BY <1>5, <3>2 DEF SendEvent, Receive
      <4> QED BY <1>t, <4>1
    <3> QED BY <2>1, <3>1, <3>2
  <2>4. cpc' \in [Clients -> Places] /\ hand' \in [Clients -> Seq(Nat \cup {Done, Unnumbered})]
    BY <1>p, <1>5 DEF SendEvent, Places, TypeOK
  <2> QED BY <1>q, <1>5, <2>3, <2>4 DEF SendEvent, TypeOK
<1>6. CASE SendDone(c)
  <2>1. cpc' \in [Clients -> Places] /\ hand' \in [Clients -> Seq(Nat \cup {Done, Unnumbered})]
    BY <1>p, <1>6 DEF SendDone, Places, TypeOK
  <2> QED BY <1>q, <1>6, <2>1 DEF SendDone, TypeOK
<1>7. CASE Drop(c)
  <2>1. drops[c] + 1 \in 0 .. MaxDrops
    BY <1>7, RunManagerAssumption DEF Drop, TypeOK
  <2>2. /\ UNCHANGED <<queue, lastId, after, seen, told>>
        /\ drops' = [drops EXCEPT ![c] = drops[c] + 1] /\ cpc' \in [Clients -> Places]
        /\ todo' = [todo EXCEPT ![c] = << >>] /\ hand' = [hand EXCEPT ![c] = << >>]
    BY <1>p, <1>7 DEF Drop, Places
  <2>3. << >> \in Seq(Nat) /\ << >> \in Seq(Nat \cup {Done, Unnumbered})
    OBVIOUS
  <2> QED BY <1>q, <1>t, <2>1, <2>2, <2>3
<1> QED BY <1>1, <1>2, <1>3, <1>4, <1>5, <1>6, <1>7 DEF StreamStep

--------------------------------------------------------------------------------
(* How a run ends.                                                         *)

LEMMA OwnedTask ==
  ASSUME TypeOK, Owned, NEW t \in Tasks, TaskStep(t) \/ CatchCancel(t)
  PROVE  Owned'
<1>0. /\ UNCHANGED <<task, hpc, hTask, app>> /\ tpc[t] # "none" /\ t <= task
      /\ task \in Tasks /\ status # "none"
  <2>1. /\ UNCHANGED <<task, hpc, hTask, app>> /\ tpc[t] # "none"
    BY DEF TaskStep, BeginTask, SkipTask, AppendEvent, PutEvent, LoadCheckpoint, ReturnTask,
           RaiseTask, CancelTask, CatchCancel, cancels
  <2> QED BY <2>1 DEF Owned, TypeOK, Tasks
<1>1. CASE TaskStep(t) /\ status' = status
  <2>1. /\ asked' = asked
        /\ \A e \in Tasks : e # t => tpc'[e] = tpc[e]
        /\ \/ tpc'[t] \in Running
           \/ asked[t] /\ tpc'[t] = "cancelled"
           \/ tpc'[t] \in {"returned", "raised"} /\ status \in {"completed", "failed"}
    BY <1>1 DEF TaskStep, BeginTask, SkipTask, AppendEvent, PutEvent, LoadCheckpoint,
                ReturnTask, RaiseTask, CancelTask, TaskGoes, Running, TypeOK, OnError
  <2> QED BY <1>0, <1>1, <2>1 DEF Owned, TypeOK, Tasks
<1>2. CASE TaskStep(t) /\ status' # status
  <2>1. /\ status' \in {"completed", "failed"} /\ asked' = asked
        /\ \A e \in Tasks : e # t => tpc'[e] = tpc[e]
    BY <1>2 DEF TaskStep, BeginTask, SkipTask, AppendEvent, PutEvent, LoadCheckpoint,
                ReturnTask, RaiseTask, CancelTask, TaskGoes, TypeOK, OnError
  <2> QED BY <1>0, <2>1 DEF Owned, TypeOK, Tasks
<1>3. CASE CatchCancel(t)
  <2>1. /\ UNCHANGED <<status, tpc>> /\ asked' = [asked EXCEPT ![t] = FALSE]
    BY <1>3 DEF CatchCancel
  <2> QED BY <1>0, <2>1 DEF Owned, TypeOK, Tasks
<1> QED BY <1>1, <1>2, <1>3

LEMMA OwnedControl ==
  ASSUME TypeOK, Owned,
         \/ StartRun \/ ResumeRun \/ Stop \/ Close
         \/ \E h \in Cancellers : CancelRun(h) \/ CancelStep(h)
  PROVE  Owned'
<1>1. CASE StartRun
  BY <1>1 DEF StartRun, TaskGoes, Owned, TypeOK, Tasks, Running, cancels
<1>2. CASE ResumeRun
  <2>1. /\ task' = task + 1 /\ task + 1 \in Tasks /\ task \in Nat /\ status' = "running"
        /\ tpc' = [tpc EXCEPT ![task + 1] = "created"] /\ asked' = asked
    BY <1>2, RunManagerAssumption DEF ResumeRun, TaskGoes, TypeOK, Tasks
  <2>2. ~asked[task + 1]
    BY <2>1 DEF Owned
  <2>3. /\ \A t \in Tasks : t > task' => tpc'[t] = tpc[t]
        /\ tpc'[task'] = "created" /\ asked'[task'] = FALSE
    BY <2>1, <2>2 DEF TypeOK, Tasks
  <2> QED BY <2>1, <2>3 DEF Owned, Tasks, Running
<1>3. CASE Stop
  BY <1>3 DEF Stop, Owned, TypeOK, Tasks, cancels, Running
<1>4. CASE Close
  BY <1>4 DEF Close, Owned, TypeOK, tasks, cancels
<1>5. ASSUME NEW h \in Cancellers, CancelRun(h) PROVE Owned'
  <2>1. /\ UNCHANGED <<status, task, tpc, app>> /\ hpc' = [hpc EXCEPT ![h] = "waiting"]
        /\ hTask' = [hTask EXCEPT ![h] = task] /\ status # "none" /\ task \in Tasks
        /\ \A t \in Tasks : t # task => asked'[t] = asked[t]
    BY <1>5 DEF CancelRun, TypeOK
  <2>2. hpc'[h] = "waiting" /\ hTask'[h] = task
    BY <2>1 DEF TypeOK
  <2> QED BY <2>1, <2>2 DEF Owned, Tasks
<1>6. ASSUME NEW h \in Cancellers, CancelStep(h) PROVE Owned'
  <2>1. CASE CancelReturns(h)
    BY <2>1 DEF CancelReturns, Owned, TypeOK, tasks
  <2>2. CASE CancelFails(h)
    <3>1. /\ UNCHANGED <<status, task, tpc, asked, app, hTask>>
          /\ tpc[hTask[h]] = "raised" /\ hpc' = [hpc EXCEPT ![h] = "answered"]
      BY <2>2 DEF CancelFails, tasks
    <3>2. ASSUME status = "running" PROVE hTask[h] # task
      BY <3>1, <3>2 DEF Owned, Running
    <3> QED BY <3>1, <3>2 DEF Owned, TypeOK
  <2> QED BY <1>6, <2>1, <2>2 DEF CancelStep
<1> QED BY <1>1, <1>2, <1>3, <1>4, <1>5, <1>6

(* A stream leaves the run alone, but for the items it takes off the queue.*)
LEMMA StreamFootprint ==
  ASSUME NEW c \in Clients, Connect(c) \/ StreamStep(c) \/ Ping(c) \/ Drop(c)
  PROVE  /\ UNCHANGED <<status, task, tpc, asked, stored, feed, saved, hpc, hTask, app>>
         /\ queue' = queue \/ (queue # << >> /\ queue' = Tail(queue))
BY DEF Connect, StreamStep, SendConfig, ReadStore, Replay, GoLive, TakeEvent, SendEvent,
       SendDone, Ping, Drop, tasks, cancels

LEMMA AloneBackwards ==
  ASSUME TypeOK, [Next]_vars, Alone'
  PROVE  Alone
<1> USE DEF Alone, Undisturbed, NobodyCancelled
<1>1. CASE UNCHANGED vars
  BY <1>1 DEF vars, tasks, cancels
<1>2. ASSUME NEW t \in Tasks, TaskStep(t) \/ CatchCancel(t) PROVE Alone
  BY <1>2 DEF TaskStep, BeginTask, SkipTask, AppendEvent, PutEvent, LoadCheckpoint, ReturnTask,
              RaiseTask, CancelTask, CatchCancel, cancels
<1>3. CASE StartRun \/ ResumeRun \/ Stop \/ Close
  <2>1. ~ResumeRun
    BY DEF ResumeRun, TypeOK, Tasks
  <2> QED BY <1>3, <2>1 DEF StartRun, Stop, Close, tasks, cancels
<1>4. ASSUME NEW h \in Cancellers, CancelRun(h) \/ CancelStep(h) PROVE Alone
  <2>1. hpc'[h] \in {"waiting", "answered"}
    BY <1>4 DEF CancelRun, CancelStep, CancelFails, CancelReturns, TypeOK
  <2> QED BY <2>1
<1>5. ASSUME NEW c \in Clients, Connect(c) \/ StreamStep(c) \/ Ping(c) \/ Drop(c)
      PROVE  Alone
  BY <1>5, StreamFootprint
<1> QED BY <1>1, <1>2, <1>3, <1>4, <1>5 DEF Next

LEMMA AloneTask ==
  ASSUME TypeOK, Owned, AloneSettles, Alone, NEW t \in Tasks, TaskStep(t) \/ CatchCancel(t)
  PROVE  AloneSettles'
<1>0. t = 1 /\ ~asked[1] /\ UNCHANGED <<cpc, told>>
  <2>1. tpc[t] # "none" /\ UNCHANGED <<cpc, told>>
    BY DEF TaskStep, BeginTask, SkipTask, AppendEvent, PutEvent, LoadCheckpoint, ReturnTask,
           RaiseTask, CancelTask, CatchCancel, streams
  <2>2. task = 1 /\ ~asked[1] /\ t \in Nat /\ t >= 1
    BY DEF Alone, Undisturbed, AloneSettles, Tasks
  <2> QED BY <2>1, <2>2 DEF Owned
<1>1. CASE BeginTask(t) \/ AppendEvent(t) \/ PutEvent(t) \/ LoadCheckpoint(t)
  <2>1. /\ UNCHANGED <<status, asked>> /\ tpc[1] \in Running /\ tpc'[1] \in Running
        /\ feed \in Nat \cup {Unnumbered} /\ Len(queue) \in Nat
    BY <1>0, <1>1 DEF BeginTask, AppendEvent, PutEvent, LoadCheckpoint, TaskGoes, TypeOK, Running
  <2>2. \A i \in DOMAIN queue : queue[i] # Done
    BY <1>0, <2>1 DEF AloneSettles, Running
  <2>3. \A i \in DOMAIN queue' : queue'[i] # Done
    <3>1. CASE queue' = queue
      BY <2>2, <3>1
    <3>2. CASE queue' = Append(queue, feed)
      <4>1. queue \in Seq(Items(stored)) /\ feed # Done
        BY <2>1 DEF TypeOK, Done, Unnumbered, Items
      <4> QED BY <2>1, <2>2, <3>2, <4>1
    <3> QED BY <1>1, <3>1, <3>2 DEF BeginTask, AppendEvent, PutEvent, LoadCheckpoint, Broadcast
  <2> QED BY <1>0, <2>1, <2>3 DEF AloneSettles, Running
<1>2. CASE ReturnTask(t) \/ RaiseTask(t)
  <2>1. /\ status' \in {"completed", "failed"} /\ asked' = asked /\ tpc[1] \in Running
        /\ tpc'[1] \in {"returned", "raised"} /\ queue' = Append(queue, Done)
    BY <1>0, <1>2 DEF ReturnTask, RaiseTask, OnError, TaskGoes, Signal, TypeOK, Running
  <2>2. \A i \in DOMAIN queue' : queue'[i] = Done => i = Len(queue')
    <3>1. \A i \in DOMAIN queue : queue[i] # Done
      BY <1>0, <2>1 DEF AloneSettles, Running
    <3>2. Done \in Items(stored)
      BY DEF Items
    <3> QED BY <2>1, <3>1, <3>2, QueueGrows
  <2> QED BY <1>0, <2>1, <2>2 DEF AloneSettles, Running
<1> QED BY <1>0, <1>1, <1>2 DEF TaskStep, SkipTask, CancelTask, CatchCancel

LEMMA AloneStream ==
  ASSUME TypeOK, AloneSettles, Alone, NEW c \in Clients,
         Connect(c) \/ StreamStep(c) \/ Ping(c) \/ Drop(c)
  PROVE  AloneSettles'
<1>0. UNCHANGED <<status, tpc, asked>>
  BY StreamFootprint
<1>1. \A i \in DOMAIN queue' :
        queue'[i] = Done => i = Len(queue') /\ tpc[1] \in {"returned", "raised"}
  <2>1. CASE queue' = queue
    BY <2>1 DEF AloneSettles
  <2>2. CASE queue # << >> /\ queue' = Tail(queue)
    BY <2>2, QueueShrinks DEF AloneSettles
  <2> QED BY <2>1, <2>2, StreamFootprint
<1>2. \A e \in Clients :
        /\ told'[e] # "running"
        /\ cpc'[e] \in {"ending", "closed"} => tpc[1] \in {"returned", "raised"}
  <2>1. CASE SendDone(c)
    <3>1. /\ told' = [told EXCEPT ![c] = status] /\ cpc' = [cpc EXCEPT ![c] = "closed"]
          /\ cpc[c] = "ending"
      BY <2>1 DEF SendDone, StreamGoes
    <3>2. tpc[1] \in {"returned", "raised"} /\ status # "running"
      BY <3>1 DEF AloneSettles, Running
    <3> QED BY <3>1, <3>2 DEF AloneSettles, TypeOK
  <2>2. CASE TakeEvent(c) /\ Head(queue) = Done
    <3>1. /\ told' = told /\ cpc' = [cpc EXCEPT ![c] = "ending"]
          /\ 1 \in DOMAIN queue /\ queue[1] = Done
      BY <2>2, QueueShrinks DEF TakeEvent, StreamGoes
    <3>2. tpc[1] \in {"returned", "raised"}
      BY <3>1 DEF AloneSettles
    <3> QED BY <3>1, <3>2 DEF AloneSettles, TypeOK
  <2>3. CASE ~SendDone(c) /\ ~(TakeEvent(c) /\ Head(queue) = Done)
    <3>1. told' = told
      BY <2>3 DEF Connect, StreamStep, SendConfig, ReadStore, Replay, GoLive, TakeEvent,
                  SendEvent, Ping, Drop
    <3>2. cpc' = cpc \/ \E l : l \notin {"ending", "closed"} /\ cpc' = [cpc EXCEPT ![c] = l]
      BY <2>3 DEF Connect, StreamStep, SendConfig, ReadStore, Replay, GoLive, TakeEvent,
                  SendEvent, Ping, Drop, StreamGoes
    <3> QED BY <3>1, <3>2 DEF AloneSettles, TypeOK
  <2> QED BY <2>1, <2>2, <2>3
<1> QED BY <1>0, <1>1, <1>2 DEF AloneSettles

LEMMA AloneStep ==
  ASSUME TypeOK, Owned, AloneSettles, [Next]_vars
  PROVE  AloneSettles'
<1> SUFFICES ASSUME Alone' PROVE AloneSettles'
  BY DEF AloneSettles
<1>0. Alone
  BY AloneBackwards
<1>1. CASE UNCHANGED vars
  BY <1>0, <1>1 DEF AloneSettles, vars, tasks, cancels, streams
<1>2. CASE StartRun
  <2>1. /\ status = "none" /\ status' = "running" /\ tpc'[1] = "created" /\ tpc[1] = "none"
        /\ UNCHANGED <<asked, queue, cpc, told>>
    BY <1>0, <1>2 DEF StartRun, TaskGoes, TypeOK, Tasks, streams, Owned, Alone, Undisturbed
  <2> QED BY <1>0, <2>1 DEF AloneSettles, Running
<1>3. CASE Close
  BY <1>0, <1>3 DEF Close, Alone
<1>4. ~ResumeRun /\ ~Stop
  BY <1>0 DEF ResumeRun, Stop, Alone, Undisturbed
<1>5. ASSUME NEW h \in Cancellers, CancelRun(h) \/ CancelStep(h) PROVE FALSE
  <2>1. hpc'[h] \in {"waiting", "answered"}
    BY <1>5 DEF CancelRun, CancelStep, CancelFails, CancelReturns, TypeOK
  <2> QED BY <2>1 DEF Alone, Undisturbed, NobodyCancelled
<1> QED BY <1>0, <1>1, <1>2, <1>3, <1>4, <1>5, AloneTask, AloneStream DEF Next

--------------------------------------------------------------------------------
(* The order in which a stream delivers the log.                           *)

(* Types, and the numbers of what is queued and in hand.                   *)
LEMMA Numbers ==
  ASSUME TypeOK
  PROVE  /\ stored \in Nat /\ feed \in Nat \cup {Unnumbered} /\ Len(queue) \in Nat
         /\ DOMAIN queue = 1 .. Len(queue)
         /\ \A i \in DOMAIN queue : queue[i] \in Items(stored)
         /\ \A i \in DOMAIN queue : queue[i] \in Nat => queue[i] < stored
         /\ \A c \in Clients : /\ seen[c] \in Seq(Nat)
                               /\ hand[c] \in Seq(Nat \cup {Done, Unnumbered})
                               /\ todo[c] \in Seq(Nat)
                               /\ lastId[c] \in Nat \cup {-1} /\ after[c] \in Nat \cup {-1}
<1>1. queue \in Seq(Items(stored)) /\ stored \in Nat /\ feed \in Nat \cup {Unnumbered}
  BY RunManagerAssumption DEF TypeOK, Items
<1>2. \A i \in DOMAIN queue : queue[i] \in Items(stored)
  BY <1>1
<1>3. \A i \in DOMAIN queue : queue[i] \in Nat => queue[i] < stored
  BY <1>1, <1>2 DEF Items, Done, Unnumbered
<1> QED BY <1>1, <1>2, <1>3 DEF TypeOK, NoId

(* The order only depends on what is queued, stored and fed.               *)
LEMMA OrderKept ==
  ASSUME TypeOK', Feeding', QueueOrder', OrderInv, UNCHANGED streams,
         \A x \in Nat : Before(x) => Before(x)'
  PROVE  OrderInv'
<1>0. UNCHANGED <<cpc, lastId, after, hand, seen, drops>> /\ TypeOK
  BY DEF streams, OrderInv
<1>1. HandOrder'
  <2> SUFFICES ASSUME NEW c \in Clients PROVE Holds(c)'
    BY DEF HandOrder
  <2>1. Holds(c)
    BY DEF HandOrder, OrderInv
  <2>2. hand[c][1] \in Nat /\ Before(hand[c][1]) => Before(hand[c][1])'
    BY <1>0 DEF Before
  <2> QED BY <1>0, <2>1, <2>2 DEF Holds
<1>2. ASSUME NEW c \in Clients, drops[c] = 0 PROVE FirstConnection(c)'
  <2>1. FirstConnection(c) /\ \A i \in DOMAIN seen[c] : seen[c][i] \in Nat
    BY <1>0, <1>2, Numbers DEF OrderInv
  <2>2. \A i \in DOMAIN seen[c] : Before(seen[c][i])'
    BY <1>0, <2>1 DEF FirstConnection, Before
  <2> QED BY <1>0, <2>1, <2>2 DEF FirstConnection, Before
<1> QED BY <1>0, <1>1, <1>2 DEF OrderInv

LEMMA OrderTask ==
  ASSUME OrderInv, NEW t \in Tasks, TaskStep(t) \/ CatchCancel(t)
  PROVE  OrderInv'
<1>0. /\ TypeOK /\ Feeding /\ TypeOK' /\ Feeding' /\ QueueOrder /\ UNCHANGED streams
      /\ tpc \in [Tasks -> Running \cup Ended \cup {"none"}]
  <2>1. TypeOK /\ Feeding /\ QueueOrder
    BY DEF OrderInv
  <2>2. UNCHANGED streams
    BY DEF TaskStep, BeginTask, SkipTask, AppendEvent, PutEvent, LoadCheckpoint, ReturnTask,
           RaiseTask, CancelTask, CatchCancel
  <2> QED BY <2>1, <2>2, TaskTypes DEF TypeOK
<1>g. ASSUME NEW l, l # "appending", TaskGoes(t, l) \/ tpc' = tpc
      PROVE  tpc'[1] = "appending" => tpc[1] = "appending"
  <2>1. 1 \in Tasks
    BY RunManagerAssumption DEF Tasks
  <2> QED BY <1>0, <1>g, <2>1 DEF TaskGoes
<1>1. CASE BeginTask(t) \/ SkipTask(t) \/ LoadCheckpoint(t) \/ CatchCancel(t)
  <2>1. UNCHANGED <<stored, feed, queue>> /\ (tpc'[1] = "appending" => tpc[1] = "appending")
    BY <1>g, <1>1 DEF BeginTask, SkipTask, LoadCheckpoint, CatchCancel
  <2> QED BY <1>0, <2>1, OrderKept DEF QueueOrder, Before, Numbering
<1>2. CASE AppendEvent(t)
  <2>0. 1 \in Tasks
    BY RunManagerAssumption DEF Tasks
  <2>1. /\ stored' \in {stored, stored + 1} /\ queue' = queue
        /\ Numbering' => feed' = stored \/ (Numbering /\ feed' = feed)
    BY <1>0, <1>2, <2>0 DEF AppendEvent, TaskGoes, Numbering, Unnumbered
  <2>2. QueueOrder'
    BY <1>0, <2>1, Numbers DEF QueueOrder
  <2>3. \A x \in Nat : Before(x) => Before(x)'
    BY <1>0, <2>1, Numbers DEF Before
  <2> QED BY <1>0, <2>2, <2>3, OrderKept
<1>3. CASE PutEvent(t)
  <2>1. /\ UNCHANGED <<stored, feed>> /\ tpc[1] = "appending" /\ tpc'[1] # "appending"
        /\ queue' = Append(queue, feed) /\ feed < stored
    BY <1>0, <1>3 DEF PutEvent, TaskGoes, Broadcast, Feeding
  <2>2. /\ feed \in Items(stored) /\ Len(queue) \in Nat
    BY <1>0, <2>1, Numbers DEF Items, Unnumbered
  <2>3. /\ \A i \in DOMAIN queue : i \in 1 .. Len(queue) /\ queue'[i] = queue[i]
        /\ \A i \in DOMAIN queue' :
             i \in DOMAIN queue \/ (i = Len(queue) + 1 /\ queue'[i] = feed)
    BY <1>0, <2>1, <2>2, QueueGrows, Numbers
  <2>4. QueueOrder'
    BY <1>0, <2>1, <2>2, <2>3 DEF QueueOrder, Numbering
  <2>5. \A x \in Nat : Before(x) => Before(x)'
    BY <2>1, <2>3 DEF Before, Numbering
  <2> QED BY <1>0, <2>4, <2>5, OrderKept
<1>4. CASE ReturnTask(t) \/ RaiseTask(t) \/ CancelTask(t)
  <2>1. /\ UNCHANGED <<stored, feed>> /\ (tpc'[1] = "appending" => tpc[1] = "appending")
        /\ queue' = Append(queue, Done)
    BY <1>g, <1>4 DEF ReturnTask, RaiseTask, CancelTask, Signal
  <2>2. /\ \A i \in DOMAIN queue : queue'[i] = queue[i]
        /\ \A i \in DOMAIN queue' : queue'[i] \in Nat => i \in DOMAIN queue
    BY <1>0, <2>1, QueueGrows DEF Items, Done
  <2> QED BY <1>0, <2>1, <2>2, OrderKept DEF QueueOrder, Before, Numbering
<1> QED BY <1>1, <1>2, <1>3, <1>4 DEF TaskStep

LEMMA OrderControl ==
  ASSUME OrderInv,
         \/ StartRun \/ ResumeRun \/ Stop \/ Close
         \/ \E h \in Cancellers : CancelRun(h) \/ CancelStep(h)
  PROVE  OrderInv'
<1>1. TypeOK /\ TypeOK' /\ Feeding'
  BY ControlTypes DEF OrderInv
<1>2. UNCHANGED <<streams, stored, feed, queue>>
  BY DEF StartRun, ResumeRun, Stop, Close, CancelRun, CancelStep, CancelFails, CancelReturns
<1>3. tpc'[1] = "appending" => tpc[1] = "appending"
  <2>1. tpc' = tpc \/ \E t : tpc' = [tpc EXCEPT ![t] = "created"]
    BY DEF StartRun, ResumeRun, Stop, Close, CancelRun, CancelStep, CancelFails,
           CancelReturns, TaskGoes, tasks
  <2>2. 1 \in Tasks
    BY RunManagerAssumption DEF Tasks
  <2> QED BY <1>1, <2>1, <2>2 DEF TypeOK
<1> QED BY <1>1, <1>2, <1>3, OrderKept DEF OrderInv, QueueOrder, Before, Numbering

(* Taking the head off the queue.                                          *)
LEMMA TakeOrder ==
  ASSUME TypeOK, QueueOrder, queue # << >>, queue' = Tail(queue), UNCHANGED <<stored, feed, tpc>>
  PROVE  /\ QueueOrder' /\ \A x \in Nat : Before(x) => Before(x)'
         /\ Head(queue) \in Items(stored)
         /\ Head(queue) \in Nat =>
              \E e \in Nat : /\ e = Head(queue) /\ Before(e)'
                            /\ \A x \in Nat : Before(x) => x < e
<1>1. /\ 1 \in DOMAIN queue /\ Head(queue) = queue[1] /\ Len(queue) \in Nat
      /\ \A i \in DOMAIN queue' : /\ i \in Nat /\ i > 0
                                  /\ i + 1 \in DOMAIN queue /\ queue'[i] = queue[i + 1]
      /\ DOMAIN queue = 1 .. Len(queue)
      /\ \A i \in DOMAIN queue : queue[i] \in Nat => queue[i] < stored
      /\ Head(queue) \in Items(stored)
  <2>1. queue' \in Seq(Items(stored))
    BY QueueShrinks
  <2>2. \A i \in DOMAIN queue' : i \in Nat /\ i > 0
    BY <2>1
  <2> QED BY <2>2, QueueShrinks, Numbers
<1>2. QueueOrder'
  BY <1>1 DEF QueueOrder, Numbering
<1>3. \A x \in Nat : Before(x) => Before(x)'
  BY <1>1 DEF Before, Numbering
<1>4. ASSUME NEW e \in Nat, e = Head(queue)
      PROVE  Before(e)' /\ \A x \in Nat : Before(x) => x < e
  <2>1. queue[1] = e /\ queue[1] \in Nat
    BY <1>1, <1>4
  <2>2. \A i \in DOMAIN queue' : queue'[i] \in Nat => e < queue'[i]
    BY <1>1, <2>1 DEF QueueOrder
  <2>3. e < stored /\ (Numbering => e < feed)
    BY <1>1, <2>1 DEF QueueOrder
  <2> QED BY <1>1, <2>1, <2>2, <2>3 DEF Before, Numbering
<1> QED BY <1>1, <1>2, <1>3, <1>4

LEMMA OrderStream ==
  ASSUME OrderInv, NEW c \in Clients, Connect(c) \/ StreamStep(c) \/ Ping(c) \/ Drop(c)
  PROVE  OrderInv'
<1>0. /\ TypeOK /\ TypeOK' /\ Feeding' /\ QueueOrder /\ HandOrder
      /\ UNCHANGED <<stored, feed, tpc>>
      /\ queue' = queue \/ (queue # << >> /\ queue' = Tail(queue))
  BY StreamTypes, StreamFootprint DEF OrderInv
<1>1. QueueOrder' /\ \A x \in Nat : Before(x) => Before(x)'
  <2>1. CASE queue' = queue
    BY <1>0, <2>1 DEF QueueOrder, Before, Numbering
  <2>2. CASE queue # << >> /\ queue' = Tail(queue)
    BY <1>0, <2>2, TakeOrder
  <2> QED BY <1>0, <2>1, <2>2
<1>2. /\ cpc \in [Clients -> Places]
      /\ drops \in [Clients -> Nat] /\ after \in [Clients -> Nat \cup {NoId}]
      /\ lastId \in [Clients -> Nat \cup {NoId}]
      /\ seen \in [Clients -> Seq(Nat)]
      /\ hand \in [Clients -> Seq(Nat \cup {Done, Unnumbered})]
      /\ \A e \in Clients : \A i \in DOMAIN seen[e] : seen[e][i] \in Nat
  <2>1. /\ seen \in [Clients -> Seq(Nat)]
        /\ hand \in [Clients -> Seq(Nat \cup {Done, Unnumbered})]
        /\ drops \in [Clients -> 0 .. MaxDrops] /\ MaxDrops \in Nat
    BY <1>0, RunManagerAssumption DEF TypeOK
  <2>2. drops \in [Clients -> Nat]
    BY <2>1
  <2>3. \A e \in Clients : \A i \in DOMAIN seen[e] : seen[e][i] \in Nat
    BY <2>1
  <2> QED BY <1>0, <2>1, <2>2, <2>3 DEF TypeOK, Places
(* The streams of the others.                                              *)
<1>3. ASSUME NEW e \in Clients, e # c
      PROVE  /\ Holds(e)'
             /\ drops'[e] = 0 => FirstConnection(e)'
  <2>1. /\ cpc'[e] = cpc[e] /\ drops'[e] = drops[e] /\ after'[e] = after[e]
        /\ seen'[e] = seen[e] /\ hand'[e] = hand[e] /\ lastId'[e] = lastId[e]
    BY <1>2, <1>3 DEF Connect, StreamStep, SendConfig, ReadStore, Replay, GoLive, TakeEvent,
                      SendEvent, SendDone, Ping, Drop, StreamGoes, Receive
  <2>2. Holds(e) /\ (hand[e][1] \in Nat /\ Before(hand[e][1]) => Before(hand[e][1])')
    BY <1>0, <1>1, <2>1 DEF HandOrder, Before
  <2>3. drops[e] = 0 => FirstConnection(e)
    BY DEF OrderInv
  <2>4. Holds(e)'
    BY <2>1, <2>2 DEF Holds
  <2>5. drops'[e] = 0 => FirstConnection(e)'
    BY <1>1, <1>2, <2>1, <2>3 DEF FirstConnection, Before
  <2> QED BY <2>4, <2>5
(* Its own.                                                                *)
<1>4. /\ Holds(c)'
      /\ drops'[c] = 0 => FirstConnection(c)'
  <2>0. drops[c] = 0 => FirstConnection(c)
    BY DEF OrderInv
  <2>1. CASE Connect(c) \/ SendConfig(c) \/ GoLive(c) \/ ReadStore(c) \/ Ping(c)
    <3>1. /\ UNCHANGED <<seen, hand, drops>> /\ cpc[c] \notin {"sending", "ending"}
          /\ cpc'[c] \notin {"sending", "ending"}
          /\ drops[c] = 0 => cpc'[c] \notin {"off", "reading", "replaying"}
      BY <1>2, <2>0, <2>1 DEF Connect, SendConfig, GoLive, ReadStore, Ping,
                              StreamGoes, FirstConnection, NoId
    <3>2. hand[c] = << >>
      BY <1>0, <3>1 DEF HandOrder, Holds
    <3>3. drops[c] = 0 => after'[c] = NoId
      BY <1>0, <1>2, <2>0, <2>1
      DEF Connect, SendConfig, GoLive, ReadStore, Ping, FirstConnection
    <3> QED BY <1>1, <1>2, <2>0, <3>1, <3>2, <3>3 DEF FirstConnection, Before, Holds
  <2>2. CASE Replay(c)
    <3>1. cpc[c] = "replaying" /\ UNCHANGED <<cpc, hand, drops>>
      BY <2>2 DEF Replay
    <3>2. Holds(c)
      BY <1>0 DEF HandOrder
    <3> QED BY <2>0, <3>1, <3>2 DEF Holds, FirstConnection
  <2>3. CASE TakeEvent(c)
    <3>1. /\ queue # << >> /\ queue' = Tail(queue)
          /\ UNCHANGED <<seen, drops, after>>
          /\ hand' = [hand EXCEPT ![c] = <<Head(queue)>>] /\ cpc[c] = "live"
          /\ cpc' = [cpc EXCEPT ![c] = IF Head(queue) = Done THEN "ending" ELSE "sending"]
      BY <2>3 DEF TakeEvent, StreamGoes
    <3>2. /\ Head(queue) \in Items(stored)
          /\ Head(queue) \in Nat =>
               \E e \in Nat : /\ e = Head(queue) /\ Before(e)'
                             /\ \A x \in Nat : Before(x) => x < e
      BY <1>0, <3>1, TakeOrder
    <3>3. /\ cpc'[c] = (IF Head(queue) = Done THEN "ending" ELSE "sending")
          /\ hand'[c] = <<Head(queue)>>
      BY <1>2, <3>1
    <3>4. hand'[c][1] = Head(queue)
      BY <3>3
    <3>5. Head(queue) = Done \/ Head(queue) \in Nat \cup {Unnumbered}
      BY <1>0, <3>2, Numbers DEF Items
    <3>6. Head(queue) \in Nat => Before(hand[c][1])'
      BY <3>2, <3>4 DEF Before
    <3>7. Holds(c)'
      BY <3>3, <3>4, <3>5, <3>6 DEF Holds
    <3>8. ASSUME drops'[c] = 0 PROVE FirstConnection(c)'
      <4>1. FirstConnection(c) /\ after'[c] = NoId /\ cpc'[c] \notin {"off", "reading", "replaying"}
        BY <1>2, <2>0, <3>1, <3>3, <3>8 DEF FirstConnection
      <4>2. \A i \in DOMAIN seen[c] : seen[c][i] \in Nat /\ Before(seen[c][i])
        BY <1>2, <4>1 DEF FirstConnection
      <4>3. \A i \in DOMAIN seen[c] : Before(seen[c][i])'
        BY <1>1, <3>1, <4>2 DEF Before
      <4>4. hand'[c][1] \in Nat => \A i \in DOMAIN seen[c] : seen[c][i] < hand'[c][1]
        BY <3>2, <3>4, <4>2
      <4>5. \A i, j \in DOMAIN seen[c] : i < j => seen[c][i] < seen[c][j]
        BY <4>1 DEF FirstConnection
      <4> QED BY <3>1, <4>1, <4>3, <4>4, <4>5 DEF FirstConnection, Before
    <3> QED BY <3>7, <3>8
  <2>4. CASE SendEvent(c)
    <3>1. /\ cpc[c] = "sending" /\ UNCHANGED <<drops, after, queue>> /\ Receive(c, Head(hand[c]))
          /\ hand' = [hand EXCEPT ![c] = << >>] /\ cpc' = [cpc EXCEPT ![c] = "live"]
      BY <2>4 DEF SendEvent, StreamGoes
    <3>2. /\ Head(hand[c]) = hand[c][1] /\ hand[c][1] \in Nat \cup {Unnumbered}
          /\ hand[c][1] \in Nat => Before(hand[c][1])
      BY <1>0, <3>1 DEF HandOrder, Holds
    <3>3. cpc'[c] = "live" /\ hand'[c] = << >>
      BY <1>2, <3>1
    <3>4. Holds(c)'
      BY <3>3 DEF Holds
    <3>5. ASSUME drops'[c] = 0 PROVE FirstConnection(c)'
      <4>1. FirstConnection(c) /\ after'[c] = NoId
        BY <1>2, <2>0, <3>1, <3>5 DEF FirstConnection
      <4>2. CASE hand[c][1] = Unnumbered
        <5>1. seen' = seen
          BY <3>1, <3>2, <4>2 DEF Receive
        <5> QED BY <1>1, <1>2, <3>3, <4>1, <5>1 DEF FirstConnection, Before
      <4>3. CASE hand[c][1] # Unnumbered
        <5>1. PICK e \in Nat : e = hand[c][1] /\ Before(e)
          BY <3>2, <4>3
        <5>2. seen'[c] = Append(seen[c], e) /\ Before(e)'
          BY <1>1, <1>2, <3>1, <3>2, <4>3, <5>1 DEF Receive
        <5>3. /\ \A i \in DOMAIN seen[c] : i \in 1 .. Len(seen[c]) /\ seen'[c][i] = seen[c][i]
              /\ \A i \in DOMAIN seen'[c] :
                   i \in DOMAIN seen[c] \/ (i = Len(seen[c]) + 1 /\ seen'[c][i] = e)
              /\ Len(seen[c]) \in Nat
          BY <1>2, <5>1, <5>2
        <5>4. \A i \in DOMAIN seen'[c] : Before(seen[c][i])'
          BY <1>1, <1>2, <4>1, <5>2, <5>3 DEF FirstConnection, Before
        <5>5. \A i, j \in DOMAIN seen'[c] : i < j => seen'[c][i] < seen'[c][j]
          <6>1. \A i \in DOMAIN seen[c] : seen[c][i] < e
            BY <3>1, <4>1, <5>1 DEF FirstConnection
          <6>2. \A i, j \in DOMAIN seen[c] : i < j => seen[c][i] < seen[c][j]
            BY <4>1 DEF FirstConnection
          <6>3. \A i \in 1 .. Len(seen[c]) : ~(Len(seen[c]) + 1 < i) /\ i \in Nat
            BY <5>3
          <6> QED BY <5>3, <6>1, <6>2, <6>3
        <5> QED BY <3>3, <4>1, <5>4, <5>5 DEF FirstConnection, Before
      <4> QED BY <4>2, <4>3
    <3> QED BY <3>4, <3>5
  <2>5. CASE Drop(c)
    <3>1. drops'[c] # 0 /\ cpc'[c] = "off" /\ hand'[c] = << >>
      BY <1>2, <2>5 DEF Drop, StreamGoes
    <3> QED BY <3>1 DEF Holds
  <2>6. CASE SendDone(c)
    <3>1. /\ UNCHANGED <<seen, drops, after>> /\ cpc[c] = "ending"
          /\ cpc'[c] = "closed" /\ hand'[c] = << >>
      BY <1>2, <2>6 DEF SendDone, StreamGoes
    <3>2. Holds(c)'
      BY <3>1 DEF Holds
    <3>3. drops'[c] = 0 => FirstConnection(c)'
      BY <1>1, <1>2, <2>0, <3>1 DEF FirstConnection, Before
    <3> QED BY <3>2, <3>3
  <2> QED BY <2>1, <2>2, <2>3, <2>4, <2>5, <2>6 DEF StreamStep
<1>5. HandOrder'
  BY <1>3, <1>4 DEF HandOrder
<1> QED BY <1>0, <1>1, <1>3, <1>4, <1>5 DEF OrderInv

--------------------------------------------------------------------------------
(* The invariants hold of every run in the server.                         *)

RunInv == OrderInv /\ Owned /\ AloneSettles

LEMMA RunInit == Init => RunInv
<1> SUFFICES ASSUME Init PROVE RunInv
  OBVIOUS
<1> USE RunManagerAssumption
<1>1. TypeOK
  <2>1. /\ << >> \in Seq(Nat) /\ << >> \in Seq((0 .. stored - 1) \cup {Done, Unnumbered})
        /\ << >> \in Seq(Nat \cup {Done, Unnumbered})
    OBVIOUS
  <2>2. /\ task \in Tasks /\ tpc \in [Tasks -> Running \cup Ended \cup {"none"}]
        /\ stored \in 0 .. MaxEvents /\ agents \in 0 .. MaxAgent
        /\ feed \in (0 .. MaxEvents) \cup {Unnumbered}
        /\ drops \in [Clients -> 0 .. MaxDrops]
    BY DEF Init, Tasks
  <2>3. hpc \in [Cancellers -> {"idle", "waiting", "answered"}] /\ hTask \in [Cancellers -> Tasks]
    BY DEF Init, Tasks
  <2> QED BY <2>1, <2>2, <2>3 DEF Init, TypeOK
<1>2. Feeding /\ QueueOrder /\ HandOrder /\ \A c \in Clients : FirstConnection(c)
  BY DEF Init, Feeding, QueueOrder, HandOrder, Holds, FirstConnection, Tasks
<1>3. Owned
  BY DEF Init, Owned
<1>4. AloneSettles
  BY DEF Init, AloneSettles, Running, Tasks
<1> QED BY <1>1, <1>2, <1>3, <1>4 DEF RunInv, OrderInv

LEMMA RunStep == RunInv /\ [Next]_vars => RunInv'
<1> SUFFICES ASSUME RunInv, [Next]_vars PROVE RunInv'
  OBVIOUS
<1>0. OrderInv /\ TypeOK /\ Feeding /\ Owned /\ AloneSettles
  BY DEF RunInv, OrderInv
<1>1. AloneSettles'
  BY <1>0, AloneStep
<1>2. OrderInv' /\ Owned'
  <2>1. CASE UNCHANGED vars
    BY <1>0, <2>1 DEF vars, tasks, cancels, streams, OrderInv, TypeOK, Feeding, QueueOrder,
                      HandOrder, Holds, FirstConnection, Before, Numbering, Owned
  <2>2. ASSUME NEW c \in Clients, Connect(c) \/ StreamStep(c) \/ Ping(c) \/ Drop(c)
        PROVE  OrderInv' /\ Owned'
    BY <1>0, <2>2, OrderStream, StreamFootprint DEF Owned
  <2> QED BY <1>0, <2>1, <2>2, OrderTask, OrderControl, OwnedTask, OwnedControl DEF Next
<1> QED BY <1>1, <1>2 DEF RunInv

THEOREM RunInvariant == Spec => []RunInv
BY RunInit, RunStep, PTL DEF Spec

(* Type correctness of the server's record of a run, for any number of     *)
(* tasks, cancel requests and stream clients.                              *)
THEOREM ServerTypes == Spec => []TypeOK
<1>1. RunInv => TypeOK
  BY DEF RunInv, OrderInv
<1> QED BY <1>1, RunInvariant, PTL

(* Whatever order tasks, resumes and cancel requests end in, a run nobody  *)
(* works on is not reported as running, and no client of an undisturbed    *)
(* run is told so: lifecycle.py's finally clause signals the end only      *)
(* after the status is set.                                                *)
THEOREM RunEndsFinal == Spec => []EndIsFinal
<1>1. RunInv => EndIsFinal
  <2> SUFFICES ASSUME RunInv PROVE EndIsFinal
    OBVIOUS
  <2>1. DoneIsFinal
    BY DEF RunInv, AloneSettles, Alone, DoneIsFinal
  <2>2. NoZombie
    <3>1. task \in Tasks
      BY DEF RunInv, OrderInv, TypeOK
    <3> QED BY <3>1 DEF RunInv, Owned, NoZombie, NobodyRunning
  <2> QED BY <2>1, <2>2 DEF EndIsFinal
<1> QED BY <1>1, RunInvariant, PTL

(* However many clients share the queue of a run, resumed or cancelled,    *)
(* each is sent events in the order of the log, and none twice, until its  *)
(* connection is lost.                                                     *)
THEOREM StreamInOrder == Spec => []InOrder
<1>1. RunInv => InOrder
  BY DEF RunInv, OrderInv, FirstConnection, InOrder
<1> QED BY <1>1, RunInvariant, PTL

--------------------------------------------------------------------------------
(* What a client has received when its stream ends.                        *)

(* The hypothesis of the theorem.  Several clients divide the queue among  *)
(* themselves; and a client that a ping has made forget its id misses what *)
(* was on the wire, which no later reconnection replays.                   *)
OneStream ==
  /\ \A c, e \in Clients : c = e
  /\ Heartbeats => MaxDrops <= 1

(* The run goes on, and what it adds to the log is on its way.             *)
LEMMA FollowsRun ==
  ASSUME TypeOK, NEW c \in Clients, Follows(c), UNCHANGED streams, Coming \subseteq Coming',
         \/ stored' = stored
         \/ stored' = stored + 1 /\ stored \in Coming' /\ cpc[c] \notin {"ending", "closed"}
  PROVE  Follows(c)'
<1>1. /\ UNCHANGED <<cpc, lastId, after, todo, hand, seen>> /\ stored \in Nat
      /\ lastId[c] \in Nat \cup {-1} /\ after[c] \in Nat \cup {-1}
  BY Numbers DEF streams
<1>2. /\ Received(c)' = Received(c) /\ Range1(todo[c])' = Range1(todo[c])
      /\ Range1(hand[c])' = Range1(hand[c]) /\ From(c)' = From(c)
  BY <1>1 DEF Received, Range1, From
<1>3. CASE stored' = stored
  <2>1. Unseen(c)' = Unseen(c)
    BY <1>2, <1>3 DEF Unseen
  <2> QED BY <1>1, <1>2, <1>3, <2>1 DEF Follows
<1>4. CASE stored' = stored + 1 /\ stored \in Coming' /\ cpc[c] \notin {"ending", "closed"}
  <2>1. \A u \in Unseen(c)' : u \in Unseen(c) \/ (u = stored /\ stored > 0)
    BY <1>1, <1>2, <1>4 DEF Unseen
  <2>2. stored > 0 => lastId[c] < stored /\ (cpc[c] = "reading" => after[c] < stored)
    BY <1>1 DEF Follows, NoId
  <2>3. /\ \A u \in Unseen(c)' : lastId[c] < u
        /\ cpc[c] = "reading" => \A u \in Unseen(c)' : after[c] < u
    BY <2>1, <2>2 DEF Follows
  <2>4. cpc[c] \in {"off", "open"} /\ From(c) = NoId => Unseen(c)' \subseteq Coming'
    BY <1>4, <2>1 DEF Follows
  <2>5. cpc[c] = "replaying" => \A x \in Range1(todo[c]) : x < stored
    BY DEF Follows
  <2>6. cpc[c] = "replaying" =>
          \A u \in Unseen(c)' : \/ u \in Range1(todo[c])
                                \/ u \in Coming' /\ \A x \in Range1(todo[c]) : x < u
    BY <1>4, <2>1, <2>5 DEF Follows
  <2>7. cpc[c] \in {"live", "sending"} => Unseen(c)' \subseteq Coming' \cup Range1(hand[c])
    BY <1>4, <2>1 DEF Follows
  <2>8. /\ \A x \in Received(c) : x < stored'
        /\ cpc[c] = "replaying" => \A x \in Range1(todo[c]) : x < stored'
    <3>1. /\ \A x \in Received(c) : x \in Nat /\ x < stored
          /\ \A x \in Range1(todo[c]) : x \in Nat
      BY Numbers DEF Follows, Received, Range1
    <3> QED BY <1>1, <1>4, <2>5, <3>1
  <2> QED BY <1>1, <1>2, <1>4, <2>3, <2>4, <2>6, <2>7, <2>8 DEF Follows
<1> QED BY <1>3, <1>4

LEMMA FollowRunStep ==
  ASSUME RunInv, RunInv', FollowInv, Alone, Alone', UNCHANGED streams, NEW c \in Clients,
         ~Forgot(c),
         \/ StartRun \/ ResumeRun \/ Stop \/ Close
         \/ \E h \in Cancellers : CancelRun(h) \/ CancelStep(h)
         \/ \E t \in Tasks : TaskStep(t) \/ CatchCancel(t)
  PROVE  Follows(c)'
<1>0. TypeOK /\ Follows(c) /\ Owned /\ AloneSettles /\ 1 \in Tasks
  BY RunManagerAssumption DEF RunInv, OrderInv, FollowInv, Tasks
<1>1. CASE \/ StartRun \/ ResumeRun \/ Stop \/ Close
           \/ \E h \in Cancellers : CancelRun(h) \/ CancelStep(h)
  <2>1. UNCHANGED <<stored, feed, queue>>
    BY <1>1 DEF StartRun, ResumeRun, Stop, Close, CancelRun, CancelStep, CancelFails,
                CancelReturns
  <2>2. tpc[1] = "appending" => tpc'[1] = "appending"
    <3>1. StartRun \/ tpc' = tpc
      BY <1>1 DEF ResumeRun, Stop, Close, CancelRun, CancelStep, CancelFails, CancelReturns,
                  tasks, Alone, Undisturbed
    <3>2. StartRun => tpc[1] = "none"
      BY <1>0 DEF StartRun, Owned
    <3> QED BY <3>1, <3>2
  <2>3. Coming \subseteq Coming'
    BY <2>1, <2>2 DEF Coming, Range1
  <2> QED BY <1>0, <2>1, <2>3, FollowsRun
<1>2. ASSUME NEW t \in Tasks, TaskStep(t) \/ CatchCancel(t) PROVE Follows(c)'
  <2>1. t = 1
    <3>1. tpc[t] # "none"
      BY <1>2 DEF TaskStep, BeginTask, SkipTask, AppendEvent, PutEvent, LoadCheckpoint,
                  ReturnTask, RaiseTask, CancelTask, CatchCancel
    <3> QED BY <1>0, <3>1 DEF Owned, Alone, Undisturbed, Tasks
  <2>2. CASE AppendEvent(t)
    <3>1. /\ stored' = stored \/ (stored' = stored + 1 /\ feed' = stored)
          /\ tpc'[1] = "appending" /\ queue' = queue /\ tpc[1] = "running"
      BY <1>0, <2>1, <2>2 DEF AppendEvent, TaskGoes, TypeOK
    <3>2. Coming \subseteq Coming' /\ feed' \in Coming'
      BY <3>1 DEF Coming, Range1
    <3>3. cpc[c] \notin {"ending", "closed"}
      BY <1>0, <3>1 DEF AloneSettles
    <3> QED BY <1>0, <3>1, <3>2, <3>3, FollowsRun
  <2>3. CASE PutEvent(t)
    <3>1. UNCHANGED <<stored, feed>> /\ queue' = Append(queue, feed) /\ tpc[1] = "appending"
      BY <2>1, <2>3 DEF PutEvent, Broadcast
    <3>2. feed \in Items(stored)
      BY <1>0, <3>1, Numbers DEF RunInv, OrderInv, Feeding, Items
    <3>3. \A i \in DOMAIN queue : i \in DOMAIN queue' /\ queue'[i] = queue[i]
      BY <1>0, <3>1, <3>2, Numbers, QueueGrows
    <3>4. Len(queue) + 1 \in DOMAIN queue' /\ queue'[Len(queue) + 1] = feed
      BY <1>0, <3>1, <3>2, Numbers, QueueGrows
    <3>5. Coming \subseteq Coming'
      BY <3>3, <3>4 DEF Coming, Range1
    <3> QED BY <1>0, <3>1, <3>5, FollowsRun
  <2>4. CASE ~AppendEvent(t) /\ ~PutEvent(t)
    <3>1. /\ stored' = stored /\ tpc[1] # "appending"
          /\ queue' = queue \/ queue' = Append(queue, Done)
      BY <1>0, <1>2, <2>1, <2>4
      DEF TaskStep, BeginTask, SkipTask, LoadCheckpoint, ReturnTask, RaiseTask, CancelTask,
          CatchCancel, Signal, AloneSettles, Alone
    <3>2. \A i \in DOMAIN queue : i \in DOMAIN queue' /\ queue'[i] = queue[i]
      BY <1>0, <3>1, Numbers, QueueGrows DEF Items
    <3>3. Coming \subseteq Coming'
      BY <3>1, <3>2 DEF Coming, Range1
    <3> QED BY <1>0, <3>1, <3>3, FollowsRun
  <2> QED BY <2>2, <2>3, <2>4
<1> QED BY <1>1, <1>2

(* What one step of a stream does to what its client has still to see.     *)
LEMMA Receiving ==
  ASSUME TypeOK, NEW c \in Clients, NEW e \in Nat, stored' = stored,
         seen'[c] = Append(seen[c], e)
  PROVE  Received(c)' = Received(c) \cup {e} /\ Unseen(c)' = Unseen(c) \ {e}
<1>1. seen[c] \in Seq(Nat) /\ Len(seen[c]) \in Nat /\ DOMAIN seen[c] = 1 .. Len(seen[c])
  BY DEF TypeOK
<1>2. /\ DOMAIN seen'[c] = 1 .. Len(seen[c]) + 1 /\ seen'[c][Len(seen[c]) + 1] = e
      /\ \A i \in DOMAIN seen[c] : seen'[c][i] = seen[c][i]
  BY <1>1
<1>3. Received(c)' = {seen'[c][i] : i \in DOMAIN seen'[c]}
  BY DEF Received
<1>4. Received(c)' = Received(c) \cup {e}
  <2>1. \A i \in 1 .. Len(seen[c]) + 1 : i \in 1 .. Len(seen[c]) \/ i = Len(seen[c]) + 1
    BY <1>1
  <2>2. 1 .. Len(seen[c]) \subseteq 1 .. Len(seen[c]) + 1
        /\ Len(seen[c]) + 1 \in 1 .. Len(seen[c]) + 1
    BY <1>1
  <2> QED BY <1>1, <1>2, <1>3, <2>1, <2>2 DEF Received
<1> QED BY <1>4 DEF Unseen

LEMMA Waiting ==
  ASSUME TypeOK, NEW c \in Clients, UNCHANGED <<stored, seen[c], feed, tpc>>
  PROVE  /\ Received(c)' = Received(c) /\ Unseen(c)' = Unseen(c)
         /\ queue' = queue => Coming' = Coming
BY DEF Received, Unseen, Coming, Range1

LEMMA Taking ==
  ASSUME TypeOK, queue # << >>, queue' = Tail(queue), UNCHANGED <<feed, tpc>>
  PROVE  Coming \subseteq Coming' \cup {Head(queue)}
<1>1. /\ Head(queue) = queue[1] /\ Len(queue) \in Nat \ {0}
      /\ DOMAIN queue' = 1 .. Len(queue) - 1 /\ DOMAIN queue = 1 .. Len(queue)
      /\ \A i \in 1 .. Len(queue) - 1 : queue'[i] = queue[i + 1]
  BY Numbers DEF TypeOK
<1>2. \A i \in DOMAIN queue : i = 1 \/ (i - 1 \in DOMAIN queue' /\ queue'[i - 1] = queue[i])
  BY <1>1
<1> QED BY <1>1, <1>2 DEF Coming, Range1

LEMMA StillRemembers ==
  ASSUME TypeOK, OneStream, NEW c \in Clients,
         Connect(c) \/ StreamStep(c) \/ Ping(c) \/ Drop(c), ~Forgot(c)'
  PROVE  ~Forgot(c)
<1>0. /\ cpc \in [Clients -> Places]
      /\ drops \in [Clients -> 0 .. MaxDrops] /\ MaxDrops \in Nat
      /\ after \in [Clients -> Nat \cup {NoId}]
  BY RunManagerAssumption DEF TypeOK, Places
<1>1. CASE Connect(c)
  BY <1>0, <1>1 DEF Connect, StreamGoes, Forgot, From
<1>2. CASE StreamStep(c) \/ Ping(c)
  <2>1. cpc[c] # "off" /\ cpc'[c] # "off" /\ after'[c] = after[c] /\ drops'[c] = drops[c]
    BY <1>0, <1>2 DEF StreamStep, SendConfig, ReadStore, Replay, GoLive, TakeEvent, SendEvent,
                      SendDone, Ping, StreamGoes
  <2> QED BY <2>1 DEF Forgot, From
<1>3. CASE Drop(c)
  <2>1. drops[c] \in 0 .. MaxDrops /\ drops[c] < MaxDrops
    BY <1>0, <1>3 DEF Drop
  <2>2. Heartbeats => drops[c] = 0
    BY <1>0, <2>1 DEF OneStream
  <2> QED BY <2>2 DEF Forgot
<1> QED BY <1>1, <1>2, <1>3

LEMMA FollowStreamStep ==
  ASSUME OneStream, RunInv, RunInv', FollowInv, Alone, Alone', NEW c \in Clients,
         Connect(c) \/ StreamStep(c) \/ Ping(c) \/ Drop(c), ~Forgot(c)'
  PROVE  Follows(c)'
<1>0. /\ TypeOK /\ HandOrder /\ AloneSettles /\ stored \in Nat
      /\ UNCHANGED <<stored, feed, tpc>>
  BY StreamFootprint, Numbers DEF RunInv, OrderInv
<1>1. Follows(c)
  BY <1>0, StillRemembers DEF FollowInv
<1>2. /\ c \in DOMAIN cpc /\ c \in DOMAIN lastId /\ c \in DOMAIN after /\ c \in DOMAIN todo
      /\ c \in DOMAIN hand /\ c \in DOMAIN seen /\ c \in DOMAIN drops
  BY <1>0 DEF TypeOK
<1>3. /\ lastId[c] \in Nat \cup {NoId} /\ after[c] \in Nat \cup {NoId}
      /\ todo[c] \in Seq(Nat) /\ Holds(c)
  BY <1>0 DEF TypeOK, HandOrder
<1>4. cpc[c] \notin {"sending", "ending"} => Range1(hand[c]) = {}
  BY <1>3 DEF Holds, Range1
<1>5. CASE Connect(c)
  <2>1. /\ cpc[c] = "off" /\ cpc'[c] = "open" /\ after'[c] = lastId[c] /\ lastId'[c] = lastId[c]
        /\ seen'[c] = seen[c] /\ queue' = queue
    BY <1>2, <1>5 DEF Connect, StreamGoes
  <2>2. Received(c)' = Received(c) /\ Unseen(c)' = Unseen(c) /\ Coming' = Coming
    BY <1>0, <2>1, Waiting
  <2>3. From(c)' = From(c)
    BY <2>1 DEF From
  <2> QED BY <1>0, <1>1, <2>1, <2>2, <2>3 DEF Follows
<1>6. CASE SendConfig(c)
  <2>1. /\ cpc[c] = "open" /\ lastId'[c] = 0 /\ after'[c] = after[c]
        /\ cpc'[c] = IF after[c] >= 0 THEN "reading" ELSE "live"
        /\ seen'[c] = seen[c] /\ queue' = queue /\ hand'[c] = hand[c]
    BY <1>2, <1>6 DEF SendConfig, StreamGoes
  <2>2. Received(c)' = Received(c) /\ Unseen(c)' = Unseen(c) /\ Coming' = Coming
    BY <1>0, <2>1, Waiting
  <2>3. \A u \in Unseen(c) : 0 < u
    BY <1>0 DEF Unseen
  <2>4. CASE after[c] >= 0
    <3>1. after[c] # NoId /\ after[c] = lastId[c]
      BY <1>1, <2>1, <2>4 DEF Follows, NoId
    <3> QED BY <1>0, <1>1, <2>1, <2>2, <2>3, <2>4, <3>1 DEF Follows, NoId
  <2>5. CASE ~(after[c] >= 0)
    <3>1. after[c] = NoId
      BY <1>3, <2>5 DEF NoId
    <3>2. Unseen(c) \subseteq Coming
      BY <1>1, <2>1, <3>1 DEF Follows, From
    <3> QED BY <1>0, <1>1, <2>1, <2>2, <2>3, <2>5, <3>2 DEF Follows, NoId
  <2> QED BY <2>4, <2>5
<1>7. CASE ReadStore(c)
  <2>1. /\ cpc[c] = "reading" /\ cpc'[c] = "replaying" /\ lastId'[c] = lastId[c]
        /\ todo'[c] = Missed(c) /\ seen'[c] = seen[c] /\ queue' = queue
    BY <1>2, <1>7 DEF ReadStore, StreamGoes
  <2>2. Received(c)' = Received(c) /\ Unseen(c)' = Unseen(c) /\ Coming' = Coming
    BY <1>0, <2>1, Waiting
  <2>3. PICK a \in Nat : a = after[c]
    <3>1. seen[c] \in Seq(Nat)
      BY <1>0 DEF TypeOK
    <3>2. \A x \in Received(c) : x \in Nat
      BY <3>1 DEF Received
    <3> QED BY <1>1, <2>1, <3>2 DEF Follows
  <2>4. /\ DOMAIN todo'[c] = 1 .. stored - 1 - a
        /\ \A i \in 1 .. stored - 1 - a : todo'[c][i] = a + i
    BY <2>1, <2>3 DEF Missed
  <2>5. \A i, j \in DOMAIN todo'[c] : i < j => todo'[c][i] < todo'[c][j]
    BY <1>0, <2>3, <2>4
  <2>6. Range1(todo[c])' = {a + i : i \in 1 .. stored - 1 - a}
    BY <2>4 DEF Range1
  <2>7. \A x \in Range1(todo[c])' : x < stored
    BY <1>0, <2>3, <2>6
  <2>8. ASSUME NEW u \in Unseen(c) PROVE u \in Range1(todo[c])'
    <3>1. u \in 1 .. stored - 1 /\ a < u
      BY <1>1, <2>1, <2>3, <2>8 DEF Unseen, Follows
    <3>2. u - a \in 1 .. stored - 1 - a /\ u = a + (u - a)
      BY <1>0, <2>3, <3>1
    <3> QED BY <2>6, <3>2
  <2>9. ~Heartbeats => lastId[c] # NoId
    BY <1>1, <2>1 DEF Follows
  <2> QED BY <1>0, <1>1, <2>1, <2>2, <2>5, <2>7, <2>8, <2>9 DEF Follows
<1>8. CASE Replay(c)
  <2>1. /\ cpc[c] = "replaying" /\ cpc'[c] = "replaying" /\ todo[c] # << >>
        /\ lastId'[c] = Head(todo[c]) /\ todo'[c] = Tail(todo[c])
        /\ seen'[c] = Append(seen[c], Head(todo[c])) /\ queue' = queue
    BY <1>2, <1>3, <1>8 DEF Replay, Receive, Unnumbered
  <2>2. PICK e \in Nat : /\ e = Head(todo[c]) /\ e = todo[c][1]
    BY <1>3, <2>1
  <2>3. Received(c)' = Received(c) \cup {e} /\ Unseen(c)' = Unseen(c) \ {e} /\ Coming' = Coming
    <3>1. Coming' = Coming
      BY <1>0, <2>1 DEF Coming, Range1
    <3> QED BY <1>0, <2>1, <2>2, <3>1, Receiving
  <2>4. /\ Len(todo[c]) \in Nat \ {0} /\ DOMAIN todo[c] = 1 .. Len(todo[c])
        /\ DOMAIN todo'[c] = 1 .. Len(todo[c]) - 1
        /\ \A i \in 1 .. Len(todo[c]) - 1 : todo'[c][i] = todo[c][i + 1]
    BY <1>3, <2>1
  <2>5. \A i \in DOMAIN todo'[c] : i \in Nat /\ i + 1 \in DOMAIN todo[c] /\ 1 < i + 1
    BY <2>4
  <2>6. /\ \A i, j \in DOMAIN todo[c] : i < j => todo[c][i] < todo[c][j]
        /\ \A x \in Range1(todo[c]) : x < stored
        /\ \A u \in Unseen(c) : \/ u \in Range1(todo[c])
                                \/ u \in Coming /\ \A x \in Range1(todo[c]) : x < u
    BY <1>1, <2>1 DEF Follows
  <2>7. \A i, j \in DOMAIN todo'[c] : i < j => todo'[c][i] < todo'[c][j]
    BY <2>4, <2>5, <2>6
  <2>8. 1 \in DOMAIN todo[c] /\ e \in Range1(todo[c])
    BY <2>2, <2>4 DEF Range1
  <2>9. /\ \A x \in Range1(todo[c])' : x \in Range1(todo[c]) /\ e < x
        /\ \A x \in Range1(todo[c]) : x = e \/ x \in Range1(todo[c])'
    <3>1. \A i \in DOMAIN todo[c] : i = 1 \/ (i - 1 \in DOMAIN todo'[c] /\ todo'[c][i - 1] = todo[c][i])
      BY <2>4
    <3>2. \A i \in DOMAIN todo'[c] : todo'[c][i] = todo[c][i + 1] /\ e < todo[c][i + 1]
      BY <2>2, <2>4, <2>5, <2>6, <2>8
    <3>3. ASSUME NEW x \in Range1(todo[c])' PROVE x \in Range1(todo[c]) /\ e < x
      <4>1. PICK i \in DOMAIN todo'[c] : x = todo'[c][i]
        BY <3>3 DEF Range1
      <4> QED BY <2>5, <3>2, <4>1 DEF Range1
    <3>4. ASSUME NEW x \in Range1(todo[c]) PROVE x = e \/ x \in Range1(todo[c])'
      <4>1. PICK i \in DOMAIN todo[c] : x = todo[c][i]
        BY <3>4 DEF Range1
      <4> QED BY <2>2, <3>1, <4>1 DEF Range1
    <3> QED BY <3>3, <3>4
  <2>10. \A u \in Unseen(c)' : /\ e < u
                               /\ \/ u \in Range1(todo[c])'
                                  \/ u \in Coming /\ \A x \in Range1(todo[c])' : x < u
    BY <2>3, <2>6, <2>8, <2>9
  <2>11. e < stored /\ \A x \in Range1(todo[c])' : x < stored
    BY <2>6, <2>8, <2>9
  <2> QED BY <1>0, <1>1, <2>1, <2>2, <2>3, <2>7, <2>10, <2>11 DEF Follows, NoId
<1>9. CASE GoLive(c)
  <2>1. /\ cpc[c] = "replaying" /\ cpc'[c] = "live" /\ todo[c] = << >> /\ lastId'[c] = lastId[c]
        /\ seen'[c] = seen[c] /\ queue' = queue /\ hand'[c] = hand[c]
    BY <1>2, <1>9 DEF GoLive, StreamGoes
  <2>2. Received(c)' = Received(c) /\ Unseen(c)' = Unseen(c) /\ Coming' = Coming
    BY <1>0, <2>1, Waiting
  <2>3. Unseen(c) \subseteq Coming
    <3>1. Range1(todo[c]) = {}
      BY <2>1 DEF Range1
    <3> QED BY <1>1, <2>1, <3>1 DEF Follows
  <2> QED BY <1>0, <1>1, <2>1, <2>2, <2>3 DEF Follows
<1>10. CASE TakeEvent(c)
  <2>1. /\ cpc[c] = "live" /\ hand'[c] = <<Head(queue)>>
        /\ cpc'[c] = IF Head(queue) = Done THEN "ending" ELSE "sending"
        /\ lastId'[c] = lastId[c] /\ seen'[c] = seen[c] /\ queue # << >> /\ queue' = Tail(queue)
    BY <1>2, <1>10 DEF TakeEvent, StreamGoes
  <2>2. Received(c)' = Received(c) /\ Unseen(c)' = Unseen(c)
    BY <1>0, <2>1, Waiting
  <2>3. CASE Head(queue) # Done
    <3>1. Coming \subseteq Coming' \cup {Head(queue)}
      BY <1>0, <2>1, Taking
    <3>2. Range1(hand[c])' = {Head(queue)}
      BY <2>1 DEF Range1
    <3>3. Unseen(c)' \subseteq Coming' \cup Range1(hand[c])'
      BY <1>1, <1>4, <2>1, <2>2, <3>1, <3>2 DEF Follows
    <3> QED BY <1>0, <1>1, <2>1, <2>2, <2>3, <3>3 DEF Follows
  <2>4. CASE Head(queue) = Done
    <3>1. queue[1] = Done /\ DOMAIN queue = {1} /\ tpc[1] # "appending"
      <4>1. /\ 1 \in DOMAIN queue /\ queue[1] = Done /\ DOMAIN queue = 1 .. Len(queue)
        BY <1>0, <2>1, <2>4, QueueShrinks, Numbers
      <4>2. 1 = Len(queue) /\ tpc[1] # "appending"
        BY <1>0, <4>1 DEF AloneSettles
      <4>3. 1 .. 1 = {1}
        OBVIOUS
      <4> QED BY <4>1, <4>2, <4>3
    <3>2. Coming = {Done}
      BY <3>1 DEF Coming, Range1
    <3>3. Unseen(c) = {}
      <4>1. \A u \in Unseen(c) : u = Done
        BY <1>1, <1>4, <2>1, <3>2 DEF Follows
      <4> QED BY <1>0, <4>1 DEF Unseen, Done
    <3> QED BY <1>0, <1>1, <2>1, <2>2, <2>4, <3>3 DEF Follows
  <2> QED BY <2>3, <2>4
<1>11. CASE SendEvent(c)
  <2>1. /\ cpc[c] = "sending" /\ cpc'[c] = "live" /\ hand'[c] = << >> /\ queue' = queue
        /\ Receive(c, Head(hand[c])) /\ Head(hand[c]) = hand[c][1]
        /\ Range1(hand[c]) = {hand[c][1]}
    BY <1>2, <1>3, <1>11 DEF SendEvent, StreamGoes, Holds, Range1
  <2>2. Coming' = Coming
    BY <1>0, <2>1 DEF Coming, Range1
  <2>3. CASE hand[c][1] = Unnumbered
    <3>1. lastId'[c] = 0 /\ seen'[c] = seen[c]
      BY <1>2, <2>1, <2>3 DEF Receive
    <3>2. Received(c)' = Received(c) /\ Unseen(c)' = Unseen(c)
      BY <1>0, <3>1, Waiting
    <3>3. \A u \in Unseen(c) : 0 < u /\ u # Unnumbered
      BY <1>0 DEF Unseen, Unnumbered
    <3>4. Unseen(c)' \subseteq Coming
      BY <1>1, <2>1, <2>3, <3>2, <3>3 DEF Follows
    <3> QED BY <1>0, <1>1, <2>1, <2>2, <3>1, <3>2, <3>3, <3>4 DEF Follows, NoId
  <2>4. CASE hand[c][1] # Unnumbered
    <3>1. PICK e \in Nat : e = Head(hand[c]) /\ Range1(hand[c]) = {e} /\ Before(e)
      BY <1>3, <2>1, <2>4 DEF Holds
    <3>2. lastId'[c] = e /\ seen'[c] = Append(seen[c], e)
      BY <1>2, <2>1, <2>4, <3>1 DEF Receive
    <3>3. Received(c)' = Received(c) \cup {e} /\ Unseen(c)' = Unseen(c) \ {e}
      BY <1>0, <3>1, <3>2, Receiving
    <3>4. Unseen(c)' \subseteq Coming /\ \A u \in Unseen(c) : u \in Nat
      BY <1>0, <1>1, <2>1, <3>1, <3>3 DEF Follows, Unseen
    <3>5. \A u \in Unseen(c)' : e < u
      BY <3>1, <3>3, <3>4 DEF Before, Coming, Range1, Numbering
    <3> QED BY <1>0, <1>1, <2>1, <2>2, <3>1, <3>2, <3>3, <3>4, <3>5 DEF Follows, NoId, Before
  <2> QED BY <2>3, <2>4
<1>12. CASE SendDone(c)
  <2>1. /\ cpc[c] = "ending" /\ cpc'[c] = "closed" /\ lastId'[c] = lastId[c] /\ seen'[c] = seen[c]
    BY <1>2, <1>12 DEF SendDone, StreamGoes
  <2>2. Received(c)' = Received(c) /\ Unseen(c)' = Unseen(c)
    BY <1>0, <2>1, Waiting
  <2>3. Unseen(c) = {}
    BY <1>1, <2>1 DEF Follows
  <2> QED BY <1>0, <1>1, <2>1, <2>2, <2>3 DEF Follows
<1>13. CASE Ping(c)
  <2>1. /\ cpc[c] = "live" /\ cpc'[c] = cpc[c] /\ lastId'[c] = NoId /\ seen'[c] = seen[c]
        /\ queue' = queue /\ hand'[c] = hand[c] /\ Heartbeats
    BY <1>2, <1>13 DEF Ping
  <2>2. Received(c)' = Received(c) /\ Unseen(c)' = Unseen(c) /\ Coming' = Coming
    BY <1>0, <2>1, Waiting
  <2>3. \A u \in Unseen(c) : NoId < u
    BY <1>0 DEF Unseen, NoId
  <2>4. Range1(hand[c])' = Range1(hand[c])
    BY <2>1 DEF Range1
  <2> QED BY <1>0, <1>1, <2>1, <2>2, <2>3, <2>4 DEF Follows
<1>14. CASE Drop(c)
  <2>1. /\ cpc[c] # "off" /\ cpc'[c] = "off" /\ lastId'[c] = lastId[c] /\ after'[c] = after[c]
        /\ drops'[c] > 0 /\ seen'[c] = seen[c] /\ queue' = queue
    <3>1. drops[c] \in Nat
      BY <1>0, RunManagerAssumption DEF TypeOK
    <3> QED BY <1>2, <1>14, <3>1 DEF Drop, StreamGoes
  <2>2. Received(c)' = Received(c) /\ Unseen(c)' = Unseen(c) /\ Coming' = Coming
    BY <1>0, <2>1, Waiting
  <2>3. ASSUME lastId[c] = NoId PROVE Unseen(c) \subseteq Coming
    <3>1. ~Heartbeats
      BY <2>1, <2>3 DEF Forgot, From
    <3>2. cpc[c] = "open" /\ after[c] = lastId[c]
      BY <1>1, <2>1, <2>3, <3>1 DEF Follows
    <3> QED BY <1>1, <2>3, <3>2 DEF Follows, From
  <2>4. From(c)' = lastId[c]
    BY <2>1 DEF From
  <2> QED BY <1>0, <1>1, <2>1, <2>2, <2>3, <2>4 DEF Follows
<1> QED BY <1>5, <1>6, <1>7, <1>8, <1>9, <1>10, <1>11, <1>12, <1>13, <1>14 DEF StreamStep

LEMMA FollowInit == Init => FollowInv
<1> SUFFICES ASSUME Init, NEW c \in Clients PROVE Follows(c)
  BY DEF FollowInv
<1>1. /\ Received(c) = {} /\ Unseen(c) = {} /\ lastId[c] = NoId /\ cpc[c] = "off"
  <2>1. seen[c] = << >> /\ stored = 0 /\ lastId[c] = NoId /\ cpc[c] = "off"
    BY DEF Init
  <2>2. Received(c) = {}
    BY <2>1 DEF Received
  <2>3. 1 .. stored - 1 = {}
    BY <2>1
  <2> QED BY <2>1, <2>2, <2>3 DEF Unseen
<1> QED BY <1>1 DEF Follows

LEMMA FollowStep ==
  ASSUME OneStream, RunInv, RunInv', FollowInv, [Next]_vars
  PROVE  FollowInv'
<1> SUFFICES ASSUME Alone', NEW c \in Clients, ~Forgot(c)' PROVE Follows(c)'
  BY DEF FollowInv
<1>1. TypeOK /\ Alone
  BY AloneBackwards DEF RunInv, OrderInv
<1>2. CASE UNCHANGED vars
  <2>1. ~Forgot(c)
    BY <1>2 DEF vars, streams, Forgot, From
  <2>2. Follows(c)
    BY <1>1, <2>1 DEF FollowInv
  <2>3. UNCHANGED streams /\ Coming' = Coming /\ stored' = stored
    BY <1>2 DEF vars, tasks, Coming, Range1
  <2> QED BY <1>1, <2>2, <2>3, FollowsRun
<1>3. CASE \/ StartRun \/ ResumeRun \/ Stop \/ Close
           \/ \E h \in Cancellers : CancelRun(h) \/ CancelStep(h)
           \/ \E t \in Tasks : TaskStep(t) \/ CatchCancel(t)
  <2>1. UNCHANGED streams
    BY <1>3 DEF StartRun, ResumeRun, Stop, Close, CancelRun, CancelStep, CancelFails,
                CancelReturns, TaskStep, BeginTask, SkipTask, AppendEvent, PutEvent,
                LoadCheckpoint, ReturnTask, RaiseTask, CancelTask, CatchCancel
  <2>2. ~Forgot(c)
    BY <2>1 DEF streams, Forgot, From
  <2> QED BY <1>1, <1>3, <2>1, <2>2, FollowRunStep
<1>4. ASSUME NEW e \in Clients, Connect(e) \/ StreamStep(e) \/ Ping(e) \/ Drop(e)
      PROVE  Follows(c)'
  <2>1. e = c
    BY DEF OneStream
  <2> QED BY <1>1, <1>4, <2>1, FollowStreamStep
<1> QED BY <1>2, <1>3, <1>4 DEF Next

(* What the only client of an undisturbed run has received when it is told *)
(* that the run is done is the whole log, in order, whatever connections   *)
(* it lost on the way: the event stream replays from the store what was on *)
(* the wire, and the queue still has the rest (routes/streams.py).         *)
THEOREM StreamShowsLog == OneStream => (Spec => []StreamIsLog)
<1> SUFFICES ASSUME OneStream PROVE Spec => []StreamIsLog
  OBVIOUS
<1>1. Init => RunInv /\ FollowInv
  BY RunInit, FollowInit
<1>2. RunInv /\ FollowInv /\ [Next]_vars => (RunInv /\ FollowInv)'
  BY RunStep, FollowStep
<1>3. RunInv /\ FollowInv => StreamIsLog
  <2> SUFFICES ASSUME RunInv, FollowInv PROVE StreamIsLog
    OBVIOUS
  <2>1. InOrder
    BY DEF RunInv, OrderInv, FirstConnection, InOrder
  <2>2. ASSUME NEW c \in Clients, cpc[c] = "closed", app = "up", Undisturbed,
               drops[c] = 0 \/ after[c] # NoId
        PROVE  1 .. stored - 1 \subseteq Received(c)
    <3>1. ~Forgot(c) /\ Alone
      BY <2>2 DEF Forgot, From, Alone
    <3>2. Unseen(c) = {}
      BY <2>2, <3>1 DEF FollowInv, Follows
    <3> QED BY <3>2 DEF Unseen
  <2> QED BY <2>1, <2>2 DEF StreamIsLog, NothingMissed
<1> QED BY <1>1, <1>2, <1>3, PTL DEF Spec
=============================================================================
