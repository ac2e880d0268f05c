------------------------------ MODULE RunManager -------------------------------
(***************************************************************************)
(* One run in the HTTP server: its background tasks and their status       *)
(* (server/lifecycle.py), the resume and cancel routes (routes/runs.py),   *)
(* the server-sent event streams that read the run's queue                 *)
(* (routes/streams.py) and the shutdown of the application (app.py).       *)
(* The workflow itself is CompiledGraph; here it is a task that appends    *)
(* events, may leave a checkpoint and ends.  The EventBus of the run       *)
(* numbers its events 0, 1, ...; agents append theirs (LLMCalled,          *)
(* ToolCalled, SecurityViolation) with sequence 0, whatever came before.   *)
(***************************************************************************)
EXTENDS Integers, Sequences, FiniteSets

CONSTANTS
  Cancellers,   \* requests to cancel the run
  Clients,      \* stream clients
  LastTask,     \* bound: task 1 is run(), tasks 2 .. LastTask are resume()
  MaxEvents,    \* bound: events the bus of the run numbers
  MaxAgent,     \* bound: events its agents append
  MaxDrops,     \* bound: connections of a client that are lost
  Heartbeats    \* whether a stream ever waits long enough to send a ping

ASSUME RunManagerAssumption ==
  /\ LastTask \in Nat \ {0} /\ MaxEvents \in Nat /\ MaxAgent \in Nat /\ MaxDrops \in Nat
  /\ Heartbeats \in BOOLEAN

Tasks == 1 .. LastTask
Done  == -1    \* the None a task leaves in the queue when it ends
Unnumbered == -2   \* an event of an agent
NoId  == -1    \* no Last-Event-ID

VARIABLES
  status,     \* ActiveRun.status
  task,       \* ActiveRun.task, the newest task
  tpc,        \* tpc[t]: where task t is
  asked,      \* asked[t]: t.cancel() was called
  stored,     \* numbered events in the EventStore: 0 .. stored - 1
  agents,     \* events of agents in the EventStore
  feed,       \* the event task 1 has stored last, which it queues next
  saved,      \* whether the run has a checkpoint
  queue,      \* ActiveRun.event_queue
  hpc, hTask, \* a cancel request, and the task it waits for
  cpc,        \* cpc[c]: where the stream of client c is
  lastId,     \* the client's last event id
  after,      \* the Last-Event-ID the stream was opened with
  todo,       \* stored events still to be replayed
  hand,       \* the queue item the stream is about to yield
  seen,       \* numbered events the client has received, in order
  told,       \* the status in the done event it has received
  drops,      \* lost connections
  app         \* the application: "up", "stopping" or "closed"

tasks   == <<task, tpc, asked>>
cancels == <<hpc, hTask>>
streams == <<cpc, lastId, after, todo, hand, seen, told, drops>>
vars    == <<status, tasks, stored, agents, feed, saved, queue, cancels, streams, app>>

Running == {"created", "loading", "running", "appending"}
Ended   == {"returned", "raised", "cancelled"}
Final   == {"completed", "failed", "cancelled"}

Init ==
  /\ status = "none" /\ task = 1 /\ stored = 0 /\ agents = 0 /\ feed = 0
  /\ saved = FALSE /\ queue = << >>
  /\ tpc = [t \in Tasks |-> "none"] /\ asked = [t \in Tasks |-> FALSE]
  /\ hpc = [h \in Cancellers |-> "idle"] /\ hTask = [h \in Cancellers |-> 1]
  /\ cpc = [c \in Clients |-> "off"] /\ drops = [c \in Clients |-> 0]
  /\ lastId = [c \in Clients |-> NoId] /\ after = [c \in Clients |-> NoId]
  /\ todo = [c \in Clients |-> << >>] /\ hand = [c \in Clients |-> << >>]
  /\ seen = [c \in Clients |-> << >>] /\ told = [c \in Clients |-> "none"]
  /\ app = "up"

--------------------------------------------------------------------------------
(* Tasks.                                                                  *)

TaskGoes(t, l) == tpc' = [tpc EXCEPT ![t] = l]

(* start_run: the record and its task; the task itself has not run yet.    *)
StartRun ==
  /\ app = "up" /\ status = "none"
  /\ status' = "running" /\ TaskGoes(1, "created")
  /\ UNCHANGED <<task, asked, stored, agents, feed, saved, queue, cancels, streams, app>>

(* resume_run: everything but a completed run is accepted; the new task    *)
(* replaces the old one, which nobody stops.                               *)
Resumable == status # "completed"
ResumeRun ==
  /\ app = "up" /\ status # "none" /\ Resumable /\ task < LastTask
  /\ task' = task + 1
  /\ TaskGoes(task + 1, "created")
  /\ status' = "running"
  /\ UNCHANGED <<asked, stored, agents, feed, saved, queue, cancels, streams, app>>

BeginTask(t) ==
  /\ tpc[t] = "created" /\ ~asked[t]
  /\ TaskGoes(t, IF t = 1 THEN "running" ELSE "loading")
  /\ UNCHANGED <<status, task, asked, stored, agents, feed, saved, queue, cancels, streams,
                 app>>

(* A task cancelled before its first step never enters its try block.      *)
SkipTask(t) ==
  /\ tpc[t] = "created" /\ asked[t]
  /\ TaskGoes(t, "cancelled")
  /\ UNCHANGED <<status, task, asked, stored, agents, feed, saved, queue, cancels, streams,
                 app>>

(* _BroadcastStore.append writes, then feeds the queue; a resumed task is  *)
(* given the bare store.                                                   *)
AppendEvent(t) ==
  /\ tpc[t] = "running" /\ ~asked[t]
  /\ \/ /\ stored < MaxEvents /\ stored' = stored + 1
        /\ feed' = IF t = 1 THEN stored ELSE feed
        /\ UNCHANGED agents
     \/ /\ agents < MaxAgent /\ agents' = agents + 1
        /\ feed' = IF t = 1 THEN Unnumbered ELSE feed
        /\ UNCHANGED stored
  /\ TaskGoes(t, IF t = 1 THEN "appending" ELSE "running")
  /\ UNCHANGED <<status, task, asked, saved, queue, cancels, streams, app>>

Broadcast == Append(queue, feed)
PutEvent(t) ==
  /\ tpc[t] = "appending" /\ ~asked[t]
  /\ queue' = Broadcast
  /\ TaskGoes(t, "running")
  /\ UNCHANGED <<status, task, asked, stored, agents, feed, saved, cancels, streams, app>>

(* resume() loads the checkpoint, or raises when there is none.            *)
LoadCheckpoint(t) ==
  /\ tpc[t] = "loading" /\ ~asked[t] /\ saved
  /\ TaskGoes(t, "running")
  /\ UNCHANGED <<status, task, asked, stored, agents, feed, saved, queue, cancels, streams,
                 app>>

Slip_Signal == UNCHANGED queue
Signal == queue' = Append(queue, Done)

(* The workflow returns: it has finished, or it was interrupted and left a *)
(* checkpoint; either way the run is now "completed".                      *)
ReturnTask(t) ==
  /\ tpc[t] = "running" /\ ~asked[t]
  /\ saved' \in {saved, TRUE}
  /\ status' = "completed" /\ TaskGoes(t, "returned") /\ Signal
  /\ UNCHANGED <<task, asked, stored, agents, feed, cancels, streams, app>>

Slip_OnError == status
OnError == "failed"
RaiseTask(t) ==
  /\ ~asked[t]
  /\ tpc[t] = "running" \/ (tpc[t] = "loading" /\ ~saved)
  /\ status' = OnError /\ TaskGoes(t, "raised") /\ Signal
  /\ UNCHANGED <<task, asked, stored, agents, feed, saved, cancels, streams, app>>

(* CancelledError passes "except Exception" and runs the finally clause.   *)
CancelTask(t) ==
  /\ tpc[t] \in {"loading", "running", "appending"} /\ asked[t]
  /\ TaskGoes(t, "cancelled") /\ Signal
  /\ UNCHANGED <<status, task, asked, stored, agents, feed, saved, cancels, streams, app>>

(* Nodes are the application's code: one may catch its CancelledError, and *)
(* the workflow goes on.                                                   *)
CatchCancel(t) ==
  /\ tpc[t] = "running" /\ asked[t]
  /\ asked' = [asked EXCEPT ![t] = FALSE]
  /\ UNCHANGED <<status, task, tpc, stored, agents, feed, saved, queue, cancels, streams,
                 app>>

--------------------------------------------------------------------------------
(* cancel_run.                                                             *)

CancelRun(h) ==
  /\ app = "up" /\ hpc[h] = "idle" /\ status \notin Final \cup {"none"}
  /\ asked' = [asked EXCEPT ![task] = tpc[task] \in Running]
  /\ hTask' = [hTask EXCEPT ![h] = task]
  /\ hpc' = [hpc EXCEPT ![h] = "waiting"]
  /\ UNCHANGED <<status, task, tpc, stored, agents, feed, saved, queue, streams, app>>

(* It waits for the task it cancelled: the task's own exception is passed  *)
(* on, otherwise, also after two seconds, the run is marked cancelled.     *)
CancelFails(h) ==
  /\ hpc[h] = "waiting" /\ tpc[hTask[h]] = "raised"
  /\ hpc' = [hpc EXCEPT ![h] = "answered"]
  /\ UNCHANGED <<status, tasks, stored, agents, feed, saved, queue, hTask, streams, app>>

CancelReturns(h) ==
  /\ hpc[h] = "waiting" /\ tpc[hTask[h]] # "raised"
  /\ status' = "cancelled"
  /\ hpc' = [hpc EXCEPT ![h] = "answered"]
  /\ UNCHANGED <<tasks, stored, agents, feed, saved, queue, hTask, streams, app>>

--------------------------------------------------------------------------------
(* Streams.                                                                *)

StreamGoes(c, l) == cpc' = [cpc EXCEPT ![c] = l]

Connect(c) ==
  /\ app = "up" /\ status # "none" /\ cpc[c] = "off"
  /\ after' = [after EXCEPT ![c] = lastId[c]]
  /\ StreamGoes(c, "open")
  /\ UNCHANGED <<status, tasks, stored, agents, feed, saved, queue, cancels, lastId, todo,
                 hand, seen, told, drops, app>>

(* The first event of every stream, whose id is "0".                       *)
SendConfig(c) ==
  /\ cpc[c] = "open"
  /\ lastId' = [lastId EXCEPT ![c] = 0]
  /\ StreamGoes(c, IF after[c] >= 0 THEN "reading" ELSE "live")
  /\ UNCHANGED <<status, tasks, stored, agents, feed, saved, queue, cancels, after, todo,
                 hand, seen, told, drops, app>>

(* get_events(after_sequence): the events of agents, numbered 0, are never *)
(* among them.                                                             *)
Slip_Missed(c) == << >>
Missed(c) == [i \in 1 .. stored - 1 - after[c] |-> after[c] + i]
ReadStore(c) ==
  /\ cpc[c] = "reading"
  /\ todo' = [todo EXCEPT ![c] = Missed(c)]
  /\ StreamGoes(c, "replaying")
  /\ UNCHANGED <<status, tasks, stored, agents, feed, saved, queue, cancels, lastId, after,
                 hand, seen, told, drops, app>>

(* The id of an event is its sequence: an agent's takes a client back to 0.*)
Receive(c, e) ==
  IF e = Unnumbered THEN lastId' = [lastId EXCEPT ![c] = 0] /\ UNCHANGED seen
  ELSE /\ seen' = [seen EXCEPT ![c] = Append(@, e)]
       /\ lastId' = [lastId EXCEPT ![c] = e]

Replay(c) ==
  /\ cpc[c] = "replaying" /\ todo[c] # << >>
  /\ Receive(c, Head(todo[c]))
  /\ todo' = [todo EXCEPT ![c] = Tail(@)]
  /\ UNCHANGED <<status, tasks, stored, agents, feed, saved, queue, cancels, cpc, after,
                 hand, told, drops, app>>

GoLive(c) ==
  /\ cpc[c] = "replaying" /\ todo[c] = << >>
  /\ StreamGoes(c, "live")
  /\ UNCHANGED <<status, tasks, stored, agents, feed, saved, queue, cancels, lastId, after,
                 todo, hand, seen, told, drops, app>>

(* What a stream takes from the queue is gone for everyone else.           *)
TakeEvent(c) ==
  /\ cpc[c] = "live" /\ queue # << >>
  /\ hand' = [hand EXCEPT ![c] = <<Head(queue)>>]
  /\ queue' = Tail(queue)
  /\ StreamGoes(c, IF Head(queue) = Done THEN "ending" ELSE "sending")
  /\ UNCHANGED <<status, tasks, stored, agents, feed, saved, cancels, lastId, after, todo,
                 seen, told, drops, app>>

SendEvent(c) ==
  /\ cpc[c] = "sending"
  /\ Receive(c, Head(hand[c]))
  /\ hand' = [hand EXCEPT ![c] = << >>]
  /\ StreamGoes(c, "live")
  /\ UNCHANGED <<status, tasks, stored, agents, feed, saved, queue, cancels, after, todo,
                 told, drops, app>>

(* The done event carries the status of this moment.                       *)
SendDone(c) ==
  /\ cpc[c] = "ending"
  /\ hand' = [hand EXCEPT ![c] = << >>]
  /\ told' = [told EXCEPT ![c] = status]
  /\ StreamGoes(c, "closed")
  /\ UNCHANGED <<status, tasks, stored, agents, feed, saved, queue, cancels, lastId, after,
                 todo, seen, drops, app>>

(* A ping has the empty id, which makes the client forget its last one.    *)
Ping(c) ==
  /\ Heartbeats /\ cpc[c] = "live" /\ queue = << >> /\ lastId[c] # NoId
  /\ lastId' = [lastId EXCEPT ![c] = NoId]
  /\ UNCHANGED <<status, tasks, stored, agents, feed, saved, queue, cancels, cpc, after,
                 todo, hand, seen, told, drops, app>>

(* The connection is lost, with whatever was being sent: also with the end *)
(* mark, which nobody puts back.                                           *)
Drop(c) ==
  /\ cpc[c] \in {"open", "reading", "replaying", "live", "sending", "ending"}
  /\ drops[c] < MaxDrops
  /\ drops' = [drops EXCEPT ![c] = @ + 1]
  /\ todo' = [todo EXCEPT ![c] = << >>] /\ hand' = [hand EXCEPT ![c] = << >>]
  /\ StreamGoes(c, "off")
  /\ UNCHANGED <<status, tasks, stored, agents, feed, saved, queue, cancels, lastId, after,
                 seen, told, app>>

--------------------------------------------------------------------------------
(* Shutdown: cancel the newest task of the run, wait for it, close the     *)
(* store.                                                                  *)

Stop ==
  /\ app = "up" /\ app' = "stopping"
  /\ asked' = [asked EXCEPT ![task] = @ \/ tpc[task] \in Running]
  /\ UNCHANGED <<status, task, tpc, stored, agents, feed, saved, queue, cancels, streams>>

Awaited == tpc[task] \in Ended \cup {"none"}
Close ==
  /\ app = "stopping" /\ Awaited /\ app' = "closed"
  /\ UNCHANGED <<status, tasks, stored, agents, feed, saved, queue, cancels, streams>>

--------------------------------------------------------------------------------

TaskStep(t) ==
  \/ BeginTask(t) \/ SkipTask(t) \/ AppendEvent(t) \/ PutEvent(t) \/ LoadCheckpoint(t)
  \/ ReturnTask(t) \/ RaiseTask(t) \/ CancelTask(t)

CancelStep(h) == CancelFails(h) \/ CancelReturns(h)

StreamStep(c) ==
  \/ SendConfig(c) \/ ReadStore(c) \/ Replay(c) \/ GoLive(c)
  \/ TakeEvent(c) \/ SendEvent(c) \/ SendDone(c)

Next ==
  \/ StartRun \/ ResumeRun \/ Stop \/ Close
  \/ \E t \in Tasks : TaskStep(t) \/ CatchCancel(t)
  \/ \E h \in Cancellers : CancelRun(h) \/ CancelStep(h)
  \/ \E c \in Clients : Connect(c) \/ StreamStep(c) \/ Ping(c) \/ Drop(c)

Spec == Init /\ [][Next]_vars

(* The event loop runs every ready task, and workflows end.                *)
FairSpec ==
  /\ Spec
  /\ \A t \in Tasks : WF_vars(TaskStep(t))
  /\ \A h \in Cancellers : WF_vars(CancelStep(h))
  /\ \A c \in Clients : WF_vars(StreamStep(c))

--------------------------------------------------------------------------------
(* Properties.                                                             *)

TypeOK ==
  /\ status \in Final \cup {"none", "running"}
  /\ task \in Tasks
  /\ tpc \in [Tasks -> Running \cup Ended \cup {"none"}]
  /\ asked \in [Tasks -> BOOLEAN]
  /\ stored \in 0 .. MaxEvents /\ agents \in 0 .. MaxAgent /\ saved \in BOOLEAN
  /\ feed \in (0 .. MaxEvents) \cup {Unnumbered}
  /\ queue \in Seq((0 .. stored - 1) \cup {Done, Unnumbered})
  /\ hpc \in [Cancellers -> {"idle", "waiting", "answered"}]
  /\ hTask \in [Cancellers -> Tasks]
  /\ cpc \in [Clients -> {"off", "open", "reading", "replaying", "live", "sending", "ending",
                          "closed"}]
  /\ lastId \in [Clients -> Nat \cup {NoId}] /\ after \in [Clients -> Nat \cup {NoId}]
  /\ todo \in [Clients -> Seq(Nat)]
  /\ hand \in [Clients -> Seq(Nat \cup {Done, Unnumbered})]
  /\ seen \in [Clients -> Seq(Nat)]
  /\ told \in [Clients -> Final \cup {"none", "running"}]
  /\ drops \in [Clients -> 0 .. MaxDrops]
  /\ app \in {"up", "stopping", "closed"}

(* A run nobody works on is not reported as running: whatever order tasks, *)
(* resumes and cancellations end in, the last of them settles the status   *)
(* (unless the server is being stopped).                                   *)
NobodyRunning ==
  /\ \A t \in Tasks : tpc[t] \notin Running
  /\ \A h \in Cancellers : hpc[h] # "waiting"
NoZombie == NobodyRunning /\ app = "up" => status # "running"

(* Nobody cancelled the run, and nobody resumed it: its only task is the   *)
(* one that feeds the queue, and its status is that task's.                *)
NobodyCancelled == \A h \in Cancellers : hpc[h] = "idle"
Undisturbed == task = 1 /\ NobodyCancelled

(* A client that stays connected receives the numbered events in order and *)
(* never twice.  (After a reconnection it may: what is still queued is replayed  *)
(* from the store and then sent once more.)                                *)
InOrder ==
  \A c \in Clients : drops[c] = 0 =>
    \A i, j \in DOMAIN seen[c] : i < j => seen[c][i] < seen[c][j]

(* A client that loses its connection and comes back with the id of its    *)
(* last event has received every numbered event when it is told that the   *)
(* run is done: what died on the wire is replayed from the store.  (Event 0*)
(* may be lost, since the config event takes its id, and so may every event*)
(* of an agent, which replay never finds.  A client that comes back without*)
(* an id, after a ping, is replayed nothing.  A shutdown may cancel the    *)
(* task between storing an event and queueing it.)                         *)
Received(c) == {seen[c][i] : i \in DOMAIN seen[c]}
NothingMissed ==
  \A c \in Clients :
    cpc[c] = "closed" /\ app = "up" /\ Undisturbed /\ (drops[c] = 0 \/ after[c] # NoId) =>
      1 .. stored - 1 \subseteq Received(c)

(* Together: what a client makes of a run from its stream is the run.      *)
StreamIsLog == InOrder /\ NothingMissed

(* The done event of an undisturbed run names a final status, unless the   *)
(* server is being stopped.                                                *)
DoneIsFinal ==
  app = "up" /\ Undisturbed => \A c \in Clients : told[c] # "running"

(* Together: no run is left running, and no client is told that it is.     *)
EndIsFinal == DoneIsFinal /\ NoZombie

(* "The store must not be closed while writes are in flight".              *)
ClosedQuietly == app = "closed" => \A t \in Tasks : tpc[t] \notin Running

(* An interrupted run, one that returned and left a checkpoint, can be     *)
(* resumed.                                                                *)
InterruptedCanResume == saved /\ NobodyRunning => Resumable

(* A stream that is live while the end of the run is still to come or to be*)
(* taken from the queue ends, since every run does (one that is cancelled  *)
(* before its first step leaves no end mark).  The mark is there once: a   *)
(* client that comes back after it died with a connection is only pinged.  *)
EndToCome ==
  \/ \E t \in Tasks : tpc[t] \in Running
  \/ \E i \in DOMAIN queue : queue[i] = Done
StreamEnds ==
  \A c \in Clients :
    [](cpc[c] = "live" /\ EndToCome =>
         <>(cpc[c] \in {"closed", "off"} \/ app # "up" \/ ~NobodyCancelled))
================================================================================
