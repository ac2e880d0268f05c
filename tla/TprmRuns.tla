------------------------------- MODULE TprmRuns -------------------------------
(***************************************************************************)
(* The assessment service (orchestra_tprm/server/app.py): a registry of    *)
(* runs with eviction, one task per run that executes the graph beside a   *)
(* poll of its progress, and event streams that share the queue of a run.  *)
(* The assessment itself is TprmAssessment; here it completes nodes and    *)
(* then succeeds or fails.                                                 *)
(***************************************************************************)
EXTENDS Integers, Sequences, FiniteSets

CONSTANTS
  Clients,
  LastRun,     \* bound: runs started
  MaxRuns,     \* _MAX_RUNS
  Steps        \* nodes of the graph that its main loop executes

TprmAssumption == LastRun \in Nat /\ MaxRuns \in Nat \ {0} /\ Steps \in Nat

Runs == 1 .. LastRun      \* numbered as they were created

VARIABLES
  started,    \* runs created so far
  listed,     \* the keys of _runs
  expired,    \* runs older than _RUN_TTL_SEC
  status,     \* status[r] as _runs has it (or had it when it was evicted)
  task,       \* task[r]: "none", "created", "polling", "ended"
  graph,      \* graph[r]: [done, result], nodes completed and how it ended
  shown,      \* shown[r]: nodes already reported
  emitted,    \* emitted[r]: everything put on the queue of r
  taken,      \* taken[r]: how many of these have been taken off
  stream      \* stream[c]: [run, got, state], the events a client got (bound: one stream each)

rVars == <<started, listed, expired, status, task, graph, shown, emitted, taken, stream>>

End == "sentinel"
NoStream == [run |-> 0, got |-> 0, state |-> "unused"]

Init ==
  /\ started = 0 /\ listed = {} /\ expired = {}
  /\ status = [r \in Runs |-> "none"] /\ task = [r \in Runs |-> "none"]
  /\ graph = [r \in Runs |-> [done |-> 0, result |-> "none"]]
  /\ shown = [r \in Runs |-> 0] /\ emitted = [r \in Runs |-> <<>>] /\ taken = [r \in Runs |-> 0]
  /\ stream = [c \in Clients |-> NoStream]

Over == {"done", "error"}

(* The oldest stale runs go, as many as the slice takes.                   *)
IsStale(r) == r \in expired \/ status[r] \in Over
Oldest(S, n) == {r \in S : Cardinality({q \in S : q <= r}) <= n}
Slip_Evicted == Oldest(listed, Cardinality(listed) - MaxRuns + 1)
Evicted ==
  LET stale == {r \in listed : IsStale(r)}
  IN  Oldest(stale, Cardinality(listed) - MaxRuns + Cardinality(stale))

StartRun ==
  /\ started < LastRun
  /\ LET r == started + 1
     IN  /\ started' = r
         /\ listed' = (listed \ Evicted) \cup {r}
         /\ status' = [status EXCEPT ![r] = "accepted"]
         /\ task' = [task EXCEPT ![r] = "created"]
  /\ UNCHANGED <<expired, graph, shown, emitted, taken, stream>>

(* An hour passes for the oldest run that has not expired.                 *)
Expire ==
  /\ \E r \in 1 .. started :
       /\ r \notin expired /\ 1 .. (r - 1) \subseteq expired
       /\ expired' = expired \cup {r}
  /\ UNCHANGED <<started, listed, status, task, graph, shown, emitted, taken, stream>>

(* The task ends: the status is written, which raises when the entry is    *)
(* gone, again in the except clause; the finally clause runs in any case.  *)
Closing(r) == <<"done", End>>
Concludes(r, before, outcome, event) ==
  /\ task' = [task EXCEPT ![r] = "ended"]
  /\ status' = IF r \in listed THEN [status EXCEPT ![r] = outcome] ELSE status
  /\ emitted' = [emitted EXCEPT ![r] =
                   @ \o before \o (IF r \in listed THEN <<event>> ELSE <<>>) \o Closing(r)]

(* Configuration, provider and graph are built without a pause, or fail.   *)
Begin(r) ==
  /\ task[r] = "created"
  /\ \/ /\ r \in listed
        /\ task' = [task EXCEPT ![r] = "polling"]
        /\ status' = [status EXCEPT ![r] = "running"]
        /\ emitted' = [emitted EXCEPT ![r] = <<"started">>]
     \/ Concludes(r, <<"started">>, "error", "error")
  /\ UNCHANGED <<started, listed, expired, graph, shown, taken, stream>>

(* The graph runs in a task of its own, which an eviction does not stop.   *)
NodeDone(r) ==
  /\ task[r] = "polling" /\ graph[r].result = "none" /\ graph[r].done < Steps
  /\ graph' = [graph EXCEPT ![r] = [done |-> @.done + 1, result |-> "none"]]
  /\ UNCHANGED <<started, listed, expired, status, task, shown, emitted, taken, stream>>
GraphEnds(r) ==
  /\ task[r] = "polling" /\ graph[r].result = "none"
  /\ \E result \in {"raised"} \cup (IF graph[r].done = Steps THEN {"returned"} ELSE {}) :
       graph' = [graph EXCEPT ![r] = [done |-> @.done, result |-> result]]
  /\ UNCHANGED <<started, listed, expired, status, task, shown, emitted, taken, stream>>

Slip_Unreported(r) == IF graph[r].result = "none"
                      THEN [n \in 1 .. (graph[r].done - shown[r]) |-> "node_done"] ELSE <<>>
Unreported(r) == [n \in 1 .. (graph[r].done - shown[r]) |-> "node_done"]

(* The poll wakes: new nodes are reported; a graph that has ended is       *)
(* awaited, its remaining nodes flushed and its result told.               *)
Poll(r) ==
  /\ task[r] = "polling"
  /\ shown' = [shown EXCEPT ![r] = graph[r].done]
  /\ \/ /\ graph[r].result = "none" /\ Unreported(r) # <<>>
        /\ emitted' = [emitted EXCEPT ![r] = @ \o Unreported(r)]
        /\ UNCHANGED <<task, status>>
     \/ graph[r].result = "returned" /\ Concludes(r, Unreported(r), "done", "verdict")
     \/ graph[r].result = "raised" /\ Concludes(r, Unreported(r), "error", "error")
  /\ UNCHANGED <<started, listed, expired, graph, taken, stream>>

(***************************************************************************)
(* Event streams                                                           *)
(***************************************************************************)
Moves(c, got, state) ==
  stream' = [stream EXCEPT ![c] = [run |-> @.run, got |-> got, state |-> state]]
Open(c) ==
  /\ stream[c].state = "unused"
  /\ \E r \in listed : stream' = [stream EXCEPT ![c] = [run |-> r, got |-> 0, state |-> "open"]]
  /\ UNCHANGED <<started, listed, expired, status, task, graph, shown, emitted, taken>>

(* A queued event goes to whichever stream asks first.                     *)
Take(c) ==
  LET r == stream[c].run IN
  /\ stream[c].state = "open" /\ taken[r] < Len(emitted[r])
  /\ taken' = [taken EXCEPT ![r] = @ + 1]
  /\ IF emitted[r][taken[r] + 1] = End
     THEN Moves(c, stream[c].got, "finished")
     ELSE Moves(c, stream[c].got + 1, "open")
  /\ UNCHANGED <<started, listed, expired, status, task, graph, shown, emitted>>

(* Fifteen minutes have passed (the stream then says error and done of its *)
(* own accord), or the client goes away.                                   *)
Slip_Late(c) == taken[stream[c].run] < Len(emitted[stream[c].run])
Late(c) == TRUE
Closes(c, how) ==
  /\ stream[c].state = "open"
  /\ Moves(c, stream[c].got, how)
  /\ UNCHANGED <<started, listed, expired, status, task, graph, shown, emitted, taken>>
Deadline(c) == Closes(c, "cut") /\ Late(c)
Leave(c) == Closes(c, "left")

Next ==
  \/ StartRun \/ Expire
  \/ \E r \in Runs : Begin(r) \/ NodeDone(r) \/ GraphEnds(r) \/ Poll(r)
  \/ \E c \in Clients : Open(c) \/ Take(c) \/ Deadline(c) \/ Leave(c)

Spec == Init /\ [][Next]_rVars
(* Tasks are scheduled, nodes end, and the clock reaches every deadline.   *)
Fairness ==
  /\ \A r \in Runs : WF_rVars(Begin(r) \/ Poll(r)) /\ WF_rVars(NodeDone(r) \/ GraphEnds(r))
  /\ \A c \in Clients : WF_rVars(Take(c)) /\ WF_rVars(Deadline(c))

-----------------------------------------------------------------------------
(* A task that ended closed its stream once, after one conclusion, and     *)
(* after reporting each completed node; only a run that was evicted while  *)
(* it ran ends without telling its verdict or its error.                   *)
Count(s, e) == Cardinality({i \in DOMAIN s : s[i] = e})
Conclusions(r) == Count(emitted[r], "verdict") + Count(emitted[r], "error")
TaskConcludes ==
  \A r \in Runs : task[r] = "ended" =>
    /\ Len(emitted[r]) >= 2 /\ SubSeq(emitted[r], Len(emitted[r]) - 1, Len(emitted[r])) = <<"done", End>>
    /\ Count(emitted[r], End) = 1 /\ Conclusions(r) <= 1
    /\ status[r] \in Over <=> Conclusions(r) = 1
    /\ Count(emitted[r], "verdict") = 1 => Count(emitted[r], "node_done") = Steps

(* A client that was the only one to follow a run to the end was sent all  *)
(* of its events.                                                          *)
LoneClientKnows ==
  \A c \in Clients : LET r == stream[c].run IN
    stream[c].state = "finished" /\ (\A d \in Clients \ {c} : stream[d].run # r)
      => stream[c].got = Len(emitted[r]) - 1

(* A run tells its conclusion once, and who listens hears it (the task and *)
(* the event stream of server/app.py).                                     *)
Concluded == TaskConcludes /\ LoneClientKnows

(* Starting a run takes out no run that is neither over nor expired, and   *)
(* keeps the registry within its limit unless all its runs are live.       *)
Evicts ==
  started' # started =>
    /\ \A r \in listed \ listed' : IsStale(r)
    /\ Cardinality(listed') <= MaxRuns \/ \A r \in listed' : ~IsStale(r)
EvictionSpares == [][Evicts]_rVars

(* No stream stays open for ever, a second one of a run included: the end  *)
(* mark closes only the stream that takes it.                              *)
StreamCloses == \A c \in Clients : stream[c].state = "open" ~> stream[c].state # "open"
=============================================================================
