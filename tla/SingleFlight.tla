------------------------------ MODULE SingleFlight ----------------------------
(***************************************************************************)
(* Coalescing of concurrent calls for one key (memory/singleflight.py).    *)
(* The first caller leads: it executes the function and resolves a future  *)
(* that later callers await.  Awaiting a future directly ties it to the    *)
(* awaiting task: cancelling the task cancels the future.                  *)
(***************************************************************************)
EXTENDS Integers, FiniteSets

CONSTANTS
  Callers,
  LastFlight,   \* bound: futures created
  Cancels       \* which callers may be cancelled: {"leading", "waiting"} or less

ASSUME SingleFlightAssumption == LastFlight \in Nat /\ Cancels \subseteq {"leading", "waiting"}

Flights == 1 .. LastFlight

VARIABLES
  inflight,   \* the future in _inflight[key], 0 when there is none
  future,     \* future[f]: its state
  flights,    \* futures created so far
  pc,         \* pc[c]: where caller c is, or how its last call ended
  mine        \* mine[c]: the future it leads or awaits

vars == <<inflight, future, flights, pc, mine>>

Ended == {"returned", "raised", "cancelled", "dropped", "internal_error"}

Init ==
  /\ inflight = 0 /\ flights = 0
  /\ future = [f \in Flights |-> "none"]
  /\ pc = [c \in Callers |-> "idle"] /\ mine = [c \in Callers |-> 0]

Free(c) == pc[c] \in Ended \cup {"idle"}

Vacant == inflight = 0
Lead(c) ==
  /\ Free(c) /\ Vacant /\ flights < LastFlight
  /\ flights' = flights + 1
  /\ inflight' = flights + 1
  /\ future' = [future EXCEPT ![flights + 1] = "pending"]
  /\ pc' = [pc EXCEPT ![c] = "leading"] /\ mine' = [mine EXCEPT ![c] = flights + 1]

Wait(c) ==
  /\ Free(c) /\ ~Vacant
  /\ pc' = [pc EXCEPT ![c] = "waiting"] /\ mine' = [mine EXCEPT ![c] = inflight]
  /\ UNCHANGED <<inflight, future, flights>>

(* The finally clause.                                                     *)
Slip_Land(c) == inflight
Land(c) == IF inflight = mine[c] THEN 0 ELSE inflight

(* fn ends with outcome "value" or "error".  A future that a waiter has    *)
(* cancelled accepts neither: set_exception raises InvalidStateError.      *)
FetchEnds(c, outcome) ==
  /\ pc[c] = "leading"
  /\ inflight' = Land(c)
  /\ IF future[mine[c]] = "pending"
     THEN /\ future' = [future EXCEPT ![mine[c]] = outcome]
          /\ pc' = [pc EXCEPT ![c] = IF outcome = "value" THEN "returned" ELSE "raised"]
     ELSE /\ pc' = [pc EXCEPT ![c] = "internal_error"]
          /\ UNCHANGED future
  /\ UNCHANGED <<flights, mine>>

Slip_Awake(c) == future[mine[c]] = "value"
Awake(c) == future[mine[c]] # "pending"
Wake(c) ==
  /\ pc[c] = "waiting" /\ Awake(c)
  /\ pc' = [pc EXCEPT ![c] = CASE future[mine[c]] = "value" -> "returned"
                               [] future[mine[c]] = "error" -> "raised"
                               [] OTHER -> "dropped"]
  /\ UNCHANGED <<inflight, future, flights, mine>>

(* CancelledError is not an Exception: the future stays as it is.          *)
CancelLeader(c) ==
  /\ pc[c] = "leading" /\ "leading" \in Cancels
  /\ inflight' = Land(c)
  /\ pc' = [pc EXCEPT ![c] = "cancelled"]
  /\ UNCHANGED <<future, flights, mine>>

CancelWaiter(c) ==
  /\ pc[c] = "waiting" /\ "waiting" \in Cancels
  /\ future' = [future EXCEPT ![mine[c]] = IF @ = "pending" THEN "cancelled" ELSE @]
  /\ pc' = [pc EXCEPT ![c] = "cancelled"]
  /\ UNCHANGED <<inflight, flights, mine>>

CallEnds(c) == Wake(c) \/ \E outcome \in {"value", "error"} : FetchEnds(c, outcome)

Next ==
  \E c \in Callers : Lead(c) \/ Wait(c) \/ CallEnds(c) \/ CancelLeader(c) \/ CancelWaiter(c)

Spec == Init /\ [][Next]_vars

(* Functions return, and the event loop runs the callers.                  *)
Fairness == \A c \in Callers : WF_vars(CallEnds(c))
FairSpec == Spec /\ Fairness

--------------------------------------------------------------------------------
(* Properties.                                                             *)

(* The function is executed once at a time, whoever is cancelled.          *)
OneFetch == Cardinality({c \in Callers : pc[c] = "leading"}) <= 1

(* A call is never answered with a result that was there before it: it     *)
(* joins a fetch that is still going on.                                   *)
JoinsOngoing ==
  [][\A c \in Callers :
       Free(c) /\ pc'[c] = "waiting" => \E d \in Callers : pc[d] = "leading" /\ mine[d] = mine'[c]]_vars

(* Together: whatever is cancelled, the key has one fetch at a time, and   *)
(* whoever waits, waits for it.                                            *)
FetchesOnce == []OneFetch /\ JoinsOngoing

(* "Return the result to all callers": every call ends.                    *)
Answered == \A c \in Callers : pc[c] = "waiting" ~> pc[c] # "waiting"

(* Every call ends, whichever waiters are cancelled and whatever fn does,  *)
(* unless its own leader was cancelled.                                    *)
Abandoned(f) ==
  future[f] = "pending" /\ ~\E c \in Callers : pc[c] = "leading" /\ mine[c] = f
AnsweredUnlessAbandoned ==
  \A c \in Callers : pc[c] = "waiting" ~> (pc[c] # "waiting" \/ Abandoned(mine[c]))

(* A caller that nobody cancelled gets the result or the error of fn.      *)
ResultForAll == \A c \in Callers : pc[c] \notin {"dropped", "internal_error"}
================================================================================
