----------------------------- MODULE ProviderFailover --------------------------
(***************************************************************************)
(* A chain of LLM providers, each behind a circuit breaker                 *)
(* (providers/failover.py, security/circuit_breaker.py), used by           *)
(* concurrent requests.  The breaker's lock is held over no await and is   *)
(* never contended, so the steps between two provider calls are atomic.    *)
(* Two counters of the code grow without bound and are kept only as far as *)
(* they are compared: the failures of a breaker up to the threshold, and   *)
(* the time since its last failure up to the reset timeout.                *)
(***************************************************************************)
EXTENDS Integers, Sequences, FiniteSets, FiniteSetsExt

CONSTANTS
  Requests,      \* concurrent callers, each of which calls again and again
  N,             \* providers 1 .. N, in priority order
  Threshold,     \* failure_threshold
  ResetTimeout   \* reset_timeout, in ticks

ASSUME FailoverAssumption ==
  /\ N \in Nat \ {0} /\ Threshold \in Nat \ {0} /\ ResetTimeout \in Nat \ {0}

Providers  == 1 .. N
States     == {"closed", "open", "half_open"}
Categories == {"retryable", "terminal", "model_mismatch"}   \* classify_error

VARIABLES
  brk,       \* brk[i]: the breaker of provider i
  healthy,   \* healthy[i]: the provider answers
  pc,        \* pc[r]: "idle" or "calling"
  at,        \* at[r]: the provider that request r is calling
  probe,     \* probe[r]: its breaker was half-open when it let r through
  recent     \* recent[i]: the last Threshold outcomes recorded for provider i

vars == <<brk, healthy, pc, at, probe, recent>>

Breaker == [state : States, failures : 0 .. Threshold, age : 0 .. ResetTimeout]
Closed == [state |-> "closed", failures |-> 0, age |-> ResetTimeout]

Init ==
  /\ brk = [i \in Providers |-> Closed]
  /\ healthy = [i \in Providers |-> TRUE]
  /\ pc = [r \in Requests |-> "idle"]
  /\ at = [r \in Requests |-> 1]
  /\ probe = [r \in Requests |-> FALSE]
  /\ recent = [i \in Providers |-> << >>]

--------------------------------------------------------------------------------
(* AsyncCircuitBreaker: what each method does to a breaker b.              *)

Least(x, y) == IF x < y THEN x ELSE y

Allows(b) == b.state = "open" => b.age >= ResetTimeout

Slip_Allowed(b) == b
Allowed(b) ==
  IF b.state = "open" THEN [state |-> "half_open", failures |-> b.failures, age |-> b.age] ELSE b

Succeeded(b) ==
  IF b.state = "half_open" THEN [state |-> "closed", failures |-> 0, age |-> b.age] ELSE b

Slip_Failed(b) ==
  LET n == Least(b.failures + 1, Threshold)
  IN  [state    |-> IF b.state = "closed" /\ n >= Threshold THEN "open" ELSE b.state,
       failures |-> n,
       age      |-> 0]
Failed(b) ==
  LET n == Least(b.failures + 1, Threshold)
  IN  [state    |-> IF b.state = "half_open" \/ n >= Threshold THEN "open" ELSE b.state,
       failures |-> n,
       age      |-> 0]

--------------------------------------------------------------------------------
(* ProviderFailover.complete.                                              *)

(* What is remembered of the outcomes of a provider, and of provider i.    *)
Recalled(s, outcome) ==
  IF Len(s) < Threshold THEN Append(s, outcome) ELSE Tail(Append(s, outcome))
Recall(i, outcome) == [recent EXCEPT ![i] = Recalled(@, outcome)]

(* From provider first on, call the next one whose breaker allows it; the  *)
(* breakers are in the states bs.                                          *)
Advance(r, first, bs) ==
  LET Open == {i \in first .. N : Allows(bs[i])}
      i    == Min(Open)
  IN  IF Open = {}
      THEN /\ pc' = [pc EXCEPT ![r] = "idle"]      \* AllProvidersUnavailableError
           /\ brk' = bs
           /\ UNCHANGED <<at, probe>>
      ELSE /\ pc' = [pc EXCEPT ![r] = "calling"]
           /\ at' = [at EXCEPT ![r] = i]
           /\ brk' = [bs EXCEPT ![i] = Allowed(@)]
           /\ probe' = [probe EXCEPT ![r] = Allowed(bs[i]).state = "half_open"]

Complete(r) ==
  /\ pc[r] = "idle"
  /\ Advance(r, 1, brk)
  /\ UNCHANGED <<healthy, recent>>

ProviderReturns(r) ==
  /\ pc[r] = "calling" /\ healthy[at[r]]
  /\ brk' = [brk EXCEPT ![at[r]] = Succeeded(@)]
  /\ recent' = Recall(at[r], "success")
  /\ pc' = [pc EXCEPT ![r] = "idle"]
  /\ UNCHANGED <<healthy, at, probe>>

(* Every error counts against the provider, also one that is about the     *)
(* request; only a retryable one goes on to the next provider.             *)
ProviderRaises(r, category) ==
  LET bs == [brk EXCEPT ![at[r]] = Failed(@)]
  IN  /\ pc[r] = "calling" /\ ~healthy[at[r]]
      /\ recent' = Recall(at[r], "failure")
      /\ IF category = "retryable"
         THEN Advance(r, at[r] + 1, bs)
         ELSE pc' = [pc EXCEPT ![r] = "idle"] /\ brk' = bs /\ UNCHANGED <<at, probe>>
      /\ UNCHANGED healthy

(* CancelledError is not an Exception: neither outcome is recorded.        *)
CancelRequest(r) ==
  /\ pc[r] = "calling"
  /\ pc' = [pc EXCEPT ![r] = "idle"]
  /\ UNCHANGED <<brk, healthy, at, probe, recent>>

(* AsyncCircuitBreaker.reset, called by an operator.                       *)
Reset(i) ==
  /\ brk[i] # Closed
  /\ brk' = [brk EXCEPT ![i] = Closed]
  /\ recent' = [recent EXCEPT ![i] = << >>]
  /\ UNCHANGED <<healthy, pc, at, probe>>

(* Time passes, and providers come and go.                                 *)
Aged(b) == [state |-> b.state, failures |-> b.failures, age |-> Least(b.age + 1, ResetTimeout)]
Tick ==
  /\ \E i \in Providers : brk[i].age < ResetTimeout
  /\ brk' = [i \in Providers |-> Aged(brk[i])]
  /\ UNCHANGED <<healthy, pc, at, probe, recent>>

HealthChanges(i) ==
  /\ healthy' = [healthy EXCEPT ![i] = ~@]
  /\ UNCHANGED <<brk, pc, at, probe, recent>>

Answer(r) == ProviderReturns(r) \/ \E c \in Categories : ProviderRaises(r, c)

Next ==
  \/ \E r \in Requests : Complete(r) \/ Answer(r) \/ CancelRequest(r)
  \/ \E i \in Providers : Reset(i) \/ HealthChanges(i)
  \/ Tick

Spec == Init /\ [][Next]_vars

(* Requests keep coming, calls end, not every call is cancelled and time   *)
(* passes.                                                                 *)
FairSpec ==
  /\ Spec
  /\ \A r \in Requests : WF_vars(Complete(r)) /\ SF_vars(Answer(r))
  /\ WF_vars(Tick)

--------------------------------------------------------------------------------
(* Properties.                                                             *)

TypeOK ==
  /\ brk \in [Providers -> Breaker]
  /\ healthy \in [Providers -> BOOLEAN]
  /\ pc \in [Requests -> {"idle", "calling"}]
  /\ at \in [Requests -> Providers]
  /\ probe \in [Requests -> BOOLEAN]
  /\ recent \in [Providers -> Seq({"success", "failure"})]
  /\ \A i \in Providers : Len(recent[i]) <= Threshold

Ailing(i) ==
  /\ Len(recent[i]) = Threshold
  /\ \A k \in 1 .. Threshold : recent[i][k] = "failure"
  /\ brk[i].age < ResetTimeout

(* A provider whose last Threshold outcomes are failures, the last of them *)
(* less than the reset timeout ago, is left alone: no late answer, probe,  *)
(* cancellation or second request makes a breaker let a call through.      *)
LeftAlone(i) == \A r \in Requests : ~(pc'[r] = "calling" /\ at'[r] = i /\ (pc[r] = "idle" \/ at[r] # i))
FailingProviderRests == [][\A i \in Providers : Ailing(i) => LeftAlone(i)]_vars

(* A breaker comes back: once the first provider is and stays healthy, its *)
(* breaker closes and stays closed, however many probes were cancelled.    *)
Recovers == <>[]healthy[1] => <>[](brk[1].state = "closed")

(* "A single request is allowed through" while the breaker is half-open.   *)
OneProbe ==
  \A i \in Providers :
    Cardinality({r \in Requests : pc[r] = "calling" /\ at[r] = i /\ probe[r]}) <= 1

(* "Number of consecutive failures before opening".                        *)
OpensOnConsecutive ==
  [][\A i \in Providers :
       brk[i].state = "closed" /\ brk'[i].state = "open" =>
         \A k \in 1 .. Threshold : recent'[i][k] = "failure"]_vars
================================================================================
