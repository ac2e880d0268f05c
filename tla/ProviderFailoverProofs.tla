------------------------- MODULE ProviderFailoverProofs ------------------------
(***************************************************************************)
(* A provider that keeps failing is left alone, for any number of          *)
(* providers and concurrent requests, any threshold and any timeout.       *)
(***************************************************************************)
EXTENDS ProviderFailover, WellFoundedInduction, TLAPS

--------------------------------------------------------------------------------
(* The chain takes the first provider that is allowed.                     *)

(* Numbers are well-founded, so that a set of them has a least one.        *)
LEMMA LeastElement ==
  ASSUME NEW S \in SUBSET Nat, S # {}
  PROVE  Min(S) \in S
<1>1. OpToRel(<, Nat) = {ss \in Nat \X Nat : ss[1] < ss[2]}
  BY Zenon DEF OpToRel
<1>2. IsWellFoundedOn({ss \in Nat \X Nat : ss[1] < ss[2]}, Nat)
  BY <1>1, NatLessThanWellFounded, Zenon
<1>3. \E x \in S : \A y \in S : ~(<<y, x>> \in {ss \in Nat \X Nat : ss[1] < ss[2]})
  <2> DEFINE R == {ss \in Nat \X Nat : ss[1] < ss[2]}
  <2> HIDE DEF R
  <2> QED BY <1>2, WFMin DEF R
<1>4. \E x \in S : \A y \in S : x <= y
  <2>1. PICK x \in S : \A y \in S : ~(<<y, x>> \in {ss \in Nat \X Nat : ss[1] < ss[2]})
    BY <1>3
  <2>2. ASSUME NEW y \in S PROVE x <= y
    <3>1. x \in Nat /\ y \in Nat
      OBVIOUS
    <3>2. <<y, x>> \in Nat \X Nat
      BY <3>1
    <3>3. ~(y < x)
      BY <2>1, <3>2
    <3> QED BY <3>1, <3>3
  <2> QED BY <2>2
<1> QED BY <1>4 DEF Min

(* A request that goes on calls a provider that its breaker allows, or     *)
(* none: no other breaker changes.                                         *)
LEMMA AdvanceCalls ==
  ASSUME NEW r \in Requests, NEW first \in Nat \ {0}, NEW bs \in [Providers -> Breaker],
         Advance(r, first, bs)
  PROVE  \/ /\ pc' = [pc EXCEPT ![r] = "idle"] /\ brk' = bs
            /\ at' = at /\ probe' = probe
         \/ \E i \in Providers :
              /\ i >= first /\ Allows(bs[i])
              /\ pc' = [pc EXCEPT ![r] = "calling"] /\ at' = [at EXCEPT ![r] = i]
              /\ brk' = [bs EXCEPT ![i] = Allowed(bs[i])]
              /\ probe' = [probe EXCEPT ![r] = Allowed(bs[i]).state = "half_open"]
<1> DEFINE Open == {i \in first .. N : Allows(bs[i])}
           i == Min(Open)
<1>1. CASE Open = {}
  BY <1>1 DEF Advance
<1>2. CASE Open # {}
  <2>1. Open \subseteq Nat
    BY FailoverAssumption
  <2>2. i \in Open
    BY <1>2, <2>1, LeastElement
  <2>3. i \in Providers /\ i >= first /\ Allows(bs[i])
    BY <2>2, FailoverAssumption DEF Providers
  <2>4. /\ pc' = [pc EXCEPT ![r] = "calling"] /\ at' = [at EXCEPT ![r] = i]
        /\ brk' = [bs EXCEPT ![i] = Allowed(bs[i])]
        /\ probe' = [probe EXCEPT ![r] = Allowed(bs[i]).state = "half_open"]
    BY <1>2 DEF Advance
  <2> QED BY <2>3, <2>4
<1> QED BY <1>1, <1>2

--------------------------------------------------------------------------------
(* Breakers and outcomes keep their types.                                 *)

LEMMA BreakerTypes ==
  ASSUME NEW b \in Breaker
  PROVE  Allowed(b) \in Breaker /\ Succeeded(b) \in Breaker /\ Failed(b) \in Breaker
<1>1. b.state \in States /\ b.failures \in 0 .. Threshold /\ b.age \in 0 .. ResetTimeout
  BY DEF Breaker
<1>2. Allowed(b) \in Breaker /\ Succeeded(b) \in Breaker
  BY <1>1, FailoverAssumption DEF Allowed, Succeeded, Breaker, States
<1>3. Least(b.failures + 1, Threshold) \in 0 .. Threshold
  BY <1>1, FailoverAssumption DEF Least
<1>4. Failed(b) \in Breaker
  BY <1>1, <1>3, FailoverAssumption DEF Failed, Breaker, States
<1> QED BY <1>2, <1>4

(* Outcomes of a provider: the last Threshold of them.                     *)
Outcomes == {s \in Seq({"success", "failure"}) : Len(s) <= Threshold}

LEMMA RecalledType ==
  ASSUME NEW s \in Outcomes, NEW o \in {"success", "failure"}
  PROVE  Recalled(s, o) \in Outcomes
<1>1. Append(s, o) \in Seq({"success", "failure"}) /\ Len(Append(s, o)) = Len(s) + 1
  BY DEF Outcomes
<1>2. Len(s) \in Nat /\ Len(s) <= Threshold
  BY DEF Outcomes
<1>3. Tail(Append(s, o)) \in Seq({"success", "failure"}) /\ Len(Tail(Append(s, o))) = Len(s)
  BY <1>1, <1>2
<1> QED BY <1>1, <1>2, <1>3, FailoverAssumption DEF Recalled, Outcomes

Types ==
  /\ brk \in [Providers -> Breaker] /\ recent \in [Providers -> Outcomes]
  /\ pc \in [Requests -> {"idle", "calling"}] /\ at \in [Requests -> Providers]

LEMMA InitTypes == Init => Types
<1> SUFFICES ASSUME Init PROVE Types
  OBVIOUS
<1>1. Closed \in Breaker
  BY FailoverAssumption DEF Closed, Breaker, States
<1>2. << >> \in Outcomes
  BY FailoverAssumption DEF Outcomes
<1>3. 1 \in Providers
  BY FailoverAssumption DEF Providers
<1> QED BY <1>1, <1>2, <1>3 DEF Init, Types

(* What ProviderRaises makes of the breakers before it goes on.            *)
LEMMA RaisedTypes ==
  ASSUME Types, NEW r \in Requests
  PROVE  [brk EXCEPT ![at[r]] = Failed(@)] \in [Providers -> Breaker]
<1>1. at[r] \in Providers /\ brk[at[r]] \in Breaker
  BY DEF Types
<1>2. Failed(brk[at[r]]) \in Breaker
  BY <1>1, BreakerTypes
<1> QED BY <1>1, <1>2 DEF Types

LEMMA AdvanceTypes ==
  ASSUME Types, NEW r \in Requests, NEW first \in Nat \ {0},
         NEW bs \in [Providers -> Breaker], Advance(r, first, bs)
  PROVE  /\ brk' \in [Providers -> Breaker]
         /\ pc' \in [Requests -> {"idle", "calling"}] /\ at' \in [Requests -> Providers]
<1>1. CASE pc' = [pc EXCEPT ![r] = "idle"] /\ brk' = bs /\ at' = at
  BY <1>1 DEF Types
<1>2. ASSUME NEW i \in Providers,
             pc' = [pc EXCEPT ![r] = "calling"], at' = [at EXCEPT ![r] = i],
             brk' = [bs EXCEPT ![i] = Allowed(bs[i])]
      PROVE  /\ brk' \in [Providers -> Breaker]
             /\ pc' \in [Requests -> {"idle", "calling"}] /\ at' \in [Requests -> Providers]
  <2>1. bs[i] \in Breaker
    OBVIOUS
  <2>2. Allowed(bs[i]) \in Breaker
    BY <2>1, BreakerTypes
  <2> QED BY <1>2, <2>2 DEF Types
<1> QED BY <1>1, <1>2, AdvanceCalls

LEMMA RecallTypes ==
  ASSUME Types, NEW i \in Providers, NEW o \in {"success", "failure"}
  PROVE  Recall(i, o) \in [Providers -> Outcomes]
<1>1. Recalled(recent[i], o) \in Outcomes
  BY RecalledType DEF Types
<1> QED BY <1>1 DEF Types, Recall

LEMMA StepTypes == ASSUME Types, [Next]_vars PROVE Types'
<1>1. CASE UNCHANGED vars
  BY <1>1 DEF vars, Types
<1>2. ASSUME NEW r \in Requests, Complete(r) PROVE Types'
  <2>1. Advance(r, 1, brk) /\ UNCHANGED recent
    BY <1>2 DEF Complete
  <2> QED BY <2>1, AdvanceTypes DEF Types
<1>3. ASSUME NEW r \in Requests, ProviderReturns(r) PROVE Types'
  <2>1. at[r] \in Providers /\ brk[at[r]] \in Breaker
    BY DEF Types
  <2>2. Succeeded(brk[at[r]]) \in Breaker
    BY <2>1, BreakerTypes
  <2>3. recent' \in [Providers -> Outcomes]
    BY <1>3, <2>1, RecallTypes DEF ProviderReturns
  <2> QED BY <1>3, <2>1, <2>2, <2>3 DEF ProviderReturns, Types
<1>4. ASSUME NEW r \in Requests, NEW c \in Categories, ProviderRaises(r, c) PROVE Types'
  <2>1. at[r] \in Providers /\ at[r] + 1 \in Nat \ {0}
    BY FailoverAssumption DEF Types, Providers
  <2>2. recent' \in [Providers -> Outcomes]
    BY <1>4, <2>1, RecallTypes DEF ProviderRaises
  <2>3. CASE c = "retryable"
    <3>1. Advance(r, at[r] + 1, [brk EXCEPT ![at[r]] = Failed(@)])
      BY <1>4, <2>3 DEF ProviderRaises
    <3> QED BY <2>1, <2>2, <3>1, RaisedTypes, AdvanceTypes DEF Types
  <2>4. CASE c # "retryable"
    <3>1. brk' = [brk EXCEPT ![at[r]] = Failed(@)] /\ pc' = [pc EXCEPT ![r] = "idle"] /\ at' = at
      BY <1>4, <2>4 DEF ProviderRaises
    <3> QED BY <2>2, <3>1, RaisedTypes DEF Types
  <2> QED BY <2>3, <2>4
<1>5. ASSUME NEW r \in Requests, CancelRequest(r) PROVE Types'
  BY <1>5 DEF CancelRequest, Types
<1>6. ASSUME NEW i \in Providers, Reset(i) PROVE Types'
  <2>1. Closed \in Breaker
    BY FailoverAssumption DEF Closed, Breaker, States
  <2>2. << >> \in Outcomes
    BY FailoverAssumption DEF Outcomes
  <2> QED BY <1>6, <2>1, <2>2 DEF Reset, Types
<1>7. ASSUME NEW i \in Providers, HealthChanges(i) PROVE Types'
  BY <1>7 DEF HealthChanges, Types
<1>8. CASE Tick
  <2>1. ASSUME NEW i \in Providers PROVE Aged(brk[i]) \in Breaker
    <3>1. brk[i] \in Breaker
      BY DEF Types
    <3>2. Least(brk[i].age + 1, ResetTimeout) \in 0 .. ResetTimeout
      BY <3>1, FailoverAssumption DEF Least, Breaker
    <3> QED BY <3>1, <3>2 DEF Aged, Breaker
  <2> QED BY <1>8, <2>1 DEF Tick, Types
<1> QED BY <1>1, <1>2, <1>3, <1>4, <1>5, <1>6, <1>7, <1>8 DEF Next, Answer

--------------------------------------------------------------------------------
(* A breaker knows of a streak of failures.                                *)

(* The last k outcomes of s are failures.                                  *)
FailsLast(s, k) == k <= Len(s) /\ \A j \in 1 .. Len(s) : j > Len(s) - k => s[j] = "failure"

(* A closed breaker has counted every failure of the streak, and so opens  *)
(* when it has Threshold of them; a half-open one with such a streak has   *)
(* waited for the timeout since the last.                                  *)
Counts(b, s) ==
  /\ b.state = "closed" => /\ b.failures < Threshold
                           /\ \A k \in 1 .. Threshold : FailsLast(s, k) => k <= b.failures
  /\ b.state = "half_open" /\ FailsLast(s, Threshold) => b.age = ResetTimeout

LEMMA StreakGrows ==
  ASSUME NEW s \in Outcomes, NEW o \in {"success", "failure"}, NEW k \in 1 .. Threshold,
         FailsLast(Recalled(s, o), k)
  PROVE  o = "failure" /\ FailsLast(s, k - 1)
<1> DEFINE t == Append(s, o)   u == Recalled(s, o)
<1>1. /\ s \in Seq({"success", "failure"}) /\ Len(s) \in Nat /\ Len(s) <= Threshold
      /\ k \in Nat /\ k >= 1 /\ Threshold \in Nat
  BY FailoverAssumption DEF Outcomes
<1>2. /\ t \in Seq({"success", "failure"}) /\ Len(t) = Len(s) + 1
      /\ t[Len(s) + 1] = o /\ \A j \in 1 .. Len(s) : t[j] = s[j]
  BY <1>1
<1>3. CASE Len(s) < Threshold
  <2>1. u = t
    BY <1>3 DEF Recalled
  <2>2. Len(s) + 1 \in 1 .. Len(t) /\ Len(s) + 1 > Len(t) - k
    BY <1>1, <1>2
  <2>3. o = "failure"
    BY <1>2, <2>1, <2>2 DEF FailsLast
  <2>4. k - 1 <= Len(s)
    BY <1>1, <1>2, <2>1 DEF FailsLast
  <2>5. ASSUME NEW j \in 1 .. Len(s), j > Len(s) - (k - 1) PROVE s[j] = "failure"
    <3>1. j \in 1 .. Len(t) /\ j > Len(t) - k
      BY <1>1, <1>2, <2>5
    <3> QED BY <1>2, <2>1, <3>1 DEF FailsLast
  <2> QED BY <2>3, <2>4, <2>5 DEF FailsLast
<1>4. CASE Len(s) = Threshold
  <2>1. u = Tail(t)
    BY <1>1, <1>4 DEF Recalled
  <2>2. t # << >>
    BY <1>1, <1>2
  <2>3. Len(u) = Len(s) /\ \A j \in 1 .. Len(s) : u[j] = t[j + 1]
    BY <1>1, <1>2, <2>1, <2>2
  <2>4. Len(s) \in 1 .. Len(u) /\ Len(s) > Len(u) - k
    BY <1>1, <1>4, <2>3
  <2>5. o = "failure"
    BY <1>2, <2>3, <2>4 DEF FailsLast
  <2>6. ASSUME NEW j \in 1 .. Len(s), j > Len(s) - (k - 1) PROVE s[j] = "failure"
    <3>1. j - 1 \in 1 .. Len(u) /\ j - 1 > Len(u) - k
      BY <1>1, <1>4, <2>3, <2>6
    <3>2. u[j - 1] = "failure"
      BY <3>1 DEF FailsLast
    <3> QED BY <1>1, <1>2, <2>3, <3>1, <3>2
  <2>7. k - 1 <= Len(s)
    BY <1>1, <1>4
  <2> QED BY <2>5, <2>6, <2>7 DEF FailsLast
<1> QED BY <1>1, <1>3, <1>4

LEMMA FailureCounts ==
  ASSUME NEW b \in Breaker, NEW s \in Outcomes, Counts(b, s)
  PROVE  Counts(Failed(b), Recalled(s, "failure"))
<1> DEFINE n == Least(b.failures + 1, Threshold)
<1>1. b.failures \in Nat /\ b.failures <= Threshold /\ Threshold \in Nat /\ Threshold >= 1
  BY FailoverAssumption DEF Breaker
<1>2. n \in Nat /\ (n < Threshold => n = b.failures + 1)
  BY <1>1 DEF Least
<1>3. ASSUME Failed(b).state = "closed"
      PROVE  /\ n < Threshold
             /\ \A k \in 1 .. Threshold : FailsLast(Recalled(s, "failure"), k) => k <= n
  <2>1. b.state = "closed" /\ n < Threshold
    BY <1>1, <1>2, <1>3 DEF Failed
  <2>2. ASSUME NEW k \in 1 .. Threshold, FailsLast(Recalled(s, "failure"), k) PROVE k <= n
    <3>1. FailsLast(s, k - 1)
      BY <2>2, StreakGrows
    <3>2. CASE k = 1
      BY <1>1, <1>2, <2>1, <3>2
    <3>3. CASE k # 1
      <4>1. k - 1 \in 1 .. Threshold
        BY <1>1, <3>3
      <4>2. k - 1 <= b.failures
        BY <2>1, <3>1, <4>1 DEF Counts
      <4> QED BY <1>1, <1>2, <2>1, <4>2
    <3> QED BY <3>2, <3>3
  <2> QED BY <2>1, <2>2
<1>4. Failed(b).state # "half_open"
  BY DEF Failed
<1>5. Failed(b).failures = n
  BY DEF Failed
<1> HIDE DEF n
<1> QED BY <1>3, <1>4, <1>5 DEF Counts

LEMMA SuccessCounts ==
  ASSUME NEW b \in Breaker, NEW s \in Outcomes, Counts(b, s)
  PROVE  Counts(Succeeded(b), Recalled(s, "success"))
<1>1. \A k \in 1 .. Threshold : ~FailsLast(Recalled(s, "success"), k)
  BY StreakGrows
<1>2. Threshold \in 1 .. Threshold /\ 0 < Threshold
  BY FailoverAssumption
<1>3. Succeeded(b).state = "closed" => Succeeded(b).failures < Threshold
  BY <1>2 DEF Succeeded, Counts
<1> QED BY <1>1, <1>2, <1>3 DEF Counts

LEMMA AllowedCounts ==
  ASSUME NEW b \in Breaker, NEW s \in Outcomes, Counts(b, s), Allows(b)
  PROVE  Counts(Allowed(b), s)
<1>1. b.state = "open" => b.age = ResetTimeout
  BY FailoverAssumption DEF Allows, Breaker
<1> QED BY <1>1 DEF Allowed, Counts

LEMMA AgedCounts ==
  ASSUME NEW b \in Breaker, NEW s \in Outcomes, Counts(b, s)
  PROVE  Counts(Aged(b), s)
<1>1. b.age = ResetTimeout => Least(b.age + 1, ResetTimeout) = ResetTimeout
  BY FailoverAssumption DEF Least
<1> QED BY <1>1 DEF Aged, Counts

LEMMA ClosedCounts == Counts(Closed, << >>)
<1>1. \A k \in 1 .. Threshold : ~FailsLast(<< >>, k)
  BY FailoverAssumption DEF FailsLast
<1> QED BY <1>1, FailoverAssumption DEF Counts, Closed

--------------------------------------------------------------------------------
(* The invariant.                                                          *)

AllCount(bs, rs) == \A i \in Providers : Counts(bs[i], rs[i])
IInv == Types /\ AllCount(brk, recent)

LEMMA InitCounts == Init => IInv
<1> SUFFICES ASSUME Init PROVE IInv
  OBVIOUS
<1>1. Types
  BY InitTypes
<1>2. ASSUME NEW i \in Providers PROVE Counts(brk[i], recent[i])
  BY ClosedCounts DEF Init
<1> QED BY <1>1, <1>2 DEF IInv, AllCount

(* A request that goes on disturbs no count.                               *)
LEMMA AdvanceCounts ==
  ASSUME Types, NEW r \in Requests, NEW first \in Nat \ {0},
         NEW bs \in [Providers -> Breaker], NEW rs \in [Providers -> Outcomes],
         AllCount(bs, rs), Advance(r, first, bs)
  PROVE  AllCount(brk', rs)
<1>1. CASE brk' = bs
  BY <1>1
<1>2. ASSUME NEW i \in Providers, Allows(bs[i]), brk' = [bs EXCEPT ![i] = Allowed(bs[i])]
      PROVE  AllCount(brk', rs)
  <2> SUFFICES ASSUME NEW j \in Providers PROVE Counts(brk'[j], rs[j])
    BY DEF AllCount
  <2>1. Counts(bs[j], rs[j]) /\ bs[i] \in Breaker /\ rs[i] \in Outcomes /\ Counts(bs[i], rs[i])
    BY DEF AllCount
  <2>2. Counts(Allowed(bs[i]), rs[i])
    BY <1>2, <2>1, AllowedCounts
  <2> QED BY <1>2, <2>1, <2>2
<1> QED BY <1>1, <1>2, AdvanceCalls

(* What ProviderRaises leaves counts, before it goes on.                   *)
LEMMA RaisedCounts ==
  ASSUME IInv, NEW i \in Providers
  PROVE  AllCount([brk EXCEPT ![i] = Failed(@)], Recall(i, "failure"))
<1> SUFFICES ASSUME NEW j \in Providers
             PROVE  Counts([brk EXCEPT ![i] = Failed(@)][j], Recall(i, "failure")[j])
  BY DEF AllCount
<1>1. /\ brk[i] \in Breaker /\ recent[i] \in Outcomes
      /\ Counts(brk[i], recent[i]) /\ Counts(brk[j], recent[j])
  BY DEF IInv, Types, AllCount
<1>2. Counts(Failed(brk[i]), Recalled(recent[i], "failure"))
  BY <1>1, FailureCounts
<1>3. [brk EXCEPT ![i] = Failed(@)][j] = IF j = i THEN Failed(brk[i]) ELSE brk[j]
  BY DEF IInv, Types
<1>4. Recall(i, "failure")[j] = IF j = i THEN Recalled(recent[i], "failure") ELSE recent[j]
  BY DEF IInv, Types, Recall
<1> QED BY <1>1, <1>2, <1>3, <1>4

LEMMA StepCounts == ASSUME IInv, [Next]_vars PROVE IInv'
<1>1. Types /\ Types' /\ AllCount(brk, recent)
  BY StepTypes DEF IInv
<1> SUFFICES AllCount(brk', recent')
  BY <1>1 DEF IInv, AllCount
<1>2. CASE UNCHANGED vars
  BY <1>1, <1>2 DEF vars
<1>3. ASSUME NEW r \in Requests, Complete(r) PROVE AllCount(brk', recent')
  <2>1. Advance(r, 1, brk) /\ recent' = recent
    BY <1>3 DEF Complete
  <2> QED BY <1>1, <2>1, AdvanceCounts DEF Types
<1>4. ASSUME NEW r \in Requests, ProviderReturns(r) PROVE AllCount(brk', recent')
  <2> SUFFICES ASSUME NEW j \in Providers PROVE Counts(brk'[j], recent'[j])
    BY DEF AllCount
  <2>1. /\ at[r] \in Providers /\ brk[at[r]] \in Breaker /\ recent[at[r]] \in Outcomes
        /\ Counts(brk[at[r]], recent[at[r]]) /\ Counts(brk[j], recent[j])
    BY <1>1 DEF Types, AllCount
  <2>2. Counts(Succeeded(brk[at[r]]), Recalled(recent[at[r]], "success"))
    BY <2>1, SuccessCounts
  <2>3. brk'[j] = IF j = at[r] THEN Succeeded(brk[at[r]]) ELSE brk[j]
    BY <1>1, <1>4, <2>1 DEF ProviderReturns, Types
  <2>4. recent'[j] = IF j = at[r] THEN Recalled(recent[at[r]], "success") ELSE recent[j]
    BY <1>1, <1>4, <2>1 DEF ProviderReturns, Recall, Types
  <2> QED BY <2>1, <2>2, <2>3, <2>4
<1>5. ASSUME NEW r \in Requests, NEW c \in Categories, ProviderRaises(r, c)
      PROVE  AllCount(brk', recent')
  <2>1. at[r] \in Providers /\ at[r] + 1 \in Nat \ {0}
    BY <1>1, FailoverAssumption DEF Types, Providers
  <2>2. recent' = Recall(at[r], "failure") /\ recent' \in [Providers -> Outcomes]
    BY <1>1, <1>5 DEF ProviderRaises, Types
  <2>3. AllCount([brk EXCEPT ![at[r]] = Failed(@)], recent')
    BY <2>1, <2>2, RaisedCounts
  <2>4. CASE c = "retryable"
    <3>1. Advance(r, at[r] + 1, [brk EXCEPT ![at[r]] = Failed(@)])
      BY <1>5, <2>4 DEF ProviderRaises
    <3> QED BY <1>1, <2>1, <2>2, <2>3, <3>1, RaisedTypes, AdvanceCounts
  <2>5. CASE c # "retryable"
    <3>1. brk' = [brk EXCEPT ![at[r]] = Failed(@)]
      BY <1>5, <2>5 DEF ProviderRaises
    <3> QED BY <2>3, <3>1
  <2> QED BY <2>4, <2>5
<1>6. ASSUME NEW r \in Requests, CancelRequest(r) PROVE AllCount(brk', recent')
  BY <1>1, <1>6 DEF CancelRequest
<1>7. ASSUME NEW i \in Providers, Reset(i) PROVE AllCount(brk', recent')
  BY <1>1, <1>7, ClosedCounts DEF Reset, AllCount, Types
<1>8. ASSUME NEW i \in Providers, HealthChanges(i) PROVE AllCount(brk', recent')
  BY <1>1, <1>8 DEF HealthChanges
<1>9. CASE Tick
  BY <1>1, <1>9, AgedCounts DEF Tick, AllCount, Types
<1> QED BY <1>2, <1>3, <1>4, <1>5, <1>6, <1>7, <1>8, <1>9 DEF Next, Answer

--------------------------------------------------------------------------------
(* A provider that ails is not called.                                     *)

LEMMA AilingIsOpen ==
  ASSUME IInv, NEW i \in Providers, Ailing(i)
  PROVE  ~Allows(brk[i])
<1>1. brk[i] \in Breaker /\ recent[i] \in Outcomes /\ Counts(brk[i], recent[i])
  BY DEF IInv, Types, AllCount
<1>2. FailsLast(recent[i], Threshold) /\ Threshold \in 1 .. Threshold
  BY FailoverAssumption DEF Ailing, FailsLast
<1>3. brk[i].age < ResetTimeout /\ brk[i].age \in Nat
  BY <1>1, FailoverAssumption DEF Ailing, Breaker
<1>4. brk[i].state # "closed" /\ brk[i].state # "half_open"
  BY <1>1, <1>2, <1>3, FailoverAssumption DEF Counts, Breaker
<1>5. brk[i].state = "open"
  BY <1>1, <1>4 DEF Breaker, States
<1> QED BY <1>3, <1>5, FailoverAssumption DEF Allows

LEMMA AdvanceSpares ==
  ASSUME Types, NEW r \in Requests, NEW first \in Nat \ {0},
         NEW bs \in [Providers -> Breaker], Advance(r, first, bs),
         NEW i \in Providers, i < first \/ ~Allows(bs[i])
  PROVE  LeftAlone(i)
<1> SUFFICES ASSUME NEW q \in Requests, pc'[q] = "calling", at'[q] = i, pc[q] = "idle" \/ at[q] # i
             PROVE  FALSE
  BY DEF LeftAlone
<1>1. CASE pc' = [pc EXCEPT ![r] = "idle"] /\ at' = at
  BY <1>1 DEF Types
<1>2. ASSUME NEW p \in Providers, p >= first, Allows(bs[p]),
             pc' = [pc EXCEPT ![r] = "calling"], at' = [at EXCEPT ![r] = p]
      PROVE  FALSE
  <2>1. CASE q = r
    <3>1. p = i
      BY <1>2, <2>1 DEF Types
    <3> QED BY <1>2, <3>1 DEF Providers
  <2>2. CASE q # r
    BY <1>2, <2>2 DEF Types
  <2> QED BY <2>1, <2>2
<1> QED BY <1>1, <1>2, AdvanceCalls

LEMMA StepSpares ==
  ASSUME IInv, [Next]_vars
  PROVE  [\A i \in Providers : Ailing(i) => LeftAlone(i)]_vars
<1> SUFFICES ASSUME Next, NEW i \in Providers, Ailing(i) PROVE LeftAlone(i)
  OBVIOUS
<1>0. Types /\ ~Allows(brk[i])
  BY AilingIsOpen DEF IInv
<1>1. ASSUME NEW r \in Requests, Complete(r) PROVE LeftAlone(i)
  BY <1>0, <1>1, AdvanceSpares DEF Complete, Types
<1>2. ASSUME NEW r \in Requests, NEW c \in Categories, ProviderRaises(r, c), c = "retryable"
      PROVE  LeftAlone(i)
  <2> DEFINE bs == [brk EXCEPT ![at[r]] = Failed(@)]
  <2>1. at[r] \in Providers /\ at[r] + 1 \in Nat \ {0}
    BY <1>0, FailoverAssumption DEF Types, Providers
  <2>2. bs \in [Providers -> Breaker] /\ Advance(r, at[r] + 1, bs)
    BY <1>0, <1>2, RaisedTypes DEF ProviderRaises
  <2>3. i < at[r] + 1 \/ ~Allows(bs[i])
    <3>1. CASE i = at[r]
      BY <2>1, <3>1 DEF Providers
    <3>2. CASE i # at[r]
      <4>1. bs[i] = brk[i]
        BY <1>0, <3>2 DEF Types
      <4> QED BY <1>0, <4>1
    <3> QED BY <3>1, <3>2
  <2> HIDE DEF bs
  <2> QED BY <1>0, <2>1, <2>2, <2>3, AdvanceSpares
<1>3. CASE at' = at /\ \A q \in Requests : pc'[q] = "calling" => pc[q] = "calling"
  BY <1>0, <1>3 DEF LeftAlone, Types
<1>4. ASSUME NEW r \in Requests, ProviderReturns(r) PROVE LeftAlone(i)
  BY <1>0, <1>3, <1>4 DEF ProviderReturns, Types
<1>5. ASSUME NEW r \in Requests, NEW c \in Categories, ProviderRaises(r, c), c # "retryable"
      PROVE  LeftAlone(i)
  BY <1>0, <1>3, <1>5 DEF ProviderRaises, Types
<1>6. ASSUME NEW r \in Requests, CancelRequest(r) PROVE LeftAlone(i)
  BY <1>0, <1>3, <1>6 DEF CancelRequest, Types
<1>7. ASSUME NEW j \in Providers, Reset(j) \/ HealthChanges(j) PROVE LeftAlone(i)
  BY <1>3, <1>7 DEF Reset, HealthChanges
<1>8. CASE Tick
  BY <1>3, <1>8 DEF Tick
<1> QED BY <1>1, <1>2, <1>4, <1>5, <1>6, <1>7, <1>8 DEF Next, Answer

(* failover.py and circuit_breaker.py: whatever comes late, is cancelled   *)
(* or retried, no call begins at a provider whose last Threshold outcomes  *)
(* are failures, the last less than the reset timeout ago.                 *)
THEOREM FailingProvidersRest == Spec => FailingProviderRests
<1>1. Spec => []IInv
  BY InitCounts, StepCounts, PTL DEF Spec
<1> QED BY <1>1, StepSpares, PTL DEF Spec, FailingProviderRests
================================================================================
