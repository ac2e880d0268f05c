---------------------------- MODULE ServicesProofs ----------------------------
(***************************************************************************)
(* Proofs about the services that runs use: one fetch at a time, for any   *)
(* number of callers and futures; what a durable consumer promises, for    *)
(* any replicas, batches, keys and messages; what tiered memory keeps, for *)
(* any keys and capacities; and what the ledger of the budgets says and    *)
(* allows, for any hierarchy, reservations and settlements.                *)
(***************************************************************************)
EXTENDS MCServices, FiniteSetTheorems, WellFoundedInduction, TLAPS

(* The entry of the key is the future of whoever leads, and nobody leads   *)
(* without the entry: the finally clause of a leader that ends, fails or   *)
(* is cancelled takes its own future out, and so finds no other there.     *)
LeaderHasEntry ==
  /\ inflight \in Nat /\ flights \in Nat /\ inflight <= flights
  /\ \A c \in Callers : pc[c] = "leading" => mine[c] = inflight /\ inflight # 0
  /\ \A c, d \in Callers : pc[c] = "leading" /\ pc[d] = "leading" => c = d
  /\ inflight # 0 => \E c \in Callers : pc[c] = "leading"

Shape == DOMAIN pc = Callers /\ DOMAIN mine = Callers

IInv == Shape /\ LeaderHasEntry

LEMMA InitHasEntry == Init => IInv
BY DEF Init, IInv, Shape, LeaderHasEntry

(* Every step keeps the entry with its leader.                             *)
LEMMA StepKeepsEntry == ASSUME IInv, [Next]_vars PROVE IInv'
<1> USE DEF IInv, Shape, LeaderHasEntry
<1>1. CASE UNCHANGED vars
  BY <1>1 DEF vars
<1>2. ASSUME NEW c \in Callers, Lead(c) PROVE IInv'
  BY <1>2 DEF Lead, Free, Vacant, Ended
<1>3. ASSUME NEW c \in Callers, Wait(c) PROVE IInv'
  BY <1>3 DEF Wait, Free, Vacant, Ended
<1>4. ASSUME NEW c \in Callers, Wake(c) PROVE IInv'
  BY <1>4 DEF Wake
<1>5. ASSUME NEW c \in Callers, NEW o \in {"value", "error"}, FetchEnds(c, o) PROVE IInv'
  BY <1>5 DEF FetchEnds, Land
<1>6. ASSUME NEW c \in Callers, CancelLeader(c) PROVE IInv'
  BY <1>6 DEF CancelLeader, Land
<1>7. ASSUME NEW c \in Callers, CancelWaiter(c) PROVE IInv'
  BY <1>7 DEF CancelWaiter
<1> QED
  BY <1>1, <1>2, <1>3, <1>4, <1>5, <1>6, <1>7 DEF Next, CallEnds

(* At most one leader, as a cardinality.                                   *)
LEMMA EntryMeansOneFetch == ASSUME IInv PROVE OneFetch
<1> DEFINE Leaders == {c \in Callers : pc[c] = "leading"}
<1>1. CASE Leaders = {}
  BY <1>1, FS_EmptySet DEF OneFetch
<1>2. CASE Leaders # {}
  <2>1. PICK c \in Callers : Leaders = {c}
    BY <1>2 DEF IInv, LeaderHasEntry
  <2>2. Cardinality({c}) = 1
    BY FS_Singleton
  <2> QED BY <2>1, <2>2 DEF OneFetch
<1> QED BY <1>1, <1>2

(* A caller that begins to wait finds the entry, and so a leader.          *)
LEMMA StepJoins ==
  ASSUME IInv, [Next]_vars
  PROVE  [\A c \in Callers :
            Free(c) /\ pc'[c] = "waiting" =>
              \E d \in Callers : pc[d] = "leading" /\ mine[d] = mine'[c]]_vars
<1> USE DEF IInv, Shape, LeaderHasEntry
<1> SUFFICES ASSUME Next, NEW c \in Callers, Free(c), pc'[c] = "waiting"
             PROVE  \E d \in Callers : pc[d] = "leading" /\ mine[d] = mine'[c]
  OBVIOUS
<1>1. pc[c] # "waiting" /\ pc[c] # "leading"
  BY DEF Free, Ended
<1>2. ASSUME NEW e \in Callers, Lead(e) PROVE FALSE
  BY <1>1, <1>2 DEF Lead
<1>3. ASSUME NEW e \in Callers, Wait(e) PROVE c = e
  BY <1>1, <1>3 DEF Wait
<1>4. ASSUME NEW e \in Callers, Wake(e) PROVE FALSE
  BY <1>1, <1>4 DEF Wake
<1>5. ASSUME NEW e \in Callers, NEW o \in {"value", "error"}, FetchEnds(e, o) PROVE FALSE
  BY <1>1, <1>5 DEF FetchEnds
<1>6. ASSUME NEW e \in Callers, CancelLeader(e) \/ CancelWaiter(e) PROVE FALSE
  BY <1>1, <1>6 DEF CancelLeader, CancelWaiter
<1>7. Wait(c)
  BY <1>2, <1>3, <1>4, <1>5, <1>6 DEF Next, CallEnds
<1> QED BY <1>7 DEF Wait, Vacant

(* singleflight.py: whatever is cancelled, fn runs once at a time, and     *)
(* whoever waits has joined a fetch that was going on.                     *)
THEOREM OneFetchAtATime == Spec => FetchesOnce
<1>1. Spec => []IInv
  BY InitHasEntry, StepKeepsEntry, PTL DEF Spec
<1>2. IInv => OneFetch
  BY EntryMeansOneFetch
<1>3. Spec => JoinsOngoing
  BY <1>1, StepJoins, PTL DEF Spec, JoinsOngoing
<1> QED BY <1>1, <1>2, <1>3, PTL DEF FetchesOnce

-----------------------------------------------------------------------------
(***************************************************************************)
(* The durable consumer.  Keys: a replica holds the newest of those its    *)
(* process made, one after the other.  Executions: what is owed to a       *)
(* message is at least the replicas that may still execute it, as it is in *)
(* their batch and not merely to be acknowledged, and one more if the      *)
(* broker will deliver it again.                                           *)
(***************************************************************************)
Messages == Tasks!Messages
(* m is in the batch of r, which is not merely acknowledging it.           *)
Claims(r, m) ==
  \E i \in 1 .. Len(batch[r]) : batch[r][i] = m /\ ~(i = 1 /\ consuming[r] = "acking")
Claimers(m) == {r \in Replicas : Claims(r, m)}
Ready(m) == IF delivery[m] = "ready" THEN 1 ELSE 0

TaskTypes ==
  /\ stream \in Seq([to : Replicas, key : Nat]) /\ Len(stream) <= MaxMessages
  /\ delivery \in [Messages -> {"ready", "out", "acked"}]
  /\ consuming \in [Replicas -> {"idle", "handling", "acking", "naking"}]
  /\ batch \in [Replicas -> Seq(Messages)]
  /\ \A r \in Replicas : consuming[r] = "idle" <=> batch[r] = <<>>
  /\ owed \in [Messages -> 0 .. MaxOwed]
KeyTypes ==
  /\ made \in [Replicas -> Nat] /\ born \in [Replicas -> Nat] /\ keys \in [Replicas -> Seq(Nat)]
NewestKept ==
  \A r \in Replicas :
    /\ born[r] <= made[r]
    /\ Len(keys[r]) = (IF made[r] - born[r] < MaxHistory THEN made[r] - born[r] ELSE MaxHistory) + 1
    /\ \A i \in 1 .. Len(keys[r]) : keys[r][i] = made[r] - Len(keys[r]) + i
Handled ==
  /\ \A m \in Messages : delivery[m] = "acked" => m \in handled
  /\ \A r \in Replicas : consuming[r] = "acking" => batch[r][1] \in handled
InOrder ==
  \A r \in Replicas : \A i, j \in 1 .. Len(batch[r]) : i < j => batch[r][i] < batch[r][j]
Covered == \A m \in Messages : Cardinality(Claimers(m)) + Ready(m) <= owed[m]

DeliveryInv == TaskTypes /\ KeyTypes /\ NewestKept /\ Handled /\ InOrder /\ Covered

-----------------------------------------------------------------------------
(* Counting claimers: nobody new, one more, one less.                      *)
LEMMA CountBounds ==
  ASSUME NEW S, IsFiniteSet(S), NEW T, NEW r
  PROVE  /\ Cardinality(S) \in Nat
         /\ T \subseteq S => Cardinality(T) \in Nat /\ Cardinality(T) <= Cardinality(S)
         /\ T \subseteq S \cup {r} => Cardinality(T) \in Nat /\ Cardinality(T) <= Cardinality(S) + 1
         /\ r \in S /\ T \subseteq S \ {r} => Cardinality(T) \in Nat /\ Cardinality(T) <= Cardinality(S) - 1
<1>1. Cardinality(S) \in Nat
  BY FS_CardinalityType
<1>2. T \subseteq S => Cardinality(T) \in Nat /\ Cardinality(T) <= Cardinality(S)
  BY FS_Subset, FS_CardinalityType
<1>3. ASSUME T \subseteq S \cup {r}
      PROVE  Cardinality(T) \in Nat /\ Cardinality(T) <= Cardinality(S) + 1
  <2>1. /\ IsFiniteSet(S \cup {r})
        /\ Cardinality(S \cup {r}) = IF r \in S THEN Cardinality(S) ELSE Cardinality(S) + 1
    BY FS_AddElement
  <2>2. Cardinality(T) \in Nat /\ Cardinality(T) <= Cardinality(S \cup {r})
    BY <1>3, <2>1, FS_Subset, FS_CardinalityType
  <2> QED
    BY <1>1, <2>1, <2>2
<1>4. ASSUME r \in S, T \subseteq S \ {r}
      PROVE  Cardinality(T) \in Nat /\ Cardinality(T) <= Cardinality(S) - 1
  <2>1. /\ IsFiniteSet(S \ {r})
        /\ Cardinality(S \ {r}) = IF r \in S THEN Cardinality(S) - 1 ELSE Cardinality(S)
    BY FS_RemoveElement
  <2>2. Cardinality(T) \in Nat /\ Cardinality(T) <= Cardinality(S \ {r})
    BY <1>4, <2>1, FS_Subset, FS_CardinalityType
  <2> QED
    BY <1>4, <2>1, <2>2
<1> QED
  BY <1>1, <1>2, <1>3, <1>4

(* The replicas are finitely many, and fewer than what is counted.         *)
LEMMA ReplicaBound ==
  /\ IsFiniteSet(Replicas) /\ MaxOwed \in Nat /\ Cardinality(Replicas) < MaxOwed
  /\ MaxHistory \in Nat \ {0} /\ MaxMessages \in Nat
BY ServiceAssumptions DEF Tasks!DeliveryAssumption, Tasks!IsFiniteSet, Tasks!Cardinality, IsFiniteSet, Cardinality

LEMMA ClaimersFinite ==
  ASSUME NEW m PROVE IsFiniteSet(Claimers(m)) /\ Cardinality(Claimers(m)) \in Nat
                     /\ Cardinality(Claimers(m)) < MaxOwed
<1>1. Claimers(m) \subseteq Replicas
  BY DEF Claimers
<1> QED
  BY <1>1, ReplicaBound, FS_Subset, FS_CardinalityType

(* In the first state nobody claims anything.                              *)
LEMMA DeliveryStarts == Tasks!Init => DeliveryInv
<1> SUFFICES ASSUME Tasks!Init PROVE DeliveryInv
  OBVIOUS
<1> USE ReplicaBound DEF Tasks!Init
<1>1. Cardinality(Replicas) \in Nat
  BY FS_CardinalityType
<1>2. TaskTypes
  BY <1>1 DEF TaskTypes, Messages
<1>3. KeyTypes /\ NewestKept
  <2>1. KeyTypes
    BY DEF KeyTypes
  <2>2. \A r \in Replicas : made[r] = 1 /\ born[r] = 1 /\ keys[r] = <<1>>
    OBVIOUS
  <2>3. Len(<<1>>) = 1 /\ <<1>>[1] = 1
    OBVIOUS
  <2> QED
    BY <2>1, <2>2, <2>3 DEF NewestKept
<1>4. Handled /\ InOrder
  BY DEF Handled, InOrder, Messages
<1>5. Covered
  <2>1. \A m \in Messages : Claimers(m) = {} /\ owed[m] = 1 /\ Ready(m) = 1
    BY DEF Claimers, Claims, Ready, Messages
  <2>2. \A m \in Messages : Cardinality(Claimers(m)) = 0
    BY <2>1, FS_EmptySet
  <2>3. ASSUME NEW m \in Messages PROVE Cardinality(Claimers(m)) + Ready(m) <= owed[m]
    BY <2>1, <2>2
  <2> QED
    BY <2>3 DEF Covered
<1> QED
  BY <1>2, <1>3, <1>4, <1>5 DEF DeliveryInv

(* What a replica can still read.                                          *)
LEMMA KeptCanBeRead == KeyTypes /\ NewestKept /\ TaskTypes => Tasks!InFlightReadable
<1> SUFFICES ASSUME KeyTypes, NewestKept, TaskTypes, NEW m \in DOMAIN stream, NEW r,
                    r = stream[m].to, stream[m].key \in born[r] .. made[r],
                    made[r] - stream[m].key <= MaxHistory
             PROVE  Tasks!Opens(r, m)
  BY DEF Tasks!InFlightReadable
<1> DEFINE k == stream[m].key
<1>1. r \in Replicas /\ k \in Nat
  <2> DEFINE Sealed == [to : Replicas, key : Nat]
  <2>1. stream \in Seq(Sealed)
    BY DEF TaskTypes
  <2>2. \A R, s : s \in Seq(R) /\ m \in DOMAIN s => s[m] \in R
    OBVIOUS
  <2>3. stream[m] \in Sealed
    BY <2>1, <2>2
  <2> QED
    BY <2>3
<1>2. /\ made[r] \in Nat /\ born[r] \in Nat /\ keys[r] \in Seq(Nat) /\ Len(keys[r]) \in Nat
      /\ DOMAIN keys[r] = 1 .. Len(keys[r])
  BY <1>1 DEF KeyTypes
<1> DEFINE i == Len(keys[r]) - (made[r] - k)
<1>3. i \in 1 .. Len(keys[r])
  <2>1. /\ born[r] <= made[r]
        /\ Len(keys[r]) = (IF made[r] - born[r] < MaxHistory THEN made[r] - born[r] ELSE MaxHistory) + 1
    BY <1>1 DEF NewestKept
  <2>2. born[r] <= k /\ k <= made[r] /\ made[r] - k <= MaxHistory
    BY <1>2
  <2>3. \A l, y, b, n, h \in Nat :
          /\ b <= y /\ l = (IF y - b < h THEN y - b ELSE h) + 1 /\ b <= n /\ n <= y /\ y - n <= h
          => l - (y - n) \in 1 .. l
    OBVIOUS
  <2>4. MaxHistory \in Nat /\ k \in Nat
    BY <1>1, ReplicaBound
  <2> QED
    BY <1>2, <2>1, <2>2, <2>3, <2>4
<1>4. keys[r][i] = k
  <2>1. keys[r][i] = made[r] - Len(keys[r]) + i
    BY <1>1, <1>3 DEF NewestKept
  <2>2. \A l, y, n \in Nat : y - l + (l - (y - n)) = n
    OBVIOUS
  <2>3. k \in Nat /\ made[r] \in Nat /\ Len(keys[r]) \in Nat
    BY <1>1, <1>2
  <2>4. made[r] - Len(keys[r]) + i = k
    <3> DEFINE l == Len(keys[r])
               y == made[r]
    <3>1. y - l + (l - (y - k)) = k
      <4> HIDE DEF k, l, y
      <4> QED
        BY <2>2, <2>3 DEF l, y
    <3> QED
      BY <3>1
  <2> QED
    BY <2>1, <2>4, Zenon
<1> QED
  BY <1>2, <1>3, <1>4 DEF Tasks!Opens, Tasks!KeysToTry, Tasks!ToSet

(* The invariant gives what the consumer promises.                         *)
LEMMA DeliveryInvHolds == DeliveryInv => DeliveryHolds
<1> SUFFICES ASSUME DeliveryInv PROVE DeliveryHolds
  OBVIOUS
<1>1. Tasks!InFlightReadable
  BY KeptCanBeRead DEF DeliveryInv
<1>2. Tasks!AckedIsHandled
  BY DEF DeliveryInv, Handled, Tasks!AckedIsHandled, Messages
<1>3. Tasks!RepeatedOnlyAfterFault
  BY ReplicaBound DEF DeliveryInv, TaskTypes, Tasks!RepeatedOnlyAfterFault, Messages
<1> QED
  BY <1>1, <1>2, <1>3 DEF DeliveryHolds, Tasks!DeliveryHolds

-----------------------------------------------------------------------------
LEMMA Appended ==
  ASSUME NEW s \in Seq(Nat), NEW e \in Nat
  PROVE  /\ Append(s, e) \in Seq(Nat) /\ Len(s) \in Nat /\ Len(Append(s, e)) = Len(s) + 1
         /\ Append(s, e)[Len(s) + 1] = e
         /\ \A i \in 1 .. Len(s) : Append(s, e)[i] = s[i]
OBVIOUS

(* Keys one after the other stay so when the history is cut and a key put. *)
LEMMA RotatedKeys ==
  ASSUME NEW ks \in Seq(Nat), NEW last \in Nat, Len(ks) \in 1 .. (MaxHistory + 1),
         \A i \in 1 .. Len(ks) : ks[i] = last - Len(ks) + i
  PROVE  LET new == Append(Tasks!Archived(ks), last + 1) IN
         /\ new \in Seq(Nat)
         /\ Len(new) = (IF Len(ks) > MaxHistory THEN MaxHistory ELSE Len(ks)) + 1
         /\ \A i \in 1 .. Len(new) : new[i] = (last + 1) - Len(new) + i
<1> DEFINE new == Append(Tasks!Archived(ks), last + 1)
<1>1. new = Append(IF Len(ks) > MaxHistory THEN SubSeq(ks, Len(ks) - MaxHistory + 1, Len(ks)) ELSE ks, last + 1)
  BY DEF Tasks!Archived
<1>2. MaxHistory \in Nat \ {0}
  BY ReplicaBound
<1> USE <1>2
<1> HIDE DEF new
<1>3. CASE Len(ks) > MaxHistory
  <2>1. Len(ks) = MaxHistory + 1
    BY <1>3, <1>1
  <2> DEFINE old == SubSeq(ks, 2, MaxHistory + 1)
  <2>2. new = Append(old, last + 1)
    BY <1>3, <1>1, <2>1
  <2>3. old \in Seq(Nat) /\ Len(old) = MaxHistory /\ \A i \in 1 .. MaxHistory : old[i] = ks[i + 1]
    BY <2>1
  <2>4. \A i \in 1 .. MaxHistory : old[i] = last - MaxHistory + i
    <3> SUFFICES ASSUME NEW i \in 1 .. MaxHistory PROVE old[i] = last - MaxHistory + i
      OBVIOUS
    <3>1. i + 1 \in 1 .. Len(ks)
      BY <2>1
    <3>2. ks[i + 1] = last - Len(ks) + (i + 1)
      BY <3>1
    <3> HIDE DEF old
    <3> QED
      BY <2>1, <2>3, <3>2
  <2> HIDE DEF old
  <2>5. new \in Seq(Nat) /\ Len(new) = MaxHistory + 1 /\ new[MaxHistory + 1] = last + 1
    BY <2>2, <2>3, Appended
  <2>6. \A i \in 1 .. MaxHistory : new[i] = old[i]
    <3>1. last + 1 \in Nat /\ old \in Seq(Nat)
      BY <2>3
    <3>2. \A i \in 1 .. Len(old) : Append(old, last + 1)[i] = old[i]
      BY <3>1, Appended, Zenon
    <3>3. Len(old) = MaxHistory
      BY <2>3
    <3> QED
      BY <2>2, <3>2, <3>3, Zenon
  <2>7. \A i \in 1 .. (MaxHistory + 1) : new[i] = (last + 1) - (MaxHistory + 1) + i
    <3> SUFFICES ASSUME NEW i \in 1 .. (MaxHistory + 1) PROVE new[i] = (last + 1) - (MaxHistory + 1) + i
      OBVIOUS
    <3>1. CASE i \in 1 .. MaxHistory
      BY <2>4, <2>6, <3>1
    <3>2. CASE i = MaxHistory + 1
      BY <2>5, <3>2
    <3>3. i \in 1 .. MaxHistory \/ i = MaxHistory + 1
      OBVIOUS
    <3> QED
      BY <3>1, <3>2, <3>3
  <2> QED
    BY <1>3, <2>1, <2>5, <2>7 DEF new
<1>4. CASE ~(Len(ks) > MaxHistory)
  <2>1. new = Append(ks, last + 1)
    BY <1>1, <1>4
  <2>2. new \in Seq(Nat) /\ Len(new) = Len(ks) + 1 /\ new[Len(ks) + 1] = last + 1
    BY <2>1
  <2>3. \A i \in 1 .. Len(ks) : new[i] = ks[i]
    BY <2>1
  <2> QED
    <3>1. \A i \in 1 .. Len(new) : new[i] = (last + 1) - Len(new) + i
      <4> SUFFICES ASSUME NEW i \in 1 .. Len(new) PROVE new[i] = (last + 1) - Len(new) + i
        OBVIOUS
      <4>1. i \in 1 .. Len(ks) \/ i = Len(ks) + 1
        BY <2>2
      <4> QED
        BY <2>2, <2>3, <4>1
    <3> QED
      BY <1>4, <2>2, <3>1 DEF new
<1> QED
  BY <1>3, <1>4

(* A rotation or a restart leaves the newest keys, one after the other.    *)
LEMMA KeysKept ==
  ASSUME KeyTypes, NewestKept, NEW r \in Replicas, Tasks!RotateKeys(r) \/ Tasks!Restart(r)
  PROVE  KeyTypes' /\ NewestKept'
<1> DEFINE Newest(ks, last, first) ==
      /\ first <= last
      /\ Len(ks) = (IF last - first < MaxHistory THEN last - first ELSE MaxHistory) + 1
      /\ \A i \in 1 .. Len(ks) : ks[i] = last - Len(ks) + i
<1>1. made[r] \in Nat /\ born[r] \in Nat /\ keys[r] \in Seq(Nat) /\ Len(keys[r]) \in Nat
  BY DEF KeyTypes
<1>2. Newest(keys[r], made[r], born[r]) /\ MaxHistory \in Nat \ {0}
  BY ReplicaBound DEF NewestKept
<1>3. Len(keys[r]) \in 1 .. (MaxHistory + 1)
  <2>1. made[r] - born[r] \in Nat
    BY <1>1, <1>2
  <2>2. Len(keys[r]) = (IF made[r] - born[r] < MaxHistory THEN made[r] - born[r] ELSE MaxHistory) + 1
    BY <1>2
  <2> HIDE DEF Newest
  <2> QED
    BY <1>1, <1>2, <2>1, <2>2
<1>4. PICK first \in Nat, new \in Seq(Nat) :
        /\ made' = [made EXCEPT ![r] = made[r] + 1] /\ born' = [born EXCEPT ![r] = first]
        /\ keys' = [keys EXCEPT ![r] = new]
        /\ Newest(new, made[r] + 1, first)
  <2>1. CASE Tasks!RotateKeys(r)
    <3> DEFINE new == Append(Tasks!Archived(keys[r]), made[r] + 1)
    <3>1. /\ made' = [made EXCEPT ![r] = made[r] + 1] /\ born' = [born EXCEPT ![r] = born[r]]
          /\ keys' = [keys EXCEPT ![r] = new]
      BY <2>1 DEF Tasks!RotateKeys, KeyTypes
    <3> HIDE DEF Newest
    <3>a. \A i \in 1 .. Len(keys[r]) : keys[r][i] = made[r] - Len(keys[r]) + i
      BY <1>2 DEF Newest
    <3>3. /\ new \in Seq(Nat)
          /\ Len(new) = (IF Len(keys[r]) > MaxHistory THEN MaxHistory ELSE Len(keys[r])) + 1
          /\ \A i \in 1 .. Len(new) : new[i] = (made[r] + 1) - Len(new) + i
      BY <1>1, <1>3, <3>a, RotatedKeys
    <3> HIDE DEF new
    <3>4. Newest(new, made[r] + 1, born[r])
      <4>1. /\ born[r] <= made[r]
            /\ Len(keys[r]) = (IF made[r] - born[r] < MaxHistory THEN made[r] - born[r] ELSE MaxHistory) + 1
        BY <1>2 DEF Newest
      <4>2. Len(new) = (IF (made[r] + 1) - born[r] < MaxHistory THEN (made[r] + 1) - born[r]
                        ELSE MaxHistory) + 1
        <5>1. made[r] - born[r] \in Nat /\ (made[r] + 1) - born[r] = (made[r] - born[r]) + 1
          BY <1>1, <4>1
        <5>2. Len(new) = (IF Len(keys[r]) > MaxHistory THEN MaxHistory ELSE Len(keys[r])) + 1
          BY <3>3
        <5> QED
          BY <1>1, <1>2, <4>1, <5>1, <5>2
      <4>3. born[r] <= made[r] + 1
        BY <1>1, <4>1
      <4> QED
        BY <3>3, <4>2, <4>3 DEF Newest
    <3> QED
      BY <1>1, <3>1, <3>3, <3>4
  <2>2. CASE Tasks!Restart(r)
    <3> DEFINE new == <<made[r] + 1>>
    <3>1. /\ made' = [made EXCEPT ![r] = made[r] + 1] /\ born' = [born EXCEPT ![r] = made[r] + 1]
          /\ keys' = [keys EXCEPT ![r] = new]
      BY <2>2 DEF Tasks!Restart
    <3>2. new \in Seq(Nat) /\ Len(new) = 1 /\ new[1] = made[r] + 1
      BY <1>1
    <3>3. Newest(new, made[r] + 1, made[r] + 1)
      <4> HIDE DEF new
      <4> QED
        BY <1>1, <1>2, <3>2
    <3> HIDE DEF Newest, new
    <3>4. made[r] + 1 \in Nat
      BY <1>1
    <3> QED
      BY <3>1, <3>2, <3>3, <3>4, Zenon
  <2> QED
    BY <2>1, <2>2
<1>5. KeyTypes'
  BY <1>1, <1>4 DEF KeyTypes
<1>6. ASSUME NEW q \in Replicas PROVE Newest(keys'[q], made'[q], born'[q])
  <2>1. CASE q = r
    <3>1. made'[q] = made[r] + 1 /\ born'[q] = first /\ keys'[q] = new
      BY <1>4, <2>1 DEF KeyTypes
    <3> HIDE DEF Newest
    <3> QED
      BY <1>4, <3>1
  <2>2. CASE q # r
    <3>1. made'[q] = made[q] /\ born'[q] = born[q] /\ keys'[q] = keys[q]
      BY <1>4, <2>2 DEF KeyTypes
    <3>2. Newest(keys[q], made[q], born[q])
      BY DEF NewestKept
    <3> HIDE DEF Newest
    <3> QED
      BY <3>1, <3>2
  <2> QED
    BY <2>1, <2>2
<1> QED
  BY <1>5, <1>6 DEF NewestKept

(* A batch, or what is left of it, is begun.                               *)
LEMMA AfterBegin ==
  ASSUME TaskTypes, NEW r \in Replicas, NEW b \in Seq(Messages), Tasks!Begin(r, b)
  PROVE  /\ batch' \in [Replicas -> Seq(Messages)]
         /\ consuming' \in [Replicas -> {"idle", "handling", "acking", "naking"}]
         /\ batch'[r] = b /\ consuming'[r] # "acking"
         /\ \A q \in Replicas : q # r => batch'[q] = batch[q] /\ consuming'[q] = consuming[q]
         /\ \A q \in Replicas : consuming'[q] = "idle" <=> batch'[q] = <<>>
<1>1. /\ batch' = [batch EXCEPT ![r] = b]
      /\ consuming' = [consuming EXCEPT ![r] =
           IF b = <<>> THEN "idle" ELSE IF Tasks!Opens(r, b[1]) THEN "handling" ELSE "naking"]
  BY DEF Tasks!Begin
<1> QED
  BY <1>1 DEF TaskTypes

(* The same batch, at another place of its first message.                  *)
LEMMA AfterGoes ==
  ASSUME TaskTypes, NEW r \in Replicas, consuming[r] # "idle",
         NEW to \in {"handling", "acking", "naking"}, Tasks!Goes(r, to)
  PROVE  /\ batch' = batch /\ batch' \in [Replicas -> Seq(Messages)]
         /\ consuming' \in [Replicas -> {"idle", "handling", "acking", "naking"}]
         /\ consuming'[r] = to
         /\ \A q \in Replicas : q # r => batch'[q] = batch[q] /\ consuming'[q] = consuming[q]
         /\ \A q \in Replicas : consuming'[q] = "idle" <=> batch'[q] = <<>>
BY DEF Tasks!Goes, TaskTypes

(* Who claims a message after a step of r.                                 *)
LEMMA OthersClaim ==
  ASSUME NEW r \in Replicas, NEW m,
         \A q \in Replicas : q # r => batch'[q] = batch[q] /\ consuming'[q] = consuming[q]
  PROVE  /\ Claimers(m)' \subseteq Claimers(m) \cup {r}
         /\ (Claims(r, m)' => Claims(r, m)) => Claimers(m)' \subseteq Claimers(m)
         /\ ~Claims(r, m)' => Claimers(m)' \subseteq Claimers(m) \ {r}
<1>1. \A q \in Replicas : q # r => (Claims(q, m)' <=> Claims(q, m))
  BY DEF Claims
<1> QED
  BY <1>1 DEF Claimers

(* The first message of a batch, and what is left without it.              *)
LEMMA RestOfBatch ==
  ASSUME TaskTypes, InOrder, NEW r \in Replicas, consuming[r] # "idle"
  PROVE  /\ Tasks!Current(r) \in Messages /\ Tasks!Current(r) = batch[r][1]
         /\ 1 \in 1 .. Len(batch[r]) /\ Tail(batch[r]) \in Seq(Messages)
         /\ Len(Tail(batch[r])) = Len(batch[r]) - 1
         /\ \A i \in 1 .. Len(Tail(batch[r])) :
              /\ Tail(batch[r])[i] = batch[r][i + 1] /\ i + 1 \in 1 .. Len(batch[r])
              /\ Tail(batch[r])[i] # Tasks!Current(r)
<1> DEFINE b == batch[r]
<1>1. b \in Seq(Messages) /\ b # <<>>
  BY DEF TaskTypes
<1>2. /\ Len(b) \in Nat /\ 1 \in 1 .. Len(b) /\ Head(b) = b[1] /\ Head(b) \in Messages
      /\ Tail(b) \in Seq(Messages) /\ Len(Tail(b)) = Len(b) - 1
      /\ \A i \in 1 .. Len(Tail(b)) : Tail(b)[i] = b[i + 1] /\ i + 1 \in 1 .. Len(b)
  BY <1>1
<1>3. \A i, j \in 1 .. Len(b) : i < j => b[i] < b[j]
  BY DEF InOrder
<1> HIDE DEF b
<1>4. \A i \in 1 .. Len(b) : b[i] \in Nat
  <2>1. \A i \in 1 .. Len(b) : b[i] \in Messages
    BY <1>1
  <2>2. \A m \in Messages : m \in Nat
    BY DEF Messages, Tasks!Messages
  <2> QED
    BY <2>1, <2>2
<1>5. \A i \in 1 .. Len(Tail(b)) : Tail(b)[i] # b[1]
  BY <1>2, <1>3, <1>4
<1> QED
  BY <1>2, <1>5 DEF b, Tasks!Current

-----------------------------------------------------------------------------
(* A message has as many claimers, at most, and what is owed to it is no   *)
(* less: one message at a time.                                            *)
LEMMA SameCovered ==
  ASSUME DeliveryInv, NEW m \in Messages, Claimers(m)' \subseteq Claimers(m),
         owed'[m] = owed[m], delivery'[m] = "ready" => delivery[m] = "ready"
  PROVE  Cardinality(Claimers(m)') + Ready(m)' <= owed'[m]
<1>1. /\ IsFiniteSet(Claimers(m)) /\ Cardinality(Claimers(m)) \in Nat
      /\ Cardinality(Claimers(m)) + Ready(m) <= owed[m]
  BY ClaimersFinite DEF DeliveryInv, Covered
<1>2. Cardinality(Claimers(m)') \in Nat /\ Cardinality(Claimers(m)') <= Cardinality(Claimers(m))
  BY <1>1, CountBounds
<1>3. Ready(m) \in {0, 1} /\ Ready(m)' \in {0, 1} /\ Ready(m)' <= Ready(m)
  BY DEF Ready
<1>4. owed[m] \in Nat
  BY ReplicaBound DEF DeliveryInv, TaskTypes
<1> QED
  BY <1>1, <1>2, <1>3, <1>4

(* A fault: one more may execute it, and one more is owed, as far as that  *)
(* is counted.                                                             *)
LEMMA FaultCovered ==
  ASSUME DeliveryInv, NEW m \in Messages, NEW r, Claimers(m)' \subseteq Claimers(m) \cup {r},
         owed'[m] = (IF owed[m] < MaxOwed THEN owed[m] + 1 ELSE owed[m]),
         \/ delivery'[m] = delivery[m]
         \/ delivery[m] # "ready" /\ Claimers(m)' \subseteq Claimers(m)
  PROVE  Cardinality(Claimers(m)') + Ready(m)' <= owed'[m]
<1>1. /\ IsFiniteSet(Claimers(m)) /\ Cardinality(Claimers(m)) \in Nat
      /\ Cardinality(Claimers(m)) + Ready(m) <= owed[m]
  BY ClaimersFinite DEF DeliveryInv, Covered
<1>2. /\ Cardinality(Claimers(m)') \in Nat /\ Cardinality(Claimers(m)') <= Cardinality(Claimers(m)) + 1
      /\ Claimers(m)' \subseteq Claimers(m) => Cardinality(Claimers(m)') <= Cardinality(Claimers(m))
  BY <1>1, CountBounds
<1>3. /\ Ready(m) \in {0, 1} /\ Ready(m)' \in {0, 1}
      /\ delivery'[m] = delivery[m] => Ready(m)' = Ready(m)
      /\ delivery[m] # "ready" => Ready(m) = 0
  BY DEF Ready
<1>4. owed[m] \in 0 .. MaxOwed /\ MaxOwed \in Nat
  BY ReplicaBound DEF DeliveryInv, TaskTypes
<1>5. Cardinality(Claimers(m)') < MaxOwed
  <2>1. Claimers(m)' \subseteq Replicas
    BY DEF Claimers
  <2> QED
    BY <2>1, ReplicaBound, FS_Subset, FS_CardinalityType
<1> QED
  BY <1>1, <1>2, <1>3, <1>4, <1>5

(* A claimer is gone: one less is owed, or the message is ready again.     *)
LEMMA LessCovered ==
  ASSUME DeliveryInv, NEW m \in Messages, NEW r, r \in Claimers(m), Claimers(m)' \subseteq Claimers(m) \ {r},
         \/ delivery'[m] = delivery[m] /\ owed'[m] = owed[m] - 1
         \/ owed'[m] = owed[m]
  PROVE  owed[m] > 0 /\ Cardinality(Claimers(m)') + Ready(m)' <= owed'[m]
<1>1. /\ IsFiniteSet(Claimers(m)) /\ Cardinality(Claimers(m)) \in Nat
      /\ Cardinality(Claimers(m)) + Ready(m) <= owed[m]
  BY ClaimersFinite DEF DeliveryInv, Covered
<1>2. Cardinality(Claimers(m)') \in Nat /\ Cardinality(Claimers(m)') <= Cardinality(Claimers(m)) - 1
  BY <1>1, CountBounds
<1>3. /\ Ready(m) \in {0, 1} /\ Ready(m)' \in {0, 1}
      /\ delivery'[m] = delivery[m] => Ready(m)' = Ready(m)
  BY DEF Ready
<1>4. owed[m] \in Nat
  BY ReplicaBound DEF DeliveryInv, TaskTypes
<1> QED
  BY <1>1, <1>2, <1>3, <1>4

(* A ready message is taken by one more.                                   *)
LEMMA TakenCovered ==
  ASSUME DeliveryInv, NEW m \in Messages, NEW r, Claimers(m)' \subseteq Claimers(m) \cup {r},
         delivery[m] = "ready", delivery'[m] = "out", owed'[m] = owed[m]
  PROVE  Cardinality(Claimers(m)') + Ready(m)' <= owed'[m]
<1>1. /\ IsFiniteSet(Claimers(m)) /\ Cardinality(Claimers(m)) \in Nat
      /\ Cardinality(Claimers(m)) + Ready(m) <= owed[m]
  BY ClaimersFinite DEF DeliveryInv, Covered
<1>2. Cardinality(Claimers(m)') \in Nat /\ Cardinality(Claimers(m)') <= Cardinality(Claimers(m)) + 1
  BY <1>1, CountBounds
<1>3. Ready(m) = 1 /\ Ready(m)' = 0
  BY DEF Ready
<1>4. owed[m] \in Nat
  BY ReplicaBound DEF DeliveryInv, TaskTypes
<1> QED
  BY <1>1, <1>2, <1>3, <1>4

-----------------------------------------------------------------------------
(* Steps of the broker and its publishers, and of the keys.                *)
LEMMA SameMaterial ==
  ASSUME KeyTypes, NewestKept, UNCHANGED <<made, born, keys>>
  PROVE  KeyTypes' /\ NewestKept'
BY DEF KeyTypes, NewestKept

LEMMA PublishKeeps ==
  ASSUME DeliveryInv, NEW r \in Replicas, NEW k \in 1 .. made[r], Tasks!Publish(r, k)
  PROVE  DeliveryInv'
<1> USE DEF DeliveryInv
<1>1. /\ Len(stream) < MaxMessages /\ stream' = Append(stream, [to |-> r, key |-> k])
      /\ UNCHANGED <<delivery, made, born, keys, consuming, batch, handled, owed>>
  BY DEF Tasks!Publish, Tasks!material, Tasks!consumer, Tasks!counts
<1>2. stream' \in Seq([to : Replicas, key : Nat]) /\ Len(stream') <= MaxMessages
  <2> DEFINE Sealed == [to : Replicas, key : Nat]
             e == [to |-> r, key |-> k]
  <2>1. e \in Sealed
    <3>1. made[r] \in Nat
      BY DEF KeyTypes
    <3> QED
      BY <3>1
  <2>2. stream \in Seq(Sealed)
    BY DEF TaskTypes
  <2>3. stream' = Append(stream, e)
    BY <1>1
  <2> HIDE DEF Sealed, e
  <2>4. stream' \in Seq(Sealed) /\ Len(stream') = Len(stream) + 1 /\ Len(stream) \in Nat
    BY <2>1, <2>2, <2>3
  <2> QED
    BY <1>1, <2>4, ReplicaBound DEF Sealed
<1>3. TaskTypes'
  BY <1>1, <1>2 DEF TaskTypes
<1>4. KeyTypes' /\ NewestKept'
  BY <1>1, SameMaterial
<1>5. Handled' /\ InOrder' /\ Covered'
  BY <1>1 DEF Handled, InOrder, Covered, Claimers, Claims, Ready
<1> QED
  BY <1>3, <1>4, <1>5

LEMMA ExpireKeeps ==
  ASSUME DeliveryInv, NEW e \in Messages, Tasks!Expire(e)
  PROVE  DeliveryInv'
<1> USE DEF DeliveryInv
<1>1. /\ delivery[e] = "out" /\ delivery' = [delivery EXCEPT ![e] = "ready"]
      /\ owed' = [owed EXCEPT ![e] = IF owed[e] < MaxOwed THEN owed[e] + 1 ELSE owed[e]]
      /\ UNCHANGED <<stream, made, born, keys, consuming, batch, handled>>
  BY DEF Tasks!Expire, Tasks!Fault, Tasks!material, Tasks!consumer
<1>2. owed[e] \in 0 .. MaxOwed /\ MaxOwed \in Nat
  BY ReplicaBound DEF TaskTypes
<1>3. TaskTypes'
  <2>1. owed' \in [Messages -> 0 .. MaxOwed]
    BY <1>1, <1>2 DEF TaskTypes
  <2> QED
    BY <1>1, <2>1 DEF TaskTypes
<1>4. KeyTypes' /\ NewestKept'
  BY <1>1, SameMaterial
<1>5. /\ delivery'[e] = "ready" /\ owed'[e] = IF owed[e] < MaxOwed THEN owed[e] + 1 ELSE owed[e]
      /\ \A m \in Messages : m # e => delivery'[m] = delivery[m] /\ owed'[m] = owed[m]
  BY <1>1 DEF TaskTypes
<1>6. Handled' /\ InOrder'
  BY <1>1, <1>5 DEF Handled, InOrder
<1>7. ASSUME NEW m \in Messages PROVE Cardinality(Claimers(m)') + Ready(m)' <= owed'[m]
  <2>1. Claimers(m)' = Claimers(m)
    BY <1>1 DEF Claimers, Claims
  <2>2. CASE m = e
    <3>1. Claimers(e)' \subseteq Claimers(e) \cup {0}
      BY <2>1, <2>2
    <3> QED
      BY <1>1, <1>5, <2>1, <2>2, <3>1, FaultCovered
  <2>3. CASE m # e
    BY <1>5, <2>1, <2>3, SameCovered
  <2> QED
    BY <2>2, <2>3
<1> QED
  BY <1>3, <1>4, <1>6, <1>7 DEF Covered

LEMMA RotateKeeps ==
  ASSUME DeliveryInv, NEW r \in Replicas, Tasks!RotateKeys(r)
  PROVE  DeliveryInv'
<1>1. UNCHANGED <<stream, delivery, consuming, batch, handled, owed>>
  BY DEF Tasks!RotateKeys, Tasks!broker, Tasks!consumer, Tasks!counts
<1>2. KeyTypes' /\ NewestKept'
  BY KeysKept DEF DeliveryInv
<1> QED
  BY <1>1, <1>2 DEF DeliveryInv, TaskTypes, Handled, InOrder, Covered, Claimers, Claims, Ready

-----------------------------------------------------------------------------
(* Steps of a replica that consumes.  What is left of its batch is in      *)
(* order, and no claim of it on the first message is left.                 *)
LEMMA RestInOrder ==
  ASSUME TaskTypes, InOrder, NEW r \in Replicas, consuming[r] # "idle",
         batch'[r] = Tail(batch[r]), consuming'[r] # "acking",
         \A q \in Replicas : q # r => batch'[q] = batch[q] /\ consuming'[q] = consuming[q]
  PROVE  /\ InOrder'
         /\ \A m \in Messages : Claims(r, m)' => Claims(r, m) /\ m # Tasks!Current(r)
<1> DEFINE rest == Tail(batch[r])
<1>1. /\ Len(rest) = Len(batch[r]) - 1 /\ Len(batch[r]) \in Nat
      /\ \A i \in 1 .. Len(rest) : /\ rest[i] = batch[r][i + 1] /\ i + 1 \in 1 .. Len(batch[r])
                                   /\ rest[i] # Tasks!Current(r)
  BY RestOfBatch DEF TaskTypes
<1> HIDE DEF rest
<1>2. batch'[r] = rest
  BY DEF rest
<1>3. \A i, j \in 1 .. Len(rest) : i < j => rest[i] < rest[j]
  <2> SUFFICES ASSUME NEW i \in 1 .. Len(rest), NEW j \in 1 .. Len(rest), i < j PROVE rest[i] < rest[j]
    OBVIOUS
  <2>1. batch[r][i + 1] < batch[r][j + 1]
    BY <1>1 DEF InOrder
  <2> QED
    BY <1>1, <2>1
<1>4. InOrder'
  BY <1>2, <1>3 DEF InOrder
<1>5. ASSUME NEW m \in Messages, Claims(r, m)' PROVE Claims(r, m) /\ m # Tasks!Current(r)
  <2>1. PICK i \in 1 .. Len(rest) : rest[i] = m
    BY <1>2, <1>5 DEF Claims
  <2>2. i + 1 \in 1 .. Len(batch[r]) /\ batch[r][i + 1] = m /\ i + 1 # 1
    BY <1>1, <2>1
  <2> QED
    BY <1>1, <2>1, <2>2 DEF Claims
<1> QED
  BY <1>4, <1>5

(* The process is lost, or leaves its batch.                               *)
LEMMA DropKeeps ==
  ASSUME DeliveryInv, NEW r \in Replicas, batch'[r] = <<>>, consuming'[r] = "idle",
         \A q \in Replicas : q # r => batch'[q] = batch[q] /\ consuming'[q] = consuming[q],
         UNCHANGED <<stream, delivery, handled, owed>>, TaskTypes', KeyTypes', NewestKept'
  PROVE  DeliveryInv'
<1> USE DEF DeliveryInv
<1>1. Handled' /\ InOrder'
  BY DEF Handled, InOrder
<1>2. ASSUME NEW m \in Messages PROVE Cardinality(Claimers(m)') + Ready(m)' <= owed'[m]
  <2>1. ~Claims(r, m)'
    BY DEF Claims
  <2>2. Claimers(m)' \subseteq Claimers(m)
    BY <2>1, OthersClaim
  <2> QED
    BY <2>2, SameCovered
<1> QED
  BY <1>1, <1>2 DEF Covered

LEMMA RestartKeeps ==
  ASSUME DeliveryInv, NEW r \in Replicas, Tasks!Restart(r)
  PROVE  DeliveryInv'
<1>1. /\ consuming' = [consuming EXCEPT ![r] = "idle"] /\ batch' = [batch EXCEPT ![r] = <<>>]
      /\ UNCHANGED <<stream, delivery, handled, owed>>
  BY DEF Tasks!Restart, Tasks!broker, Tasks!counts
<1>2. KeyTypes' /\ NewestKept'
  BY KeysKept DEF DeliveryInv
<1>3. TaskTypes'
  BY <1>1 DEF DeliveryInv, TaskTypes
<1>4. /\ batch'[r] = <<>> /\ consuming'[r] = "idle"
      /\ \A q \in Replicas : q # r => batch'[q] = batch[q] /\ consuming'[q] = consuming[q]
  BY <1>1 DEF DeliveryInv, TaskTypes
<1> QED
  BY <1>1, <1>2, <1>3, <1>4, DropKeeps

LEMMA LeaveKeeps ==
  ASSUME DeliveryInv, NEW r \in Replicas, Tasks!Leave(r)
  PROVE  DeliveryInv'
<1>1. Tasks!Begin(r, <<>>) /\ UNCHANGED <<stream, delivery, made, born, keys, handled, owed>>
  BY DEF Tasks!Leave, Tasks!broker, Tasks!material, Tasks!counts
<1>2. /\ batch' \in [Replicas -> Seq(Messages)] /\ batch'[r] = <<>>
      /\ consuming' \in [Replicas -> {"idle", "handling", "acking", "naking"}]
      /\ \A q \in Replicas : q # r => batch'[q] = batch[q] /\ consuming'[q] = consuming[q]
      /\ \A q \in Replicas : consuming'[q] = "idle" <=> batch'[q] = <<>>
  <2>1. TaskTypes /\ <<>> \in Seq(Messages)
    BY DEF DeliveryInv
  <2> QED
    BY <1>1, <2>1, AfterBegin
<1>3. TaskTypes'
  BY <1>1, <1>2 DEF DeliveryInv, TaskTypes
<1>4. KeyTypes' /\ NewestKept'
  BY <1>1, SameMaterial DEF DeliveryInv
<1> QED
  BY <1>1, <1>2, <1>3, <1>4, DropKeeps

(* A batch of ready messages goes out to the replica.                      *)
LEMMA FetchKeeps ==
  ASSUME DeliveryInv, NEW r \in Replicas, NEW b \in Tasks!Batches, Tasks!Fetch(r, b)
  PROVE  DeliveryInv'
<1> USE DEF DeliveryInv
<1> DEFINE Taken(m) == \E i \in 1 .. Len(b) : b[i] = m
<1>1. /\ b \in Seq(Messages) /\ DOMAIN b = 1 .. Len(b)
      /\ \A i \in 1 .. Len(b) : delivery[b[i]] = "ready"
      /\ \A i, j \in 1 .. Len(b) : i < j => b[i] < b[j]
  <2>1. PICK n \in Nat : b \in [1 .. n -> Tasks!Available] /\ \A i, j \in DOMAIN b : i < j => b[i] < b[j]
    BY DEF Tasks!Batches
  <2>2. DOMAIN stream \subseteq Messages
    <3>1. DOMAIN stream = 1 .. Len(stream) /\ Len(stream) \in Nat /\ Len(stream) <= MaxMessages
      BY DEF TaskTypes
    <3> QED
      BY <3>1, ReplicaBound DEF Messages, Tasks!Messages
  <2>3. Tasks!Available \subseteq Messages /\ \A m \in Tasks!Available : delivery[m] = "ready"
    BY <2>2 DEF Tasks!Available
  <2>4. b \in [1 .. n -> Messages] /\ Len(b) = n /\ DOMAIN b = 1 .. n
    BY <2>1, <2>3
  <2>5. b \in Seq(Messages)
    BY <2>4
  <2> QED
    BY <2>1, <2>3, <2>4, <2>5
<1>2. /\ consuming[r] = "idle" /\ Tasks!Begin(r, b)
      /\ delivery' = [m \in Messages |-> IF m \in Tasks!ToSet(b) THEN "out" ELSE delivery[m]]
      /\ UNCHANGED <<stream, made, born, keys, handled, owed>>
  BY DEF Tasks!Fetch, Tasks!material, Tasks!counts, Messages
<1>3. \A m \in Messages : delivery'[m] = IF Taken(m) THEN "out" ELSE delivery[m]
  BY <1>1, <1>2 DEF Tasks!ToSet
<1>4. /\ batch' \in [Replicas -> Seq(Messages)] /\ batch'[r] = b /\ consuming'[r] # "acking"
      /\ consuming' \in [Replicas -> {"idle", "handling", "acking", "naking"}]
      /\ \A q \in Replicas : q # r => batch'[q] = batch[q] /\ consuming'[q] = consuming[q]
      /\ \A q \in Replicas : consuming'[q] = "idle" <=> batch'[q] = <<>>
  BY <1>1, <1>2, AfterBegin
<1>5. delivery' \in [Messages -> {"ready", "out", "acked"}]
  BY <1>2 DEF TaskTypes
<1>6. TaskTypes'
  BY <1>2, <1>4, <1>5 DEF TaskTypes
<1>7. KeyTypes' /\ NewestKept'
  BY <1>2, SameMaterial
<1>8. Handled'
  <2>1. \A m \in Messages : delivery'[m] = "acked" => delivery[m] = "acked"
    BY <1>3
  <2> QED
    BY <1>2, <1>4, <2>1 DEF Handled
<1>9. InOrder'
  BY <1>1, <1>4 DEF InOrder
<1>10. ASSUME NEW m \in Messages PROVE Cardinality(Claimers(m)') + Ready(m)' <= owed'[m]
  <2>1. Claims(r, m)' => Taken(m)
    BY <1>4 DEF Claims
  <2>2. CASE Taken(m)
    <3>1. delivery[m] = "ready" /\ delivery'[m] = "out" /\ owed'[m] = owed[m]
      BY <1>1, <1>2, <1>3, <2>2
    <3>2. Claimers(m)' \subseteq Claimers(m) \cup {r}
      BY <1>4, OthersClaim
    <3> QED
      BY <3>1, <3>2, TakenCovered
  <2>3. CASE ~Taken(m)
    <3>1. Claimers(m)' \subseteq Claimers(m)
      BY <1>4, <2>1, <2>3, OthersClaim
    <3>2. delivery'[m] = delivery[m] /\ owed'[m] = owed[m]
      BY <1>2, <1>3, <2>3
    <3> QED
      BY <3>1, <3>2, SameCovered
  <2> QED
    BY <2>2, <2>3
<1> QED
  BY <1>6, <1>7, <1>8, <1>9, <1>10 DEF Covered

(* The first message of a batch, as a value; r claims it by nothing else.  *)
LEMMA OneCurrent ==
  ASSUME TaskTypes, InOrder, NEW r \in Replicas, consuming[r] # "idle"
  PROVE  \E c \in Messages :
           /\ c = Tasks!Current(r) /\ c = batch[r][1] /\ 1 \in 1 .. Len(batch[r])
           /\ \A i \in 1 .. Len(batch[r]) : batch[r][i] = c => i = 1
<1>1. /\ Tasks!Current(r) \in Messages /\ Tasks!Current(r) = batch[r][1]
      /\ 1 \in 1 .. Len(batch[r])
  BY RestOfBatch
<1>2. ASSUME NEW i \in 1 .. Len(batch[r]), batch[r][i] = batch[r][1], i # 1 PROVE FALSE
  <2>1. batch[r][1] < batch[r][i]
    BY <1>1, <1>2 DEF InOrder, TaskTypes
  <2>2. batch[r][1] \in Nat
    BY <1>1 DEF Messages, Tasks!Messages
  <2> QED
    BY <1>2, <2>1, <2>2
<1> QED
  BY <1>1, <1>2

(* The handler returns: the execution owed has happened, and the message   *)
(* may be acknowledged.                                                    *)
LEMMA HandlerReturnsKeeps ==
  ASSUME DeliveryInv, NEW r \in Replicas, Tasks!HandlerReturns(r)
  PROVE  DeliveryInv'
<1> USE DEF DeliveryInv
<1>0. consuming[r] = "handling"
  BY DEF Tasks!HandlerReturns
<1>1. PICK c \in Messages :
        /\ c = Tasks!Current(r) /\ c = batch[r][1] /\ 1 \in 1 .. Len(batch[r])
        /\ \A i \in 1 .. Len(batch[r]) : batch[r][i] = c => i = 1
  BY <1>0, OneCurrent
<1>2. /\ handled' = handled \cup {c}
      /\ owed' = [owed EXCEPT ![c] = IF owed[c] < 0 THEN owed[c] ELSE owed[c] - 1]
      /\ Tasks!Goes(r, "acking") /\ UNCHANGED <<stream, delivery, made, born, keys>>
  BY <1>1 DEF Tasks!HandlerReturns, Tasks!AfterHandler, Tasks!broker, Tasks!material
<1>3. /\ batch' = batch /\ batch' \in [Replicas -> Seq(Messages)] /\ consuming'[r] = "acking"
      /\ consuming' \in [Replicas -> {"idle", "handling", "acking", "naking"}]
      /\ \A q \in Replicas : q # r => batch'[q] = batch[q] /\ consuming'[q] = consuming[q]
      /\ \A q \in Replicas : consuming'[q] = "idle" <=> batch'[q] = <<>>
  BY <1>0, <1>2, AfterGoes
<1>4. /\ owed'[c] = owed[c] - 1 /\ owed[c] \in 0 .. MaxOwed /\ MaxOwed \in Nat
      /\ \A m \in Messages : m # c => owed'[m] = owed[m]
  BY <1>2, ReplicaBound DEF TaskTypes
<1>5. ~Claims(r, c)' /\ r \in Claimers(c)
  <2>1. ~Claims(r, c)'
    BY <1>1, <1>3 DEF Claims
  <2>2. Claims(r, c)
    BY <1>0, <1>1 DEF Claims
  <2> QED
    BY <2>1, <2>2 DEF Claimers
<1>6. owed[c] > 0 /\ Cardinality(Claimers(c)') + Ready(c)' <= owed'[c]
  <2>1. Claimers(c)' \subseteq Claimers(c) \ {r}
    BY <1>3, <1>5, OthersClaim
  <2>2. delivery'[c] = delivery[c]
    BY <1>2
  <2> QED
    BY <1>4, <1>5, <2>1, <2>2, LessCovered
<1>7. ASSUME NEW m \in Messages PROVE Cardinality(Claimers(m)') + Ready(m)' <= owed'[m]
  <2>1. CASE m = c
    BY <1>6, <2>1
  <2>2. CASE m # c
    <3>1. Claims(r, m)' => Claims(r, m)
      BY <1>0, <1>3 DEF Claims
    <3>2. Claimers(m)' \subseteq Claimers(m)
      BY <1>3, <3>1, OthersClaim
    <3> QED
      BY <1>2, <1>4, <2>2, <3>2, SameCovered
  <2> QED
    BY <2>1, <2>2
<1>8. TaskTypes'
  <2>1. owed[c] - 1 \in 0 .. MaxOwed
    BY <1>4, <1>6
  <2>2. owed' \in [Messages -> 0 .. MaxOwed]
    BY <1>2, <1>4, <2>1 DEF TaskTypes
  <2> QED
    BY <1>2, <1>3, <2>2 DEF TaskTypes
<1>9. KeyTypes' /\ NewestKept'
  BY <1>2, SameMaterial
<1>10. Handled'
  <2>1. \A q \in Replicas : consuming'[q] = "acking" => batch'[q][1] \in handled'
    BY <1>1, <1>2, <1>3 DEF Handled
  <2> QED
    BY <1>2, <2>1 DEF Handled
<1>11. InOrder'
  BY <1>3 DEF InOrder
<1> QED
  BY <1>7, <1>8, <1>9, <1>10, <1>11 DEF Covered

(* The handler raises, or the acknowledgement: the message is to be        *)
(* refused, and if it was handled it may be handled again.                 *)
LEMMA ToNakKeeps ==
  ASSUME DeliveryInv, NEW r \in Replicas, NEW c \in Messages,
         consuming[r] \in {"handling", "acking"}, c = Tasks!Current(r), Tasks!Goes(r, "naking"),
         UNCHANGED <<stream, delivery, made, born, keys, handled>>,
         \/ consuming[r] = "handling" /\ owed' = owed
         \/ owed' = [owed EXCEPT ![c] = IF owed[c] < MaxOwed THEN owed[c] + 1 ELSE owed[c]]
  PROVE  DeliveryInv'
<1> USE DEF DeliveryInv
<1>1. c = batch[r][1]
  BY RestOfBatch
<1>2. /\ batch' = batch /\ batch' \in [Replicas -> Seq(Messages)] /\ consuming'[r] = "naking"
      /\ consuming' \in [Replicas -> {"idle", "handling", "acking", "naking"}]
      /\ \A q \in Replicas : q # r => batch'[q] = batch[q] /\ consuming'[q] = consuming[q]
      /\ \A q \in Replicas : consuming'[q] = "idle" <=> batch'[q] = <<>>
  BY AfterGoes
<1>3. /\ owed[c] \in 0 .. MaxOwed /\ MaxOwed \in Nat /\ owed \in [Messages -> 0 .. MaxOwed]
      /\ \A m \in Messages : m # c => owed'[m] = owed[m]
      /\ \/ consuming[r] = "handling" /\ owed'[c] = owed[c]
         \/ owed'[c] = (IF owed[c] < MaxOwed THEN owed[c] + 1 ELSE owed[c])
  BY ReplicaBound DEF TaskTypes
<1>4. ASSUME NEW m \in Messages PROVE Cardinality(Claimers(m)') + Ready(m)' <= owed'[m]
  <2>1. CASE m # c \/ (consuming[r] = "handling" /\ owed'[c] = owed[c])
    <3>1. Claims(r, m)' => Claims(r, m)
      BY <1>1, <1>2, <2>1 DEF Claims
    <3>2. Claimers(m)' \subseteq Claimers(m)
      BY <1>2, <3>1, OthersClaim
    <3> QED
      BY <1>3, <2>1, <3>2, SameCovered
  <2>2. CASE m = c /\ owed'[c] = (IF owed[c] < MaxOwed THEN owed[c] + 1 ELSE owed[c])
    <3>1. Claimers(m)' \subseteq Claimers(m) \cup {r}
      BY <1>2, OthersClaim
    <3> QED
      BY <2>2, <3>1, FaultCovered
  <2> QED
    BY <1>3, <2>1, <2>2
<1>5. TaskTypes'
  <2>1. owed' \in [Messages -> 0 .. MaxOwed]
    BY <1>3
  <2> QED
    BY <1>2, <2>1 DEF TaskTypes
<1>6. KeyTypes' /\ NewestKept'
  BY SameMaterial
<1>7. Handled' /\ InOrder'
  BY <1>2 DEF Handled, InOrder
<1> QED
  BY <1>4, <1>5, <1>6, <1>7 DEF Covered

LEMMA HandlerRaisesKeeps ==
  ASSUME DeliveryInv, NEW r \in Replicas, Tasks!HandlerRaises(r)
  PROVE  DeliveryInv'
<1>1. /\ consuming[r] = "handling" /\ Tasks!Goes(r, "naking")
      /\ UNCHANGED <<stream, delivery, made, born, keys, handled, owed>>
  BY DEF Tasks!HandlerRaises, Tasks!AfterError, Tasks!broker, Tasks!material, Tasks!counts
<1>2. PICK c \in Messages : c = Tasks!Current(r)
  BY <1>1, OneCurrent DEF DeliveryInv
<1> QED
  BY <1>1, <1>2, ToNakKeeps

LEMMA AckFailsKeeps ==
  ASSUME DeliveryInv, NEW r \in Replicas, Tasks!AckFails(r)
  PROVE  DeliveryInv'
<1>1. /\ consuming[r] = "acking" /\ Tasks!Goes(r, "naking") /\ Tasks!Fault(Tasks!Current(r))
      /\ UNCHANGED <<stream, delivery, made, born, keys, handled>>
  BY DEF Tasks!AckFails, Tasks!broker, Tasks!material
<1>2. PICK c \in Messages : c = Tasks!Current(r)
  BY <1>1, OneCurrent DEF DeliveryInv
<1>3. owed' = [owed EXCEPT ![c] = IF owed[c] < MaxOwed THEN owed[c] + 1 ELSE owed[c]]
  BY <1>1, <1>2 DEF Tasks!Fault
<1> QED
  BY <1>1, <1>2, <1>3, ToNakKeeps

(* The message is acknowledged or refused, and the next of the batch is    *)
(* begun.                                                                  *)
LEMMA NextOfBatch ==
  ASSUME DeliveryInv, NEW r \in Replicas, NEW c \in Messages, consuming[r] \in {"acking", "naking"},
         c = Tasks!Current(r), Tasks!Begin(r, Tail(batch[r])),
         UNCHANGED <<stream, made, born, keys, handled, owed>>,
         delivery' \in [Messages -> {"ready", "out", "acked"}],
         \A m \in Messages : m # c => delivery'[m] = delivery[m],
         delivery'[c] = "acked" => delivery[c] = "acked" \/ consuming[r] = "acking",
         delivery'[c] = "ready" => delivery[c] = "ready" \/ consuming[r] = "naking"
  PROVE  DeliveryInv'
<1> USE DEF DeliveryInv
<1>1. c = batch[r][1] /\ 1 \in 1 .. Len(batch[r]) /\ Tail(batch[r]) \in Seq(Messages)
  BY RestOfBatch
<1>2. /\ batch' \in [Replicas -> Seq(Messages)] /\ batch'[r] = Tail(batch[r])
      /\ consuming'[r] # "acking"
      /\ consuming' \in [Replicas -> {"idle", "handling", "acking", "naking"}]
      /\ \A q \in Replicas : q # r => batch'[q] = batch[q] /\ consuming'[q] = consuming[q]
      /\ \A q \in Replicas : consuming'[q] = "idle" <=> batch'[q] = <<>>
  BY <1>1, AfterBegin
<1>3. InOrder' /\ \A m \in Messages : Claims(r, m)' => Claims(r, m) /\ m # c
  BY <1>2, RestInOrder
<1>4. ASSUME NEW m \in Messages PROVE Cardinality(Claimers(m)') + Ready(m)' <= owed'[m]
  <2>0. Claimers(m)' \subseteq Claimers(m)
    BY <1>2, <1>3, OthersClaim
  <2>1. CASE m # c \/ consuming[r] = "acking"
    BY <2>0, <2>1, SameCovered
  <2>2. CASE m = c /\ consuming[r] = "naking"
    <3>1. Claims(r, m)
      BY <1>1, <2>2 DEF Claims
    <3>2. ~Claims(r, m)'
      BY <1>3, <2>2
    <3>3. r \in Claimers(m) /\ Claimers(m)' \subseteq Claimers(m) \ {r}
      BY <1>2, <3>1, <3>2, OthersClaim DEF Claimers
    <3> QED
      BY <3>3, LessCovered
  <2> QED
    BY <2>1, <2>2
<1>5. TaskTypes'
  BY <1>2 DEF TaskTypes
<1>6. KeyTypes' /\ NewestKept'
  BY SameMaterial
<1>7. Handled'
  <2>1. consuming[r] = "acking" => c \in handled
    BY <1>1 DEF Handled
  <2>2. \A m \in Messages : delivery'[m] = "acked" => m \in handled'
    BY <2>1 DEF Handled
  <2>3. \A q \in Replicas : consuming'[q] = "acking" => batch'[q][1] \in handled'
    BY <1>2 DEF Handled
  <2> QED
    BY <2>2, <2>3 DEF Handled
<1> QED
  BY <1>3, <1>4, <1>5, <1>6, <1>7 DEF Covered

LEMMA AckKeeps ==
  ASSUME DeliveryInv, NEW r \in Replicas, Tasks!Ack(r)
  PROVE  DeliveryInv'
<1>1. /\ consuming[r] = "acking" /\ Tasks!Begin(r, Tail(batch[r]))
      /\ delivery' \in {delivery, [delivery EXCEPT ![Tasks!Current(r)] = "acked"]}
      /\ UNCHANGED <<stream, made, born, keys, handled, owed>>
  BY DEF Tasks!Ack, Tasks!material, Tasks!counts
<1>2. PICK c \in Messages : c = Tasks!Current(r)
  BY <1>1, OneCurrent DEF DeliveryInv
<1>3. delivery \in [Messages -> {"ready", "out", "acked"}]
  BY DEF DeliveryInv, TaskTypes
<1>4. /\ delivery' \in [Messages -> {"ready", "out", "acked"}]
      /\ \A m \in Messages : m # c => delivery'[m] = delivery[m]
      /\ delivery'[c] \in {delivery[c], "acked"}
  BY <1>1, <1>2, <1>3
<1> QED
  BY <1>1, <1>2, <1>4, NextOfBatch

LEMMA NakKeeps ==
  ASSUME DeliveryInv, NEW r \in Replicas, Tasks!Nak(r)
  PROVE  DeliveryInv'
<1>1. /\ consuming[r] = "naking" /\ Tasks!Begin(r, Tail(batch[r]))
      /\ delivery' = [delivery EXCEPT ![Tasks!Current(r)] =
                        IF delivery[Tasks!Current(r)] = "acked"
                        THEN delivery[Tasks!Current(r)] ELSE "ready"]
      /\ UNCHANGED <<stream, made, born, keys, handled, owed>>
  BY DEF Tasks!Nak, Tasks!material, Tasks!counts
<1>2. PICK c \in Messages : c = Tasks!Current(r)
  BY <1>1, OneCurrent DEF DeliveryInv
<1>3. delivery \in [Messages -> {"ready", "out", "acked"}]
  BY DEF DeliveryInv, TaskTypes
<1>4. /\ delivery' \in [Messages -> {"ready", "out", "acked"}]
      /\ \A m \in Messages : m # c => delivery'[m] = delivery[m]
      /\ delivery'[c] = IF delivery[c] = "acked" THEN delivery[c] ELSE "ready"
  BY <1>1, <1>2, <1>3
<1> QED
  BY <1>1, <1>2, <1>4, NextOfBatch

-----------------------------------------------------------------------------
LEMMA DeliveryKept == DeliveryInv /\ Tasks!Next => DeliveryInv'
<1> SUFFICES ASSUME DeliveryInv, Tasks!Next PROVE DeliveryInv'
  OBVIOUS
<1>1. ASSUME NEW r \in Recipients, NEW k \in 1 .. made[r], Tasks!Publish(r, k) PROVE DeliveryInv'
  <2>1. r \in Replicas
    BY ServiceAssumptions DEF Tasks!DeliveryAssumption
  <2> QED
    BY <1>1, <2>1, PublishKeeps
<1>2. ASSUME NEW r \in Replicas, Tasks!RotateKeys(r) PROVE DeliveryInv'
  BY <1>2, RotateKeeps
<1>3. ASSUME NEW r \in Replicas, Tasks!Restart(r) PROVE DeliveryInv'
  BY <1>3, RestartKeeps
<1>4. ASSUME NEW r \in Replicas, NEW b \in Tasks!Batches, Tasks!Fetch(r, b) PROVE DeliveryInv'
  BY <1>4, FetchKeeps
<1>5. ASSUME NEW r \in Replicas, Tasks!HandlerReturns(r) \/ Tasks!HandlerRaises(r) PROVE DeliveryInv'
  BY <1>5, HandlerReturnsKeeps, HandlerRaisesKeeps
<1>6. ASSUME NEW r \in Replicas, Tasks!Ack(r) \/ Tasks!AckFails(r) \/ Tasks!Nak(r) PROVE DeliveryInv'
  BY <1>6, AckKeeps, AckFailsKeeps, NakKeeps
<1>7. ASSUME NEW r \in Replicas, Tasks!Leave(r) PROVE DeliveryInv'
  BY <1>7, LeaveKeeps
<1>8. ASSUME NEW e \in Messages, Tasks!Expire(e) PROVE DeliveryInv'
  BY <1>8, ExpireKeeps
<1> QED
  BY <1>1, <1>2, <1>3, <1>4, <1>5, <1>6, <1>7, <1>8 DEF Tasks!Next, Messages

(* The durable consumer (messaging/consumer.py, secure_provider.py), for   *)
(* any replicas, batches and history: a task leaves the broker only after  *)
(* a handler returned for it, what is in flight can be opened after a      *)
(* rotation as far as the history goes, and every execution of a message   *)
(* but the first is owed to an acknowledgement that failed or came late.   *)
THEOREM DeliveryIsKept == MCSpec => []DeliveryHolds
<1>1. MCInit => DeliveryInv
  BY DeliveryStarts DEF MCInit
<1>2. DeliveryInv /\ [MCNext]_allVars => DeliveryInv'
  <2> SUFFICES ASSUME DeliveryInv, [MCNext]_allVars PROVE DeliveryInv'
    OBVIOUS
  <2>1. Tasks!Next \/ UNCHANGED taskVars
    BY DEF MCNext, allVars
  <2>2. CASE Tasks!Next
    BY <2>2, DeliveryKept
  <2>3. CASE UNCHANGED taskVars
    BY <2>3 DEF taskVars, DeliveryInv, TaskTypes, KeyTypes, NewestKept, Handled, InOrder, Covered,
                Claimers, Claims, Ready
  <2> QED
    BY <2>1, <2>2, <2>3
<1>3. DeliveryInv => DeliveryHolds
  BY DeliveryInvHolds
<1> QED
  BY <1>1, <1>2, <1>3, PTL DEF MCSpec

-----------------------------------------------------------------------------
(* A set of numbers has a least one.                                       *)
LEMMA Least ==
  ASSUME NEW T, T \subseteq Nat, T # {}
  PROVE  \E x \in T : \A y \in T : x <= y
<1>1. PICK x \in T : \A y \in T : <<y, x>> \notin OpToRel(<, Nat)
  BY NatLessThanWellFounded, WFMin
<1>2. \A y \in T : ~(y < x)
  BY <1>1 DEF OpToRel
<1>3. \A y \in T : x \in Nat /\ y \in Nat
  OBVIOUS
<1> QED
  BY <1>2, <1>3

-----------------------------------------------------------------------------
(***************************************************************************)
(* Tiered memory.  What the policy does to its segments: of the entries    *)
(* that were there, and the one inserted, some remain.                     *)
(***************************************************************************)
K == MemoryKeys
V == Memory!Versions
Policies == [hot : Seq(K), warm : Seq(K), val : [K -> V]]

LEMMA ConcatHolds ==
  ASSUME NEW s \in Seq(K), NEW t \in Seq(K), NEW x
  PROVE  /\ s \o t \in Seq(K)
         /\ Memory!Contains(s \o t, x) => Memory!Contains(s, x) \/ Memory!Contains(t, x)
BY DEF Memory!Contains

LEMMA AppendHolds ==
  ASSUME NEW s \in Seq(K), NEW k \in K, NEW x
  PROVE  /\ Append(s, k) \in Seq(K)
         /\ Memory!Contains(Append(s, k), x) => Memory!Contains(s, x) \/ x = k
BY DEF Memory!Contains

LEMMA PartHolds ==
  ASSUME NEW s \in Seq(K), NEW m \in Nat, NEW n \in Nat, m > 0, n <= Len(s), NEW x
  PROVE  /\ SubSeq(s, m, n) \in Seq(K)
         /\ Memory!Contains(SubSeq(s, m, n), x) => Memory!Contains(s, x)
BY DEF Memory!Contains

LEMMA RemoveHolds ==
  ASSUME NEW s \in Seq(K), NEW k, NEW x
  PROVE  /\ Memory!RemoveFirst(s, k) \in Seq(K)
         /\ Memory!Contains(Memory!RemoveFirst(s, k), x) => Memory!Contains(s, x)
<1> DEFINE I == {i \in 1 .. Len(s) : s[i] = k}
           m == Memory!Min(I)
<1>1. CASE I = {}
  <2>1. Memory!RemoveFirst(s, k) = s
    BY <1>1 DEF Memory!RemoveFirst
  <2> QED BY <2>1
<1>2. CASE I # {}
  <2>1. Memory!RemoveFirst(s, k) = SubSeq(s, 1, m - 1) \o SubSeq(s, m + 1, Len(s))
    BY <1>2, Zenon DEF Memory!RemoveFirst, Memory!RemoveAt, Memory!SelectInSeq
  <2>2. m \in I
    <3> HIDE DEF I
    <3>1. I \subseteq Nat
      BY DEF I
    <3>2. \E y \in I : \A z \in I : y <= z
      BY <1>2, <3>1, Least
    <3> QED BY <3>2 DEF Memory!Min
  <2>3. m \in 1 .. Len(s) /\ Len(s) \in Nat
    BY <2>2
  <2> HIDE DEF I, m
  <2>4. /\ SubSeq(s, 1, m - 1) \in Seq(K)
        /\ Memory!Contains(SubSeq(s, 1, m - 1), x) => Memory!Contains(s, x)
    <3>1. m - 1 \in Nat /\ m - 1 <= Len(s)
      BY <2>3
    <3> QED BY <3>1, PartHolds
  <2>5. /\ SubSeq(s, m + 1, Len(s)) \in Seq(K)
        /\ Memory!Contains(SubSeq(s, m + 1, Len(s)), x) => Memory!Contains(s, x)
    <3>1. m + 1 \in Nat /\ m + 1 > 0 /\ Len(s) <= Len(s)
      BY <2>3
    <3> QED BY <2>3, <3>1, PartHolds
  <2> DEFINE t == SubSeq(s, 1, m - 1)
             u == SubSeq(s, m + 1, Len(s))
  <2>6. t \in Seq(K) /\ u \in Seq(K) /\ Memory!RemoveFirst(s, k) = t \o u
    BY <2>1, <2>4, <2>5
  <2>7. /\ Memory!Contains(t, x) => Memory!Contains(s, x)
        /\ Memory!Contains(u, x) => Memory!Contains(s, x)
    BY <2>4, <2>5
  <2> HIDE DEF t, u
  <2> QED BY <2>6, <2>7, ConcatHolds
<1> QED BY <1>1, <1>2

LEMMA HoldsIs ==
  ASSUME NEW p, NEW x
  PROVE  Memory!Holds(p, x) <=> Memory!Contains(p.hot, x) \/ Memory!Contains(p.warm, x)
BY Zenon DEF Memory!Holds

LEMMA TiersIs ==
  ASSUME NEW h \in Seq(K), NEW w \in Seq(K), NEW v \in [K -> V]
  PROVE  /\ Memory!Tiers(h, w, v) \in Policies
         /\ Memory!Tiers(h, w, v).hot = h /\ Memory!Tiers(h, w, v).warm = w
         /\ Memory!Tiers(h, w, v).val = v
BY DEF Memory!Tiers, Policies

(* What came of policy p by a step that evicts: the values val, and only   *)
(* entries of p or k.                                                      *)
Fewer(r, p, k, val) ==
  /\ r.policy \in Policies /\ r.evicted \in Seq(K) /\ r.policy.val = val
  /\ \A x : Memory!Holds(r.policy, x) => Memory!Holds(p, x) \/ x = k

LEMMA DueIs ==
  ASSUME NEW p \in Policies, Memory!TieredMemoryAssumption, NEW k
  PROVE  Fewer(Memory!Due(p), p, k, p.val)
<1> DEFINE h == Memory!Excess(p.hot, HotMax)
           w == p.warm \o SubSeq(p.hot, 1, h)
           n == Memory!Excess(w, WarmMax)
           a == SubSeq(p.hot, h + 1, Len(p.hot))
           b == SubSeq(w, n + 1, Len(w))
<1>0. p.hot \in Seq(K) /\ p.warm \in Seq(K) /\ p.val \in [K -> V]
  BY DEF Policies
<1>00. HotMax \in Nat /\ WarmMax \in Nat
  BY DEF Memory!TieredMemoryAssumption
<1>1. h \in Nat /\ h <= Len(p.hot) /\ h + 1 > 0 /\ Len(p.hot) \in Nat
  BY <1>0, <1>00 DEF Memory!Excess
<1> HIDE DEF h
<1>2. w \in Seq(K) /\ \A x : Memory!Contains(w, x) => Memory!Holds(p, x)
  <2> DEFINE u == SubSeq(p.hot, 1, h)
  <2>1. u \in Seq(K) /\ \A x : Memory!Contains(u, x) => Memory!Contains(p.hot, x)
    BY <1>0, <1>1, PartHolds
  <2> HIDE DEF u
  <2>2. /\ p.warm \o u \in Seq(K)
        /\ \A x : Memory!Contains(p.warm \o u, x) => Memory!Contains(p.warm, x) \/ Memory!Contains(u, x)
    BY <1>0, <2>1, ConcatHolds
  <2> QED BY <2>1, <2>2, HoldsIs DEF u
<1> HIDE DEF w
<1>3. n \in Nat /\ n <= Len(w) /\ n + 1 > 0 /\ Len(w) \in Nat
  BY <1>2, <1>00 DEF Memory!Excess
<1> HIDE DEF n
<1>4. a \in Seq(K) /\ \A x : Memory!Contains(a, x) => Memory!Holds(p, x)
  <2>1. h + 1 \in Nat /\ Len(p.hot) <= Len(p.hot)
    BY <1>1
  <2> QED BY <1>0, <1>1, <2>1, PartHolds, HoldsIs
<1>5. b \in Seq(K) /\ \A x : Memory!Contains(b, x) => Memory!Holds(p, x)
  <2>1. n + 1 \in Nat /\ Len(w) <= Len(w)
    BY <1>3
  <2> QED BY <1>2, <1>3, <2>1, PartHolds
<1>6. SubSeq(w, 1, n) \in Seq(K)
  BY <1>2, <1>3, PartHolds
<1>7. Memory!Due(p) = [policy |-> Memory!Tiers(a, b, p.val), evicted |-> SubSeq(w, 1, n)]
  BY Zenon DEF Memory!Due, h, w, n
<1> HIDE DEF a, b
<1>8. /\ Memory!Due(p).policy = Memory!Tiers(a, b, p.val)
      /\ Memory!Due(p).evicted = SubSeq(w, 1, n)
  <2> DEFINE t == Memory!Tiers(a, b, p.val)
             e == SubSeq(w, 1, n)
             d == Memory!Due(p)
  <2>1. d = [policy |-> t, evicted |-> e]
    BY <1>7
  <2> HIDE DEF t, e, d
  <2>2. d.policy = t /\ d.evicted = e
    BY <2>1
  <2> QED BY <2>2 DEF t, e, d
<1>9. /\ Memory!Tiers(a, b, p.val) \in Policies
      /\ Memory!Tiers(a, b, p.val).hot = a /\ Memory!Tiers(a, b, p.val).warm = b
      /\ Memory!Tiers(a, b, p.val).val = p.val
  BY <1>0, <1>4, <1>5, TiersIs
<1>10. \A x : Memory!Holds(Memory!Tiers(a, b, p.val), x) => Memory!Holds(p, x)
  BY <1>4, <1>5, <1>9, HoldsIs
<1> QED BY <1>6, <1>8, <1>9, <1>10 DEF Fewer

LEMMA InsertIs ==
  ASSUME NEW p \in Policies, Memory!TieredMemoryAssumption, NEW k \in K, NEW v \in V
  PROVE  Fewer(Memory!Insert(p, k, v), p, k, [p.val EXCEPT ![k] = v])
<1> DEFINE val == [p.val EXCEPT ![k] = v]
<1>0. p.hot \in Seq(K) /\ p.warm \in Seq(K) /\ p.val \in [K -> V] /\ val \in [K -> V]
  BY DEF Policies
<1> HIDE DEF val
<1>1. CASE Memory!Holds(p, k)
  <2> DEFINE t == Memory!Tiers(p.hot, p.warm, val)
             d == Memory!Insert(p, k, v)
  <2>1. d = [policy |-> t, evicted |-> << >>]
    BY <1>1, Zenon DEF Memory!Insert, val
  <2>2. t \in Policies /\ t.hot = p.hot /\ t.warm = p.warm /\ t.val = val
    BY <1>0, TiersIs
  <2> HIDE DEF t, d
  <2>3. d.policy = t /\ d.evicted = << >> /\ << >> \in Seq(K)
    BY <2>1
  <2>4. \A x : Memory!Holds(t, x) => Memory!Holds(p, x)
    BY <2>2, HoldsIs
  <2> QED BY <2>2, <2>3, <2>4 DEF Fewer, d, val
<1>2. CASE ~Memory!Holds(p, k)
  <2> DEFINE a == Append(p.warm, k)
             t == Memory!Tiers(p.hot, a, val)
  <2>1. Memory!Insert(p, k, v) = Memory!Due(t)
    BY <1>2, Zenon DEF Memory!Insert, val
  <2>2. a \in Seq(K) /\ \A x : Memory!Contains(a, x) => Memory!Contains(p.warm, x) \/ x = k
    BY <1>0, AppendHolds
  <2> HIDE DEF a
  <2>3. t \in Policies /\ t.hot = p.hot /\ t.warm = a /\ t.val = val
    BY <1>0, <2>2, TiersIs
  <2> HIDE DEF t
  <2>4. Fewer(Memory!Due(t), t, k, val)
    BY <2>3, DueIs
  <2>5. \A x : Memory!Holds(t, x) => Memory!Holds(p, x) \/ x = k
    BY <2>2, <2>3, HoldsIs
  <2> QED BY <2>1, <2>4, <2>5 DEF Fewer, val
<1> QED BY <1>1, <1>2

LEMMA AccessIs ==
  ASSUME NEW p \in Policies, Memory!TieredMemoryAssumption, NEW k \in K
  PROVE  Fewer(Memory!Access(p, k), p, k, p.val)
<1>0. p.hot \in Seq(K) /\ p.warm \in Seq(K) /\ p.val \in [K -> V]
  BY DEF Policies
<1>1. CASE Memory!Contains(p.hot, k)
  <2> DEFINE b == Memory!RemoveFirst(p.hot, k)
             a == Append(b, k)
             t == Memory!Tiers(a, p.warm, p.val)
             d == Memory!Access(p, k)
  <2>1. d = [policy |-> t, evicted |-> << >>]
    BY <1>1, Zenon DEF Memory!Access
  <2>2. b \in Seq(K) /\ \A x : Memory!Contains(b, x) => Memory!Contains(p.hot, x)
    BY <1>0, RemoveHolds
  <2> HIDE DEF b
  <2>3. a \in Seq(K) /\ \A x : Memory!Contains(a, x) => Memory!Contains(p.hot, x) \/ x = k
    BY <2>2, AppendHolds
  <2> HIDE DEF a
  <2>4. t \in Policies /\ t.hot = a /\ t.warm = p.warm /\ t.val = p.val
    BY <1>0, <2>3, TiersIs
  <2> HIDE DEF t, d
  <2>5. d.policy = t /\ d.evicted = << >> /\ << >> \in Seq(K)
    BY <2>1
  <2>6. \A x : Memory!Holds(t, x) => Memory!Holds(p, x) \/ x = k
    BY <2>3, <2>4, HoldsIs
  <2> QED BY <2>4, <2>5, <2>6 DEF Fewer, d
<1>2. CASE ~Memory!Contains(p.hot, k) /\ Memory!Contains(p.warm, k)
  <2> DEFINE a == Append(p.hot, k)
             b == Memory!RemoveFirst(p.warm, k)
             t == Memory!Tiers(a, b, p.val)
  <2>1. Memory!Access(p, k) = Memory!Due(t)
    BY <1>2, Zenon DEF Memory!Access
  <2>2. a \in Seq(K) /\ \A x : Memory!Contains(a, x) => Memory!Contains(p.hot, x) \/ x = k
    BY <1>0, AppendHolds
  <2>3. b \in Seq(K) /\ \A x : Memory!Contains(b, x) => Memory!Contains(p.warm, x)
    BY <1>0, RemoveHolds
  <2> HIDE DEF a, b
  <2>4. t \in Policies /\ t.hot = a /\ t.warm = b /\ t.val = p.val
    BY <1>0, <2>2, <2>3, TiersIs
  <2> HIDE DEF t
  <2>5. Fewer(Memory!Due(t), t, k, p.val)
    BY <2>4, DueIs
  <2>6. \A x : Memory!Holds(t, x) => Memory!Holds(p, x) \/ x = k
    BY <2>2, <2>3, <2>4, HoldsIs
  <2> QED BY <2>1, <2>5, <2>6 DEF Fewer
<1>3. CASE ~Memory!Contains(p.hot, k) /\ ~Memory!Contains(p.warm, k)
  <2> DEFINE d == Memory!Access(p, k)
  <2>1. d = [policy |-> p, evicted |-> << >>]
    BY <1>3, Zenon DEF Memory!Access
  <2> HIDE DEF d
  <2>2. d.policy = p /\ d.evicted = << >> /\ << >> \in Seq(K)
    BY <2>1
  <2> QED BY <2>2 DEF Fewer, d
<1> QED BY <1>1, <1>2, <1>3

LEMMA RemovedIs ==
  ASSUME NEW p \in Policies, NEW k
  PROVE  /\ Memory!Removed(p, k) \in Policies /\ Memory!Removed(p, k).val = p.val
         /\ \A x : Memory!Holds(Memory!Removed(p, k), x) => Memory!Holds(p, x)
<1> DEFINE a == Memory!RemoveFirst(p.hot, k)
           b == Memory!RemoveFirst(p.warm, k)
           t == Memory!Tiers(a, b, p.val)
<1>0. p.hot \in Seq(K) /\ p.warm \in Seq(K) /\ p.val \in [K -> V]
  BY DEF Policies
<1>1. /\ a \in Seq(K) /\ \A x : Memory!Contains(a, x) => Memory!Contains(p.hot, x)
      /\ b \in Seq(K) /\ \A x : Memory!Contains(b, x) => Memory!Contains(p.warm, x)
  BY <1>0, RemoveHolds
<1>2. Memory!Removed(p, k) = t
  BY Zenon DEF Memory!Removed
<1> HIDE DEF a, b
<1>3. t \in Policies /\ t.hot = a /\ t.warm = b /\ t.val = p.val
  BY <1>0, <1>1, TiersIs
<1> HIDE DEF t
<1>4. \A x : Memory!Holds(t, x) => Memory!Holds(p, x)
  BY <1>1, <1>3, HoldsIs
<1> QED BY <1>2, <1>3, <1>4

-----------------------------------------------------------------------------
(***************************************************************************)
(* A memory is in the warm backend, or it is not there and in the cold     *)
(* one, but for the key that is about to be written to the warm one; and   *)
(* the policy, where it holds the key, has the same.                       *)
(***************************************************************************)
Demoting == {"findWarm", "findCold", "setCold", "remove", "delWarm"}
Places == {"idle", "setWarm", "getWarm", "getCold", "promote", "evict"} \cup Demoting
Operations == [key : K, val : V, demote : Seq(K), found : V, rewarm : BOOLEAN]

InPlace(l, o, p, w, c, last) ==
  /\ \A k \in K : Memory!Holds(p, k) => p.val[k] = last[k]
  /\ \A k \in K : l # "setWarm" \/ o.key # k =>
       (w[k] # 0 => last[k] = w[k]) /\ (w[k] = 0 => last[k] = c[k])
UnderWay(l, o, w, c, last) ==
  /\ l # "idle" /\ (l \in {"setWarm", "promote"} \/ o.rewarm) =>
       o.val = last[o.key] /\ o.val # 0
  /\ l \in {"getWarm", "getCold"} => ~o.rewarm
  /\ l = "getCold" => w[o.key] = 0
  /\ l \in Demoting => o.demote # << >>
  /\ l = "findCold" => w[Head(o.demote)] = 0
  /\ l = "setCold" => o.found = last[Head(o.demote)]
  /\ l \in {"remove", "delWarm"} => c[Head(o.demote)] = last[Head(o.demote)]
MemoryTypes ==
  /\ policy \in Policies
  /\ warm \in [K -> V] /\ cold \in [K -> V] /\ latest \in [K -> V]
  /\ step \in [{"c1"} -> Places] /\ op \in [{"c1"} -> Operations]
MemoryInv ==
  /\ MemoryTypes
  /\ InPlace(step["c1"], op["c1"], policy, warm, cold, latest)
  /\ UnderWay(step["c1"], op["c1"], warm, cold, latest)

LEMMA MemoryParameters ==
  /\ Memory!TieredMemoryAssumption /\ K # {}
  /\ 0 \in V /\ Memory!Nothing = 0
<1>1. Memory!TieredMemoryAssumption
  BY ServiceAssumptions
<1> QED BY <1>1 DEF Memory!TieredMemoryAssumption, Memory!Versions, Memory!Nothing, K, V

LEMMA NoOpIs ==
  /\ Memory!NoOp \in Operations /\ Memory!NoOp.demote = << >> /\ ~Memory!NoOp.rewarm
<1> DEFINE k == CHOOSE k \in MemoryKeys : TRUE
<1>1. k \in K
  BY MemoryParameters DEF K
<1> HIDE DEF k
<1>2. Memory!NoOp = [key |-> k, val |-> 0, demote |-> << >>, found |-> 0, rewarm |-> FALSE]
  BY MemoryParameters, Zenon DEF Memory!NoOp, k
<1> QED BY <1>1, <1>2, MemoryParameters DEF Operations

LEMMA BecomesIs ==
  ASSUME MemoryTypes, NEW l \in Places, NEW o \in Operations, Memory!Becomes("c1", l, o)
  PROVE  /\ step' \in [{"c1"} -> Places] /\ op' \in [{"c1"} -> Operations]
         /\ step'["c1"] = l /\ op'["c1"] = o
BY DEF MemoryTypes, Memory!Becomes

LEMMA MemoryStarts == Memory!Init => MemoryInv
<1> SUFFICES ASSUME Memory!Init PROVE MemoryInv
  OBVIOUS
<1>1. /\ policy = [hot |-> << >>, warm |-> << >>, val |-> [k \in K |-> 0]]
      /\ warm = [k \in K |-> 0] /\ cold = [k \in K |-> 0] /\ latest = [k \in K |-> 0]
      /\ step = [c \in {"c1"} |-> "idle"] /\ op = [c \in {"c1"} |-> Memory!NoOp]
  BY MemoryParameters, Zenon DEF Memory!Init, K
<1>2. MemoryTypes
  BY <1>1, NoOpIs, MemoryParameters DEF MemoryTypes, Policies, Places
<1>3. \A k : ~Memory!Holds(policy, k)
  BY <1>1, HoldsIs DEF Memory!Contains
<1>4. step["c1"] = "idle"
  BY <1>1
<1> QED BY <1>1, <1>2, <1>3, <1>4 DEF MemoryInv, InPlace, UnderWay, Demoting

(* A step that leaves the client at l with the operation o.                *)
LEMMA LeavesSound ==
  ASSUME MemoryInv, NEW l \in Places, NEW o \in Operations, Memory!Becomes("c1", l, o),
         policy' \in Policies, latest' \in [K -> V], warm' \in [K -> V], cold' \in [K -> V],
         InPlace(l, o, policy', warm', cold', latest'), UnderWay(l, o, warm', cold', latest')
  PROVE  MemoryInv'
<1>1. /\ step' \in [{"c1"} -> Places] /\ op' \in [{"c1"} -> Operations]
      /\ step'["c1"] = l /\ op'["c1"] = o
  BY BecomesIs DEF MemoryInv
<1>2. MemoryTypes'
  BY <1>1 DEF MemoryTypes
<1>3. InPlace(step["c1"], op["c1"], policy, warm, cold, latest)'
  BY <1>1, Zenon DEF InPlace
<1>4. UnderWay(step["c1"], op["c1"], warm, cold, latest)'
  BY <1>1, Zenon DEF UnderWay
<1> QED BY <1>2, <1>3, <1>4 DEF MemoryInv

(* Steps that leave all but the client alone.                              *)
LEMMA QuietSound ==
  ASSUME MemoryInv, NEW l \in Places, NEW o \in Operations, Memory!Becomes("c1", l, o),
         UNCHANGED <<policy, warm, cold, latest>>,
         step["c1"] # "setWarm" \/ (l = "setWarm" /\ o.key = op["c1"].key),
         UnderWay(l, o, warm, cold, latest)
  PROVE  MemoryInv'
<1>1. /\ policy' \in Policies /\ latest' \in [K -> V] /\ warm' \in [K -> V] /\ cold' \in [K -> V]
  BY DEF MemoryInv, MemoryTypes
<1>2. InPlace(l, o, policy, warm, cold, latest)
  BY DEF MemoryInv, InPlace
<1> QED BY <1>1, <1>2, LeavesSound

LEMMA StoreKeeps ==
  ASSUME MemoryInv, NEW k \in K, Memory!Store("c1", k) PROVE MemoryInv'
<1> DEFINE v == 1 + (latest[k] % 2)
           r == Memory!Insert(policy, k, v)
           o == [Memory!NoOp EXCEPT !.key = k, !.val = v, !.demote = r.evicted]
<1>0. MemoryTypes /\ InPlace(step["c1"], op["c1"], policy, warm, cold, latest)
  BY DEF MemoryInv
<1>1. /\ step["c1"] = "idle" /\ policy' = r.policy /\ latest' = [latest EXCEPT ![k] = v]
      /\ Memory!Becomes("c1", "setWarm", o) /\ UNCHANGED <<warm, cold>>
  BY Zenon DEF Memory!Store
<1>2. v \in V /\ v # 0
  BY <1>0 DEF MemoryTypes, V, Memory!Versions
<1> HIDE DEF v
<1>3. Fewer(r, policy, k, [policy.val EXCEPT ![k] = v])
  BY <1>0, <1>2, InsertIs, MemoryParameters DEF MemoryTypes
<1> HIDE DEF r
<1>4. /\ r.policy \in Policies /\ r.evicted \in Seq(K)
      /\ r.policy.val = [policy.val EXCEPT ![k] = v]
      /\ \A x : Memory!Holds(r.policy, x) => Memory!Holds(policy, x) \/ x = k
  BY <1>3 DEF Fewer
<1>5. o \in Operations /\ o.key = k /\ o.val = v /\ ~o.rewarm
  BY <1>2, <1>4, NoOpIs DEF Operations
<1> HIDE DEF o
<1>6. /\ latest' \in [K -> V] /\ latest'[k] = v /\ \A x \in K : x # k => latest'[x] = latest[x]
      /\ policy' \in Policies /\ warm' \in [K -> V] /\ cold' \in [K -> V]
  BY <1>0, <1>1, <1>2, <1>4 DEF MemoryTypes
<1>7. policy'.val[k] = v /\ \A x \in K : x # k => policy'.val[x] = policy.val[x]
  BY <1>0, <1>1, <1>4 DEF MemoryTypes, Policies
<1>8. InPlace("setWarm", o, policy', warm', cold', latest')
  BY <1>0, <1>1, <1>4, <1>5, <1>6, <1>7 DEF InPlace
<1>9. UnderWay("setWarm", o, warm', cold', latest')
  BY <1>2, <1>5, <1>6 DEF UnderWay, Demoting
<1> QED BY <1>1, <1>5, <1>6, <1>8, <1>9, LeavesSound DEF Places

LEMMA SetWarmKeeps ==
  ASSUME MemoryInv, Memory!SetWarm("c1") PROVE MemoryInv'
<1> DEFINE o == op["c1"]
<1>0. /\ MemoryTypes /\ InPlace(step["c1"], o, policy, warm, cold, latest)
      /\ UnderWay(step["c1"], o, warm, cold, latest)
  BY DEF MemoryInv
<1>1. /\ step["c1"] = "setWarm" /\ warm' = [warm EXCEPT ![o.key] = o.val]
      /\ Memory!Becomes("c1", "evict", o) /\ UNCHANGED <<policy, cold, latest>>
  BY Zenon DEF Memory!SetWarm, Memory!Warmed, Memory!Goes
<1>2. o \in Operations
  BY <1>0 DEF MemoryTypes
<1> HIDE DEF o
<1>3. o.key \in K /\ o.val \in V /\ o.val = latest[o.key] /\ o.val # 0
  BY <1>0, <1>1, <1>2 DEF Operations, UnderWay
<1>4. /\ warm' \in [K -> V] /\ warm'[o.key] = latest[o.key]
      /\ \A x \in K : x # o.key => warm'[x] = warm[x]
  BY <1>0, <1>1, <1>3 DEF MemoryTypes
<1>5. policy' \in Policies /\ cold' \in [K -> V] /\ latest' \in [K -> V]
  BY <1>0, <1>1 DEF MemoryTypes
<1>6. InPlace("evict", o, policy', warm', cold', latest')
  BY <1>0, <1>1, <1>3, <1>4 DEF InPlace
<1>7. UnderWay("evict", o, warm', cold', latest')
  BY <1>0, <1>1, <1>3 DEF UnderWay, Demoting
<1> QED BY <1>1, <1>2, <1>4, <1>5, <1>6, <1>7, LeavesSound DEF Places

LEMMA RetrieveKeeps ==
  ASSUME MemoryInv, NEW k \in K, Memory!Retrieve("c1", k) PROVE MemoryInv'
<1> DEFINE r == Memory!Access(policy, k)
<1>0. MemoryTypes /\ InPlace(step["c1"], op["c1"], policy, warm, cold, latest)
  BY DEF MemoryInv
<1>1. step["c1"] = "idle" /\ UNCHANGED <<warm, cold, latest>>
  BY DEF Memory!Retrieve
<1>2. CASE Memory!Holds(policy, k)
  <2> DEFINE o == [Memory!NoOp EXCEPT !.key = k, !.demote = r.evicted]
  <2>1. policy' = r.policy /\ Memory!Becomes("c1", "evict", o)
    BY <1>2, Zenon DEF Memory!Retrieve
  <2>2. Fewer(r, policy, k, policy.val)
    BY <1>0, AccessIs, MemoryParameters DEF MemoryTypes
  <2> HIDE DEF r
  <2>3. /\ r.policy \in Policies /\ r.evicted \in Seq(K) /\ r.policy.val = policy.val
        /\ \A x : Memory!Holds(r.policy, x) => Memory!Holds(policy, x)
    BY <1>2, <2>2 DEF Fewer
  <2>4. o \in Operations /\ ~o.rewarm
    BY <2>3, NoOpIs DEF Operations
  <2> HIDE DEF o
  <2>5. InPlace("evict", o, policy', warm', cold', latest')
    BY <1>0, <1>1, <2>1, <2>3 DEF InPlace
  <2>6. UnderWay("evict", o, warm', cold', latest')
    BY <2>4 DEF UnderWay, Demoting
  <2>7. policy' \in Policies /\ warm' \in [K -> V] /\ cold' \in [K -> V] /\ latest' \in [K -> V]
    BY <1>0, <1>1, <2>1, <2>3 DEF MemoryTypes
  <2> QED BY <2>1, <2>4, <2>5, <2>6, <2>7, LeavesSound DEF Places
<1>3. CASE ~Memory!Holds(policy, k)
  <2> DEFINE o == [Memory!NoOp EXCEPT !.key = k]
  <2>1. Memory!Becomes("c1", "getWarm", o) /\ UNCHANGED policy
    BY <1>3, Zenon DEF Memory!Retrieve
  <2>2. o \in Operations /\ ~o.rewarm
    BY NoOpIs DEF Operations
  <2> HIDE DEF o
  <2>3. UnderWay("getWarm", o, warm, cold, latest)
    BY <2>2 DEF UnderWay, Demoting
  <2> QED BY <1>1, <2>1, <2>2, <2>3, QuietSound DEF Places
<1> QED BY <1>2, <1>3

LEMMA GetWarmKeeps ==
  ASSUME MemoryInv, Memory!GetWarm("c1") PROVE MemoryInv'
<1> DEFINE p == op["c1"]
           v == warm[p.key]
           l == IF v # 0 THEN "promote" ELSE IF HasCold THEN "getCold" ELSE "idle"
           o == [p EXCEPT !.val = v]
<1>0. /\ MemoryTypes /\ InPlace(step["c1"], p, policy, warm, cold, latest)
      /\ UnderWay(step["c1"], p, warm, cold, latest)
  BY DEF MemoryInv
<1>1. /\ step["c1"] = "getWarm" /\ Memory!Becomes("c1", l, o)
      /\ UNCHANGED <<policy, warm, cold, latest>>
  BY MemoryParameters, Zenon DEF Memory!GetWarm
<1>2. p \in Operations
  BY <1>0 DEF MemoryTypes
<1> HIDE DEF p
<1>3. p.key \in K /\ v \in V
  BY <1>0, <1>2 DEF Operations, MemoryTypes
<1>4. v = 0 \/ v = latest[p.key]
  BY <1>0, <1>1, <1>3 DEF InPlace
<1>5. o \in Operations /\ o.key = p.key /\ o.val = v /\ o.rewarm = p.rewarm
  BY <1>2, <1>3 DEF Operations
<1>6. UnderWay(l, o, warm, cold, latest)
  <2>1. ~p.rewarm
    BY <1>0, <1>1 DEF UnderWay
  <2> QED BY <1>4, <1>5, <2>1 DEF UnderWay, Demoting
<1>7. l \in Places
  BY DEF Places
<1> HIDE DEF l, o
<1> QED BY <1>1, <1>5, <1>6, <1>7, QuietSound

LEMMA GetColdKeeps ==
  ASSUME MemoryInv, Memory!GetCold("c1") PROVE MemoryInv'
<1> DEFINE p == op["c1"]
           v == cold[p.key]
           l == IF v # 0 THEN "promote" ELSE "idle"
           o == [p EXCEPT !.val = v, !.rewarm = TRUE]
<1>0. /\ MemoryTypes /\ InPlace(step["c1"], p, policy, warm, cold, latest)
      /\ UnderWay(step["c1"], p, warm, cold, latest)
  BY DEF MemoryInv
<1>1. /\ step["c1"] = "getCold" /\ Memory!Becomes("c1", l, o)
      /\ UNCHANGED <<policy, warm, cold, latest>>
  BY MemoryParameters, Zenon DEF Memory!GetCold
<1>2. p \in Operations
  BY <1>0 DEF MemoryTypes
<1> HIDE DEF p
<1>3. p.key \in K /\ v \in V
  BY <1>0, <1>2 DEF Operations, MemoryTypes
<1>4. v = latest[p.key]
  <2>1. warm[p.key] = 0
    BY <1>0, <1>1 DEF UnderWay
  <2>2. warm[p.key] = 0 => latest[p.key] = cold[p.key]
    BY <1>0, <1>1, <1>3 DEF InPlace
  <2> QED BY <2>1, <2>2
<1>5. o \in Operations /\ o.key = p.key /\ o.val = v
  BY <1>2, <1>3 DEF Operations
<1>6. UnderWay(l, o, warm, cold, latest)
  BY <1>4, <1>5 DEF UnderWay, Demoting
<1>7. l \in Places
  BY DEF Places
<1> HIDE DEF l, o
<1> QED BY <1>1, <1>5, <1>6, <1>7, QuietSound

LEMMA PromoteKeeps ==
  ASSUME MemoryInv, Memory!Promote("c1") PROVE MemoryInv'
<1> DEFINE p == op["c1"]
           r == Memory!Insert(policy, p.key, p.val)
           a == Memory!Access(r.policy, p.key)
           o == [p EXCEPT !.demote = r.evicted]
<1>0. /\ MemoryTypes /\ InPlace(step["c1"], p, policy, warm, cold, latest)
      /\ UnderWay(step["c1"], p, warm, cold, latest)
  BY DEF MemoryInv
<1>1. /\ step["c1"] = "promote" /\ Memory!Becomes("c1", "evict", o)
      /\ policy' = a.policy /\ UNCHANGED <<warm, cold, latest>>
  BY Zenon DEF Memory!Promote
<1>2. p \in Operations
  BY <1>0 DEF MemoryTypes
<1> HIDE DEF p
<1>3. p.key \in K /\ p.val \in V /\ p.val = latest[p.key] /\ p.val # 0
  BY <1>0, <1>1, <1>2 DEF Operations, UnderWay
<1>4. Fewer(r, policy, p.key, [policy.val EXCEPT ![p.key] = p.val])
  BY <1>0, <1>3, InsertIs, MemoryParameters DEF MemoryTypes
<1> HIDE DEF r
<1>5. r.policy \in Policies /\ r.evicted \in Seq(K)
  BY <1>4 DEF Fewer
<1>6. Fewer(a, r.policy, p.key, r.policy.val)
  BY <1>3, <1>5, AccessIs, MemoryParameters
<1> HIDE DEF a
<1>7. /\ a.policy \in Policies /\ a.policy.val = [policy.val EXCEPT ![p.key] = p.val]
      /\ \A x : Memory!Holds(a.policy, x) => Memory!Holds(policy, x) \/ x = p.key
  BY <1>4, <1>6 DEF Fewer
<1>8. o \in Operations /\ o.key = p.key /\ o.val = p.val /\ o.rewarm = p.rewarm
  BY <1>2, <1>5 DEF Operations
<1> HIDE DEF o
<1>9. /\ policy'.val[p.key] = latest[p.key]
      /\ \A x \in K : x # p.key => policy'.val[x] = policy.val[x]
  BY <1>0, <1>1, <1>3, <1>7 DEF MemoryTypes, Policies
<1>10. InPlace("evict", o, policy', warm', cold', latest')
  BY <1>0, <1>1, <1>7, <1>9 DEF InPlace
<1>11. UnderWay("evict", o, warm', cold', latest')
  BY <1>1, <1>3, <1>8 DEF UnderWay, Demoting
<1>12. policy' \in Policies /\ warm' \in [K -> V] /\ cold' \in [K -> V] /\ latest' \in [K -> V]
  BY <1>0, <1>1, <1>7 DEF MemoryTypes
<1> QED BY <1>1, <1>8, <1>10, <1>11, <1>12, LeavesSound DEF Places

LEMMA DemoteKeeps ==
  ASSUME MemoryInv, NEW k \in K, Memory!Demote("c1", k) PROVE MemoryInv'
<1> DEFINE o == [Memory!NoOp EXCEPT !.key = k, !.demote = <<k>>]
<1>1. /\ step["c1"] = "idle" /\ Memory!Becomes("c1", "evict", o)
      /\ UNCHANGED <<policy, warm, cold, latest>>
  BY Zenon DEF Memory!Demote
<1>2. o \in Operations /\ ~o.rewarm
  <2> DEFINE s == <<k>>
  <2>1. s \in Seq(K)
    OBVIOUS
  <2> HIDE DEF s
  <2>2. [Memory!NoOp EXCEPT !.key = k, !.demote = s] \in Operations
    BY <2>1, NoOpIs DEF Operations
  <2>3. ~[Memory!NoOp EXCEPT !.key = k, !.demote = s].rewarm
    BY <2>1, NoOpIs DEF Operations
  <2> QED BY <2>2, <2>3 DEF s
<1> HIDE DEF o
<1>3. UnderWay("evict", o, warm, cold, latest)
  BY <1>2 DEF UnderWay, Demoting
<1> QED BY <1>1, <1>2, <1>3, QuietSound DEF Places

LEMMA FinishKeeps ==
  ASSUME MemoryInv, Memory!Finish("c1") PROVE MemoryInv'
<1> DEFINE p == op["c1"]
           o == [p EXCEPT !.demote = << >>, !.rewarm = FALSE]
<1>0. /\ MemoryTypes /\ InPlace(step["c1"], p, policy, warm, cold, latest)
      /\ UnderWay(step["c1"], p, warm, cold, latest)
  BY DEF MemoryInv
<1>1. /\ step["c1"] = "evict" /\ UNCHANGED <<policy, warm, cold, latest>>
      /\ p.rewarm => Memory!Becomes("c1", "setWarm", o)
      /\ ~p.rewarm => Memory!Becomes("c1", "idle", Memory!NoOp)
  BY Zenon DEF Memory!Finish
<1>2. p \in Operations
  BY <1>0 DEF MemoryTypes
<1> HIDE DEF p
<1>3. CASE p.rewarm
  <2>1. o \in Operations /\ o.key = p.key /\ o.val = p.val /\ ~o.rewarm
    <3> DEFINE s == << >>
               q == [p EXCEPT !.demote = s, !.rewarm = FALSE]
    <3>1. s \in Seq(K)
      OBVIOUS
    <3> HIDE DEF s
    <3>2. q \in Operations /\ q.key = p.key /\ q.val = p.val /\ ~q.rewarm
      BY <1>2, <3>1 DEF Operations
    <3> QED BY <3>2 DEF s
  <2> HIDE DEF o
  <2>2. UnderWay("setWarm", o, warm, cold, latest)
    BY <1>0, <1>1, <1>3, <2>1 DEF UnderWay, Demoting
  <2> QED BY <1>1, <1>3, <2>1, <2>2, QuietSound DEF Places
<1>4. CASE ~p.rewarm
  <2>1. UnderWay("idle", Memory!NoOp, warm, cold, latest)
    BY DEF UnderWay, Demoting
  <2> QED BY <1>1, <1>4, <2>1, NoOpIs, QuietSound DEF Places
<1> QED BY <1>3, <1>4

(* Demotion: what is found is what was stored last, wherever it was found. *)
LEMMA TailIs ==
  ASSUME NEW p \in Operations, p.demote # << >>
  PROVE  /\ Head(p.demote) \in K
         /\ [p EXCEPT !.demote = Tail(p.demote)] \in Operations
         /\ [p EXCEPT !.demote = Tail(p.demote)].key = p.key
         /\ [p EXCEPT !.demote = Tail(p.demote)].val = p.val
         /\ [p EXCEPT !.demote = Tail(p.demote)].rewarm = p.rewarm
<1>1. p.demote \in Seq(K)
  BY DEF Operations
<1>2. Head(p.demote) \in K /\ Tail(p.demote) \in Seq(K)
  BY <1>1
<1> DEFINE t == Tail(p.demote)
<1> HIDE DEF t
<1>3. t \in Seq(K) => /\ [p EXCEPT !.demote = t] \in Operations
                      /\ [p EXCEPT !.demote = t].key = p.key
                      /\ [p EXCEPT !.demote = t].val = p.val
                      /\ [p EXCEPT !.demote = t].rewarm = p.rewarm
  BY DEF Operations
<1> QED BY <1>2, <1>3 DEF t

LEMMA FoundIs ==
  ASSUME NEW p \in Operations, NEW v \in V
  PROVE  /\ [p EXCEPT !.found = v] \in Operations
         /\ [p EXCEPT !.found = v].key = p.key
         /\ [p EXCEPT !.found = v].val = p.val
         /\ [p EXCEPT !.found = v].demote = p.demote
         /\ [p EXCEPT !.found = v].found = v
         /\ [p EXCEPT !.found = v].rewarm = p.rewarm
BY DEF Operations

LEMMA FindVictimKeeps ==
  ASSUME MemoryInv, Memory!FindVictim("c1") PROVE MemoryInv'
<1> DEFINE p == op["c1"]
           h == Head(p.demote)
           v == policy.val[h]
           o == [p EXCEPT !.found = v]
<1>0. /\ MemoryTypes /\ InPlace(step["c1"], p, policy, warm, cold, latest)
      /\ UnderWay(step["c1"], p, warm, cold, latest)
  BY DEF MemoryInv
<1>1. /\ step["c1"] = "evict" /\ p.demote # << >> /\ UNCHANGED <<policy, warm, cold, latest>>
      /\ Memory!Holds(policy, h) => Memory!Becomes("c1", "setCold", o)
      /\ ~Memory!Holds(policy, h) => Memory!Becomes("c1", "findWarm", p)
  BY Zenon DEF Memory!FindVictim, Memory!Victim, Memory!Goes
<1>2. p \in Operations
  BY <1>0 DEF MemoryTypes
<1> HIDE DEF p
<1>3. h \in K
  BY <1>1, <1>2, TailIs
<1>4. CASE Memory!Holds(policy, h)
  <2>1. v \in V /\ v = latest[h]
    BY <1>0, <1>3, <1>4 DEF MemoryTypes, Policies, InPlace
  <2>2. /\ o \in Operations /\ o.key = p.key /\ o.val = p.val /\ o.demote = p.demote
        /\ o.found = v /\ o.rewarm = p.rewarm
    BY <1>2, <2>1, FoundIs
  <2> HIDE DEF o, v
  <2>3. UnderWay("setCold", o, warm, cold, latest)
    BY <1>0, <1>1, <2>1, <2>2 DEF UnderWay, Demoting
  <2> QED BY <1>1, <1>4, <2>2, <2>3, QuietSound DEF Places, Demoting
<1>5. CASE ~Memory!Holds(policy, h)
  <2>1. UnderWay("findWarm", p, warm, cold, latest)
    BY <1>0, <1>1 DEF UnderWay, Demoting
  <2> QED BY <1>1, <1>2, <1>5, <2>1, QuietSound DEF Places, Demoting
<1> QED BY <1>4, <1>5

LEMMA FindWarmKeeps ==
  ASSUME MemoryInv, Memory!FindWarm("c1") PROVE MemoryInv'
<1> DEFINE p == op["c1"]
           h == Head(p.demote)
           v == warm[h]
           l == IF v # 0 THEN "setCold" ELSE "findCold"
           o == [p EXCEPT !.found = v]
<1>0. /\ MemoryTypes /\ InPlace(step["c1"], p, policy, warm, cold, latest)
      /\ UnderWay(step["c1"], p, warm, cold, latest)
  BY DEF MemoryInv
<1>1. /\ step["c1"] = "findWarm" /\ UNCHANGED <<policy, warm, cold, latest>>
      /\ Memory!Becomes("c1", l, o)
  BY MemoryParameters, Zenon DEF Memory!FindWarm, Memory!Victim
<1>2. p \in Operations
  BY <1>0 DEF MemoryTypes
<1> HIDE DEF p
<1>3. p.demote # << >>
  BY <1>0, <1>1 DEF UnderWay, Demoting
<1>4. h \in K
  BY <1>2, <1>3, TailIs
<1>5. v \in V /\ (v # 0 => v = latest[h])
  BY <1>0, <1>1, <1>4 DEF MemoryTypes, InPlace
<1>6. /\ o \in Operations /\ o.key = p.key /\ o.val = p.val /\ o.demote = p.demote
      /\ o.found = v /\ o.rewarm = p.rewarm
  BY <1>2, <1>5, FoundIs
<1> HIDE DEF o
<1>7. UnderWay(l, o, warm, cold, latest)
  BY <1>0, <1>1, <1>3, <1>5, <1>6 DEF UnderWay, Demoting
<1>8. l \in Places
  BY DEF Places, Demoting
<1> HIDE DEF l
<1> QED BY <1>1, <1>6, <1>7, <1>8, QuietSound

LEMMA FindColdKeeps ==
  ASSUME MemoryInv, Memory!FindCold("c1") PROVE MemoryInv'
<1> DEFINE p == op["c1"]
           h == Head(p.demote)
           v == cold[h]
           o == [p EXCEPT !.found = v]
           n == [p EXCEPT !.demote = Tail(p.demote)]
<1>0. /\ MemoryTypes /\ InPlace(step["c1"], p, policy, warm, cold, latest)
      /\ UnderWay(step["c1"], p, warm, cold, latest)
  BY DEF MemoryInv
<1>1. /\ step["c1"] = "findCold" /\ UNCHANGED <<policy, warm, cold, latest>>
      /\ v # 0 => Memory!Becomes("c1", "setCold", o)
      /\ v = 0 => Memory!Becomes("c1", "evict", n)
  BY MemoryParameters, Zenon DEF Memory!FindCold, Memory!Victim, Memory!NextVictim
<1>2. p \in Operations
  BY <1>0 DEF MemoryTypes
<1> HIDE DEF p
<1>3. p.demote # << >> /\ warm[h] = 0
  BY <1>0, <1>1 DEF UnderWay, Demoting
<1>4. h \in K
  BY <1>2, <1>3, TailIs
<1>5. CASE v # 0
  <2>1. v \in V /\ v = latest[h]
    BY <1>0, <1>1, <1>3, <1>4 DEF MemoryTypes, InPlace
  <2>2. /\ o \in Operations /\ o.key = p.key /\ o.val = p.val /\ o.demote = p.demote
        /\ o.found = v /\ o.rewarm = p.rewarm
    BY <1>2, <2>1, FoundIs
  <2> HIDE DEF o
  <2>3. UnderWay("setCold", o, warm, cold, latest)
    BY <1>0, <1>1, <1>3, <2>1, <2>2 DEF UnderWay, Demoting
  <2> QED BY <1>1, <1>5, <2>2, <2>3, QuietSound DEF Places, Demoting
<1>6. CASE v = 0
  <2>1. n \in Operations /\ n.key = p.key /\ n.val = p.val /\ n.rewarm = p.rewarm
    BY <1>2, <1>3, TailIs
  <2> HIDE DEF n
  <2>2. UnderWay("evict", n, warm, cold, latest)
    BY <1>0, <1>1, <2>1 DEF UnderWay, Demoting
  <2> QED BY <1>1, <1>6, <2>1, <2>2, QuietSound DEF Places
<1> QED BY <1>5, <1>6

LEMMA SetColdKeeps ==
  ASSUME MemoryInv, Memory!SetCold("c1") PROVE MemoryInv'
<1> DEFINE o == op["c1"]
           h == Head(o.demote)
<1>0. /\ MemoryTypes /\ InPlace(step["c1"], o, policy, warm, cold, latest)
      /\ UnderWay(step["c1"], o, warm, cold, latest)
  BY DEF MemoryInv
<1>1. /\ step["c1"] = "setCold" /\ cold' = [cold EXCEPT ![h] = o.found]
      /\ Memory!Becomes("c1", "remove", o) /\ UNCHANGED <<policy, warm, latest>>
  BY Zenon DEF Memory!SetCold, Memory!Victim, Memory!Goes
<1>2. o \in Operations
  BY <1>0 DEF MemoryTypes
<1> HIDE DEF o
<1>3. o.demote # << >> /\ o.found = latest[h] /\ o.found \in V
  BY <1>0, <1>1, <1>2 DEF UnderWay, Demoting, Operations
<1>4. h \in K
  BY <1>2, <1>3, TailIs
<1> HIDE DEF h
<1>5. /\ cold' \in [K -> V] /\ cold'[h] = latest[h]
      /\ \A x \in K : x # h => cold'[x] = cold[x]
  BY <1>0, <1>1, <1>3, <1>4 DEF MemoryTypes
<1>6. policy' \in Policies /\ warm' \in [K -> V] /\ latest' \in [K -> V]
  BY <1>0, <1>1 DEF MemoryTypes
<1>7. InPlace("remove", o, policy', warm', cold', latest')
  <2>1. \A k \in K : Memory!Holds(policy, k) => policy.val[k] = latest[k]
    BY <1>0, Zenon DEF InPlace
  <2>2. \A k \in K : (warm[k] # 0 => latest[k] = warm[k]) /\ (warm[k] = 0 => latest[k] = cold[k])
    BY <1>0, <1>1 DEF InPlace
  <2>3. \A k \in K : (warm'[k] # 0 => latest'[k] = warm'[k]) /\ (warm'[k] = 0 => latest'[k] = cold'[k])
    BY <1>1, <1>5, <2>2
  <2> QED BY <1>1, <2>1, <2>3 DEF InPlace
<1>8. UnderWay("remove", o, warm', cold', latest')
  BY <1>0, <1>1, <1>3, <1>5 DEF UnderWay, Demoting, h
<1> QED BY <1>1, <1>2, <1>5, <1>6, <1>7, <1>8, LeavesSound DEF Places, Demoting

LEMMA RemoveVictimKeeps ==
  ASSUME MemoryInv, Memory!RemoveVictim("c1") PROVE MemoryInv'
<1> DEFINE o == op["c1"]
           h == Head(o.demote)
           r == Memory!Removed(policy, h)
<1>0. /\ MemoryTypes /\ InPlace(step["c1"], o, policy, warm, cold, latest)
      /\ UnderWay(step["c1"], o, warm, cold, latest)
  BY DEF MemoryInv
<1>1. /\ step["c1"] = "remove" /\ policy' = r
      /\ Memory!Becomes("c1", "delWarm", o) /\ UNCHANGED <<warm, cold, latest>>
  BY Zenon DEF Memory!RemoveVictim, Memory!Victim, Memory!Goes
<1>2. o \in Operations
  BY <1>0 DEF MemoryTypes
<1> HIDE DEF o
<1>3. /\ r \in Policies /\ r.val = policy.val
      /\ \A x : Memory!Holds(r, x) => Memory!Holds(policy, x)
  BY <1>0, RemovedIs DEF MemoryTypes
<1> HIDE DEF r
<1>4. /\ policy' \in Policies /\ warm' \in [K -> V] /\ cold' \in [K -> V] /\ latest' \in [K -> V]
  BY <1>0, <1>1, <1>3 DEF MemoryTypes
<1>5. InPlace("delWarm", o, policy', warm', cold', latest')
  BY <1>0, <1>1, <1>3 DEF InPlace
<1>6. UnderWay("delWarm", o, warm', cold', latest')
  BY <1>0, <1>1 DEF UnderWay, Demoting
<1> QED BY <1>1, <1>2, <1>4, <1>5, <1>6, LeavesSound DEF Places, Demoting

LEMMA DeleteWarmKeeps ==
  ASSUME MemoryInv, Memory!DeleteWarm("c1") PROVE MemoryInv'
<1> DEFINE p == op["c1"]
           h == Head(p.demote)
           n == [p EXCEPT !.demote = Tail(p.demote)]
<1>0. /\ MemoryTypes /\ InPlace(step["c1"], p, policy, warm, cold, latest)
      /\ UnderWay(step["c1"], p, warm, cold, latest)
  BY DEF MemoryInv
<1>1. /\ step["c1"] = "delWarm" /\ warm' = [warm EXCEPT ![h] = 0]
      /\ Memory!Becomes("c1", "evict", n) /\ UNCHANGED <<policy, cold, latest>>
  BY MemoryParameters, Zenon DEF Memory!DeleteWarm, Memory!Victim, Memory!NextVictim
<1>2. p \in Operations
  BY <1>0 DEF MemoryTypes
<1> HIDE DEF p
<1>3. p.demote # << >> /\ cold[h] = latest[h]
  BY <1>0, <1>1 DEF UnderWay, Demoting
<1>4. h \in K
  BY <1>2, <1>3, TailIs
<1>5. n \in Operations /\ n.key = p.key /\ n.val = p.val /\ n.rewarm = p.rewarm
  BY <1>2, <1>3, TailIs
<1> HIDE DEF h, n
<1>6. /\ warm' \in [K -> V] /\ warm'[h] = 0
      /\ \A x \in K : x # h => warm'[x] = warm[x]
  BY <1>0, <1>1, <1>4, MemoryParameters DEF MemoryTypes
<1>7. policy' \in Policies /\ cold' \in [K -> V] /\ latest' \in [K -> V]
  BY <1>0, <1>1 DEF MemoryTypes
<1>8. InPlace("evict", n, policy', warm', cold', latest')
  <2>1. \A k \in K : Memory!Holds(policy, k) => policy.val[k] = latest[k]
    BY <1>0, Zenon DEF InPlace
  <2>2. \A k \in K : (warm[k] # 0 => latest[k] = warm[k]) /\ (warm[k] = 0 => latest[k] = cold[k])
    BY <1>0, <1>1 DEF InPlace
  <2>3. \A k \in K : (warm'[k] # 0 => latest'[k] = warm'[k]) /\ (warm'[k] = 0 => latest'[k] = cold'[k])
    BY <1>1, <1>3, <1>6, <2>2
  <2> QED BY <1>1, <2>1, <2>3 DEF InPlace
<1>9. UnderWay("evict", n, warm', cold', latest')
  BY <1>0, <1>1, <1>5 DEF UnderWay, Demoting
<1> QED BY <1>1, <1>5, <1>6, <1>7, <1>8, <1>9, LeavesSound DEF Places

LEMMA MemoryMoves ==
  ASSUME MemoryInv, Memory!Next PROVE MemoryInv'
<1>1. CASE \E k \in K : Memory!Store("c1", k) \/ Memory!Retrieve("c1", k) \/ Memory!Demote("c1", k)
  BY <1>1, StoreKeeps, RetrieveKeeps, DemoteKeeps
<1>2. CASE \/ Memory!SetWarm("c1") \/ Memory!GetWarm("c1") \/ Memory!GetCold("c1")
           \/ Memory!Promote("c1") \/ Memory!FindVictim("c1") \/ Memory!FindWarm("c1")
  BY <1>2, SetWarmKeeps, GetWarmKeeps, GetColdKeeps, PromoteKeeps, FindVictimKeeps, FindWarmKeeps
<1>3. CASE \/ Memory!FindCold("c1") \/ Memory!SetCold("c1") \/ Memory!RemoveVictim("c1")
           \/ Memory!DeleteWarm("c1") \/ Memory!Finish("c1")
  BY <1>3, FindColdKeeps, SetColdKeeps, RemoveVictimKeeps, DeleteWarmKeeps, FinishKeeps
<1> QED BY <1>1, <1>2, <1>3, Zenon DEF Memory!Next, K

LEMMA MemoryStays ==
  ASSUME MemoryInv, UNCHANGED memoryVars PROVE MemoryInv'
BY Zenon DEF memoryVars, MemoryInv, MemoryTypes

LEMMA MemoryStep ==
  ASSUME MemoryInv, [MCNext]_allVars PROVE MemoryInv'
<1>1. Memory!Next \/ UNCHANGED memoryVars
  BY Zenon DEF MCNext, allVars
<1> QED BY <1>1, MemoryMoves, MemoryStays

LEMMA MemoryRemembers == MemoryInv => Remembered
<1> SUFFICES ASSUME MemoryInv, step["c1"] = "idle", NEW k \in K
             PROVE  Memory!Lookup(k) = latest[k]
  BY MemoryParameters, Zenon DEF Remembered, Memory!Remembered, K
<1>1. /\ Memory!Holds(policy, k) => policy.val[k] = latest[k]
      /\ warm[k] # 0 => latest[k] = warm[k]
      /\ warm[k] = 0 => latest[k] = cold[k]
  BY DEF MemoryInv, InPlace
<1> QED BY <1>1, MemoryParameters DEF Memory!Lookup

(***************************************************************************)
(* With one client, whatever is stored is found again: a value that a      *)
(* store or a promotion pushed out of the policy, that demote moved to the *)
(* cold backend, and that a retrieve brought back, is the last one stored. *)
(***************************************************************************)
THEOREM MemoryIsKept == MCSpec => []Remembered
<1>1. MCInit => MemoryInv
  BY MemoryStarts, Zenon DEF MCInit
<1>2. MemoryInv /\ [MCNext]_allVars => MemoryInv'
  BY MemoryStep
<1> QED BY <1>1, <1>2, MemoryRemembers, PTL DEF MCSpec

-----------------------------------------------------------------------------
(* Induction over the naturals: of the numbers outside T the least would   *)
(* have a predecessor inside.                                              *)
LEMMA Induct ==
  ASSUME NEW T, 0 \in T, \A n \in Nat : n \in T => n + 1 \in T
  PROVE  Nat \subseteq T
<1> SUFFICES ASSUME Nat \ T # {} PROVE FALSE
  OBVIOUS
<1>1. PICK x \in Nat \ T : \A y \in Nat \ T : x <= y
  <2> DEFINE U == Nat \ T
  <2>1. U \subseteq Nat /\ U # {}
    OBVIOUS
  <2> HIDE DEF U
  <2>2. \E x \in U : \A y \in U : x <= y
    BY <2>1, Least
  <2> QED BY <2>2 DEF U
<1>2. x # 0 /\ x \in Nat
  BY <1>1
<1>3. x - 1 \in Nat /\ ~(x <= x - 1) /\ (x - 1) + 1 = x
  BY <1>2
<1>4. x - 1 \in T
  BY <1>1, <1>3
<1> QED BY <1>1, <1>3, <1>4

(***************************************************************************)
(* Budgets.  Tenants and the ones above them, with accounts acc.           *)
(***************************************************************************)
Height == Cardinality(Tenants)
Above(s, acc) == IF s = NoParent THEN NoParent ELSE acc[s].parent
Climbs(f, t, acc, m) == f = [n \in 0 .. m |-> IF n = 0 THEN t ELSE Above(f[n - 1], acc)]
Path(t, acc) == CHOOSE f : Climbs(f, t, acc, Height)
ChainIn(acc, t) == {Path(t, acc)[n] : n \in DOMAIN Path(t, acc)} \ {NoParent}

LEMMA BudgetParameters ==
  /\ Budget!BudgetAssumption
  /\ Height \in Nat /\ NoParent \notin Tenants /\ Limits \subseteq Nat
  /\ \A d \in Debits : d.tenant \in Tenants /\ d.amount \in Int
  /\ \A f \in Finals : f.tenant \in Tenants /\ f.actual \in Int
<1>1. Budget!BudgetAssumption
  BY ServiceAssumptions
<1>2. IsFiniteSet(Tenants)
  BY <1>1, Zenon DEF Budget!BudgetAssumption, Budget!IsFiniteSet, IsFiniteSet
<1> QED BY <1>1, <1>2, FS_CardinalityType DEF Budget!BudgetAssumption, Height

LEMMA ChainIs ==
  /\ \A t : Budget!Chain(t) = ChainIn(accounts, t)
  /\ \A t : Budget!Chain(t)' = ChainIn(accounts', t)
<1>0. Budget!Cardinality(Tenants) = Height
  BY Zenon DEF Budget!Cardinality, Cardinality, Height, Budget!IsFiniteSet, IsFiniteSet
<1>1. \A t : Budget!Climb(t) = Path(t, accounts)
  BY <1>0, Zenon DEF Budget!Climb, Path, Climbs, Above
<1>2. \A t : Budget!Climb(t)' = Path(t, accounts')
  BY <1>0, Zenon DEF Budget!Climb, Path, Climbs, Above
<1>3. \A t : Budget!Chain(t) = ChainIn(accounts, t)
  BY <1>1, Zenon DEF Budget!Chain, ChainIn
<1>4. \A t : Budget!Chain(t)' = ChainIn(accounts', t)
  BY <1>2, Zenon DEF Budget!Chain, ChainIn
<1> QED BY <1>3, <1>4

LEMMA ClimbExists ==
  ASSUME NEW t, NEW acc, NEW k \in Nat
  PROVE  \E f : Climbs(f, t, acc, k)
<1> DEFINE T == {m \in Nat : \E f : Climbs(f, t, acc, m)}
<1>1. 0 \in T
  <2> DEFINE f == [i \in 0 .. 0 |-> t]
  <2>1. Climbs(f, t, acc, 0)
    BY DEF Climbs
  <2> HIDE DEF f
  <2> QED BY <2>1
<1>2. ASSUME NEW m \in Nat, m \in T PROVE m + 1 \in T
  <2>1. PICK f : Climbs(f, t, acc, m)
    BY <1>2
  <2> DEFINE g == [i \in 0 .. (m + 1) |-> IF i = 0 THEN t ELSE Above(f[i - 1], acc)]
  <2>2. \A i \in 0 .. m : f[i] = (IF i = 0 THEN t ELSE Above(f[i - 1], acc))
    BY <2>1, Zenon DEF Climbs
  <2>3. \A i \in 0 .. m : i \in 0 .. (m + 1)
    OBVIOUS
  <2>4. \A i \in 0 .. m : g[i] = f[i]
    BY <2>2, <2>3, Zenon
  <2>5. \A i \in 0 .. (m + 1) : i # 0 => i - 1 \in 0 .. m
    OBVIOUS
  <2>6. \A i \in 0 .. (m + 1) : i # 0 => g[i - 1] = f[i - 1]
    BY <2>4, <2>5
  <2>7. Climbs(g, t, acc, m + 1)
    BY <2>6, Zenon DEF Climbs
  <2> HIDE DEF g
  <2> QED BY <2>7
<1>3. Nat \subseteq T
  <2> HIDE DEF T
  <2> QED BY <1>1, <1>2, Induct
<1> QED BY <1>3

LEMMA PathIs ==
  ASSUME NEW t, NEW acc
  PROVE  /\ DOMAIN Path(t, acc) = 0 .. Height /\ Path(t, acc)[0] = t
         /\ \A n \in Nat : n + 1 \in 0 .. Height =>
              Path(t, acc)[n + 1] = Above(Path(t, acc)[n], acc)
<1> DEFINE f == Path(t, acc)
<1>0. Height \in Nat
  BY BudgetParameters
<1>1. Climbs(f, t, acc, Height)
  BY <1>0, ClimbExists DEF Path
<1> HIDE DEF f
<1>2. DOMAIN f = 0 .. Height
  BY <1>1, Zenon DEF Climbs
<1>3. \A i \in 0 .. Height : f[i] = IF i = 0 THEN t ELSE Above(f[i - 1], acc)
  BY <1>1, Zenon DEF Climbs
<1>4. f[0] = t
  BY <1>0, <1>3
<1>5. ASSUME NEW n \in Nat, n + 1 \in 0 .. Height
      PROVE  f[n + 1] = Above(f[n], acc)
  <2>1. n + 1 # 0 /\ (n + 1) - 1 = n
    OBVIOUS
  <2> QED BY <1>3, <1>5, <2>1
<1> QED BY <1>2, <1>4, <1>5 DEF f

(* Accounts whose parents, if any, have accounts; and more of them.        *)
Rooted(acc) ==
  NoParent \notin DOMAIN acc /\ \A t \in DOMAIN acc : acc[t].parent \in DOMAIN acc \cup {NoParent}
Extends(new, acc) ==
  DOMAIN acc \subseteq DOMAIN new /\ \A t \in DOMAIN acc : new[t].parent = acc[t].parent

LEMMA ChainWithin ==
  ASSUME NEW acc, Rooted(acc), NEW t \in DOMAIN acc
  PROVE  t \in ChainIn(acc, t) /\ ChainIn(acc, t) \subseteq DOMAIN acc
<1> DEFINE f == Path(t, acc)
           D == DOMAIN acc \cup {NoParent}
           T == {n \in Nat : n \in 0 .. Height => f[n] \in D}
<1>0. /\ DOMAIN f = 0 .. Height /\ f[0] = t
      /\ \A n \in Nat : n + 1 \in 0 .. Height => f[n + 1] = Above(f[n], acc)
  BY PathIs
<1>00. Height \in Nat /\ 0 \in 0 .. Height
  BY BudgetParameters
<1> HIDE DEF f
<1>1. 0 \in T
  BY <1>0
<1>2. ASSUME NEW n \in Nat, n \in T PROVE n + 1 \in T
  <2> SUFFICES ASSUME n + 1 \in 0 .. Height PROVE f[n + 1] \in D
    OBVIOUS
  <2>1. n \in 0 .. Height
    BY <1>00
  <2>2. f[n] \in D /\ f[n + 1] = Above(f[n], acc)
    BY <1>0, <1>2, <2>1
  <2> QED BY <2>2 DEF Rooted, Above
<1>3. Nat \subseteq T
  <2> HIDE DEF T
  <2> QED BY <1>1, <1>2, Induct
<1>4. \A n \in 0 .. Height : f[n] \in D
  <2>1. \A n \in 0 .. Height : n \in Nat
    OBVIOUS
  <2> QED BY <1>3, <2>1
<1>5. ChainIn(acc, t) = {f[n] : n \in 0 .. Height} \ {NoParent}
  BY <1>0, Zenon DEF ChainIn, f
<1> QED BY <1>0, <1>00, <1>4, <1>5 DEF Rooted

LEMMA ChainStays ==
  ASSUME NEW acc, NEW new, Rooted(acc), Extends(new, acc), NEW t \in DOMAIN acc
  PROVE  ChainIn(new, t) = ChainIn(acc, t)
<1> DEFINE f == Path(t, acc)
           g == Path(t, new)
           D == DOMAIN acc \cup {NoParent}
           T == {n \in Nat : n \in 0 .. Height => f[n] \in D /\ g[n] = f[n]}
<1>0. /\ DOMAIN f = 0 .. Height /\ f[0] = t /\ DOMAIN g = 0 .. Height /\ g[0] = t
      /\ \A n \in Nat : n + 1 \in 0 .. Height => f[n + 1] = Above(f[n], acc)
      /\ \A n \in Nat : n + 1 \in 0 .. Height => g[n + 1] = Above(g[n], new)
  BY PathIs
<1>00. Height \in Nat
  BY BudgetParameters
<1> HIDE DEF f, g
<1>1. 0 \in T
  BY <1>0
<1>2. ASSUME NEW n \in Nat, n \in T PROVE n + 1 \in T
  <2> SUFFICES ASSUME n + 1 \in 0 .. Height PROVE f[n + 1] \in D /\ g[n + 1] = f[n + 1]
    OBVIOUS
  <2>1. n \in 0 .. Height
    BY <1>00
  <2>2. f[n] \in D /\ g[n] = f[n] /\ f[n + 1] = Above(f[n], acc) /\ g[n + 1] = Above(f[n], new)
    BY <1>0, <1>2, <2>1
  <2> QED BY <2>2 DEF Rooted, Above, Extends
<1>3. Nat \subseteq T
  <2> HIDE DEF T
  <2> QED BY <1>1, <1>2, Induct
<1>4. \A n \in 0 .. Height : g[n] = f[n]
  <2>1. \A n \in 0 .. Height : n \in Nat
    OBVIOUS
  <2> QED BY <1>3, <2>1
<1>5. /\ ChainIn(acc, t) = {f[n] : n \in 0 .. Height} \ {NoParent}
      /\ ChainIn(new, t) = {g[n] : n \in 0 .. Height} \ {NoParent}
  BY <1>0, Zenon DEF ChainIn, f, g
<1> QED BY <1>4, <1>5

(* What the entries of a ledger at the places Counted cost.                *)
BudgetPeriods == {Budget!Period(kind, day) : kind \in {"daily"}, day \in Nat}
Labels == {d.key : d \in Debits} \cup {f.key : f \in Finals}
RunIds == {d.run : d \in Debits} \cup {f.run : f \in Finals}
Entries == [type : Budget!EntryTypes, tenant : Tenants, amount : Int, run : RunIds,
            key : Labels, period : BudgetPeriods]
Share(l, Counted, n) == IF n \in Counted THEN Budget!Cost(l[n]) ELSE 0
Costs(f, l, Counted, m) ==
  f = [n \in 0 .. m |-> IF n = 0 THEN 0 ELSE f[n - 1] + Share(l, Counted, n)]

LEMMA CostsExist ==
  ASSUME NEW l, NEW C, NEW k \in Nat
  PROVE  \E f : Costs(f, l, C, k)
<1> DEFINE T == {m \in Nat : \E f : Costs(f, l, C, m)}
<1>1. 0 \in T
  <2> DEFINE f == [i \in 0 .. 0 |-> 0]
  <2>1. Costs(f, l, C, 0)
    BY DEF Costs
  <2> HIDE DEF f
  <2> QED BY <2>1
<1>2. ASSUME NEW m \in Nat, m \in T PROVE m + 1 \in T
  <2>1. PICK f : Costs(f, l, C, m)
    BY <1>2
  <2> DEFINE g == [i \in 0 .. (m + 1) |-> IF i = 0 THEN 0 ELSE f[i - 1] + Share(l, C, i)]
  <2>2. \A i \in 0 .. m : f[i] = (IF i = 0 THEN 0 ELSE f[i - 1] + Share(l, C, i))
    BY <2>1, Zenon DEF Costs
  <2>3. \A i \in 0 .. m : i \in 0 .. (m + 1)
    OBVIOUS
  <2>4. \A i \in 0 .. m : g[i] = f[i]
    BY <2>2, <2>3, Zenon
  <2>5. \A i \in 0 .. (m + 1) : i # 0 => i - 1 \in 0 .. m
    OBVIOUS
  <2>6. \A i \in 0 .. (m + 1) : i # 0 => g[i - 1] = f[i - 1]
    BY <2>4, <2>5
  <2>7. Costs(g, l, C, m + 1)
    BY <2>6, Zenon DEF Costs
  <2> HIDE DEF g
  <2> QED BY <2>7
<1>3. Nat \subseteq T
  <2> HIDE DEF T
  <2> QED BY <1>1, <1>2, Induct
<1> QED BY <1>3

LEMMA TotalIs ==
  ASSUME NEW l \in Seq(Entries), NEW C
  PROVE  \E f : /\ Budget!Total(l, C) = f[Len(l)] /\ f[0] = 0
               /\ \A n \in Nat : n + 1 \in 1 .. Len(l) => f[n + 1] = f[n] + Share(l, C, n + 1)
<1> DEFINE f == CHOOSE h : Costs(h, l, C, Len(l))
<1>1. Budget!Total(l, C) = f[Len(l)]
  BY Zenon DEF Budget!Total, Costs, Share
<1>2. Costs(f, l, C, Len(l))
  BY CostsExist
<1> HIDE DEF f
<1>3. \A i \in 0 .. Len(l) : f[i] = IF i = 0 THEN 0 ELSE f[i - 1] + Share(l, C, i)
  BY <1>2, Zenon DEF Costs
<1>4. Len(l) \in Nat /\ 0 \in 0 .. Len(l)
  OBVIOUS
<1>5. ASSUME NEW n \in Nat, n + 1 \in 1 .. Len(l) PROVE f[n + 1] = f[n] + Share(l, C, n + 1)
  <2>1. n + 1 \in 0 .. Len(l) /\ n + 1 # 0 /\ (n + 1) - 1 = n
    BY <1>4, <1>5
  <2> QED BY <1>3, <2>1
<1> QED BY <1>1, <1>3, <1>4, <1>5

LEMMA CostType == ASSUME NEW e \in Entries PROVE Budget!Cost(e) \in Int
BY DEF Budget!Cost, Entries

(* Totals begin with nothing and grow by what is appended.                 *)
LEMMA TotalAppend ==
  ASSUME NEW l \in Seq(Entries), NEW e \in Entries, NEW C, NEW D,
         \A n \in 1 .. Len(l) : n \in C <=> n \in D
  PROVE  /\ Budget!Total(l, C) \in Int
         /\ Budget!Total(Append(l, e), D)
              = Budget!Total(l, C) + (IF Len(l) + 1 \in D THEN Budget!Cost(e) ELSE 0)
<1> DEFINE k == Len(l)
           p == Append(l, e)
<1>0. /\ k \in Nat /\ p \in Seq(Entries) /\ Len(p) = k + 1 /\ p[k + 1] = e
      /\ \A i \in 1 .. k : p[i] = l[i] /\ l[i] \in Entries
  OBVIOUS
<1> HIDE DEF p
<1>1. PICK f : /\ Budget!Total(l, C) = f[k] /\ f[0] = 0
               /\ \A n \in Nat : n + 1 \in 1 .. k => f[n + 1] = f[n] + Share(l, C, n + 1)
  BY TotalIs
<1>2. PICK g : /\ Budget!Total(p, D) = g[k + 1] /\ g[0] = 0
               /\ \A n \in Nat : n + 1 \in 1 .. (k + 1) => g[n + 1] = g[n] + Share(p, D, n + 1)
  <2>1. PICK g : /\ Budget!Total(p, D) = g[Len(p)] /\ g[0] = 0
                 /\ \A n \in Nat : n + 1 \in 1 .. Len(p) => g[n + 1] = g[n] + Share(p, D, n + 1)
    BY <1>0, TotalIs
  <2>2. Len(p) = k + 1
    BY <1>0
  <2> QED BY <2>1, <2>2, Zenon
<1>3. \A n \in 1 .. k : Share(l, C, n) \in Int /\ Share(p, D, n) = Share(l, C, n)
  BY <1>0, CostType DEF Share
<1>4. Share(p, D, k + 1) = IF k + 1 \in D THEN Budget!Cost(e) ELSE 0
  BY <1>0, Zenon DEF Share
<1> HIDE DEF k
<1> DEFINE T == {m \in Nat : m <= k => f[m] \in Int /\ g[m] = f[m]}
<1>5. 0 \in T
  BY <1>1, <1>2
<1>6. ASSUME NEW m \in Nat, m \in T PROVE m + 1 \in T
  <2> SUFFICES ASSUME m + 1 <= k PROVE f[m + 1] \in Int /\ g[m + 1] = f[m + 1]
    OBVIOUS
  <2>1. m + 1 \in 1 .. k /\ m + 1 \in 1 .. (k + 1) /\ m <= k
    BY <1>0
  <2>2. f[m + 1] = f[m] + Share(l, C, m + 1) /\ g[m + 1] = g[m] + Share(p, D, m + 1)
    BY <1>1, <1>2, <2>1
  <2>3. f[m] \in Int /\ g[m] = f[m]
    BY <1>6, <2>1
  <2> QED BY <1>3, <2>1, <2>2, <2>3
<1>7. Nat \subseteq T
  <2> HIDE DEF T
  <2> QED BY <1>5, <1>6, Induct
<1>8. f[k] \in Int /\ g[k] = f[k]
  <2>1. k \in T
    <3> HIDE DEF T
    <3> QED BY <1>0, <1>7
  <2>2. k <= k
    BY <1>0
  <2> QED BY <2>1, <2>2
<1>9. g[k + 1] = g[k] + Share(p, D, k + 1)
  <2>1. k + 1 \in 1 .. (k + 1)
    BY <1>0
  <2> QED BY <1>0, <1>2, <2>1
<1>10. Budget!Total(p, D) = Budget!Total(l, C) + Share(p, D, k + 1)
  BY <1>1, <1>2, <1>8, <1>9, Zenon
<1> QED BY <1>1, <1>4, <1>8, <1>10 DEF p, k

LEMMA TotalOfNone ==
  ASSUME NEW l \in Seq(Entries) PROVE Budget!Total(l, {}) = 0
<1> DEFINE k == Len(l)
<1>0. k \in Nat
  OBVIOUS
<1>1. PICK f : /\ Budget!Total(l, {}) = f[k] /\ f[0] = 0
               /\ \A n \in Nat : n + 1 \in 1 .. k => f[n + 1] = f[n] + Share(l, {}, n + 1)
  BY TotalIs
<1> HIDE DEF k
<1> DEFINE T == {m \in Nat : m <= k => f[m] = 0}
<1>5. 0 \in T
  BY <1>1
<1>6. ASSUME NEW m \in Nat, m \in T PROVE m + 1 \in T
  <2> SUFFICES ASSUME m + 1 <= k PROVE f[m + 1] = 0
    OBVIOUS
  <2>1. m + 1 \in 1 .. k /\ m <= k
    BY <1>0
  <2>2. f[m + 1] = f[m] + Share(l, {}, m + 1)
    BY <1>1, <2>1
  <2>3. f[m] = 0 /\ Share(l, {}, m + 1) = 0
    BY <1>6, <2>1 DEF Share
  <2> QED BY <2>2, <2>3
<1>7. k \in T
  <2> HIDE DEF T
  <2> QED BY <1>0, <1>5, <1>6, Induct
<1>8. k <= k
  BY <1>0
<1> QED BY <1>1, <1>7, <1>8

(***************************************************************************)
(* Balances are what the ledger says: the entries of tenant t and of those *)
(* below it, in period p.                                                  *)
(***************************************************************************)
Under(l, acc, t, p) == {i \in DOMAIN l : t \in ChainIn(acc, l[i].tenant) /\ l[i].period = p}
AccountsHold ==
  /\ DOMAIN accounts \subseteq Tenants /\ Rooted(accounts)
  /\ \A t \in DOMAIN accounts : /\ accounts[t].parent = Parent[t] /\ accounts[t].limit \in Nat
                                /\ accounts[t].kind = "daily"
EntriesHold ==
  /\ ledger \in Seq(Entries) /\ today \in Nat
  /\ \A i \in DOMAIN ledger : ledger[i].tenant \in DOMAIN accounts
  /\ \A i \in DOMAIN ledger : ledger[i].type = "debit_estimate" =>
       \A t \in ChainIn(accounts, ledger[i].tenant) : <<t, ledger[i].period>> \in DOMAIN balances
  /\ Budget!ChargedOnce
BalancesHold ==
  /\ DOMAIN balances \subseteq (DOMAIN accounts) \X BudgetPeriods
  /\ \A x \in DOMAIN balances : balances[x] \in Int
  /\ \A t \in DOMAIN accounts : \A p :
       Budget!Spent(t, p) = Budget!Total(ledger, Under(ledger, accounts, t, p))
BudgetInv == AccountsHold /\ EntriesHold /\ BalancesHold

LEMMA BudgetStarts == Budget!Init => BudgetInv
<1> SUFFICES ASSUME Budget!Init PROVE BudgetInv
  OBVIOUS
<1>1. accounts = << >> /\ ledger = << >> /\ balances = << >> /\ today = 1
  BY DEF Budget!Init
<1>2. DOMAIN accounts = {} /\ DOMAIN ledger = {} /\ DOMAIN balances = {}
  BY <1>1
<1>3. ledger \in Seq(Entries) /\ today \in Nat
  BY <1>1
<1> QED BY <1>2, <1>3 DEF BudgetInv, AccountsHold, EntriesHold, BalancesHold, Rooted, Budget!ChargedOnce

LEMMA SpentIs ==
  /\ \A t, p : Budget!Spent(t, p) = IF <<t, p>> \in DOMAIN balances THEN balances[<<t, p>>] ELSE 0
  /\ \A t, p : Budget!Spent(t, p)' = IF <<t, p>> \in DOMAIN balances' THEN balances'[<<t, p>>] ELSE 0
BY Zenon DEF Budget!Spent

LEMMA SpentType ==
  ASSUME BalancesHold PROVE \A t, p : Budget!Spent(t, p) \in Int
<1> SUFFICES ASSUME NEW t, NEW p PROVE Budget!Spent(t, p) \in Int
  OBVIOUS
<1> DEFINE x == <<t, p>>
<1>1. x \in DOMAIN balances => balances[x] \in Int
  BY Zenon DEF BalancesHold
<1>2. Budget!Spent(t, p) = IF x \in DOMAIN balances THEN balances[x] ELSE 0
  BY SpentIs, Zenon
<1> HIDE DEF x
<1> QED BY <1>1, <1>2

(* A new account has spent nothing, and nobody is moved by it.             *)
LEMMA CreateKeeps ==
  ASSUME BudgetInv, NEW t \in Tenants, NEW limit \in Limits,
         Budget!CreateAccount(t, Parent[t], limit, "daily")
  PROVE  BudgetInv'
<1> DEFINE row == <<t, Budget!Period("daily", today)>>
           new == [parent |-> Parent[t], limit |-> limit, kind |-> "daily"]
<1>0. AccountsHold /\ EntriesHold /\ BalancesHold
  BY DEF BudgetInv
<1>1. /\ Parent[t] \in DOMAIN accounts \cup {NoParent}
      /\ accounts' = [s \in DOMAIN accounts \cup {t} |-> IF s = t THEN new ELSE accounts[s]]
      /\ balances' = [x \in DOMAIN balances \cup {row} |-> Budget!Spent(x[1], x[2])]
      /\ UNCHANGED <<ledger, today>>
  BY Zenon DEF Budget!CreateAccount
<1>2. /\ DOMAIN accounts' = DOMAIN accounts \cup {t} /\ accounts'[t] = new
      /\ \A s \in DOMAIN accounts : s # t => accounts'[s] = accounts[s]
  BY <1>1
<1>3. /\ new.parent = Parent[t] /\ new.limit \in Nat /\ new.kind = "daily"
  BY BudgetParameters
<1> HIDE DEF new
<1>4. AccountsHold'
  BY <1>0, <1>1, <1>2, <1>3, BudgetParameters DEF AccountsHold, Rooted
<1>5. Extends(accounts', accounts)
  BY <1>0, <1>2, <1>3 DEF AccountsHold, Extends
<1>6. \A s \in DOMAIN accounts : ChainIn(accounts', s) = ChainIn(accounts, s)
  BY <1>0, <1>5, ChainStays DEF AccountsHold
<1>7. DOMAIN balances' = DOMAIN balances \cup {row}
  BY <1>1
<1>8. EntriesHold'
  <2>1. Budget!ChargedOnce'
    BY <1>0, <1>1, Zenon DEF EntriesHold, Budget!ChargedOnce
  <2>2. \A i \in DOMAIN ledger : ledger[i].type = "debit_estimate" =>
          \A s \in ChainIn(accounts', ledger[i].tenant) : <<s, ledger[i].period>> \in DOMAIN balances'
    BY <1>0, <1>6, <1>7 DEF EntriesHold
  <2>3. \A i \in DOMAIN ledger : ledger[i].tenant \in DOMAIN accounts'
    BY <1>0, <1>2 DEF EntriesHold
  <2> QED BY <1>0, <1>1, <2>1, <2>2, <2>3 DEF EntriesHold
<1>9. Budget!Period("daily", today) \in BudgetPeriods
  BY <1>0 DEF EntriesHold, BudgetPeriods
<1>10. \A s, p : Budget!Spent(s, p)' = Budget!Spent(s, p)
  <2> TAKE s, p
  <2> DEFINE x == <<s, p>>
  <2>1. x[1] = s /\ x[2] = p
    OBVIOUS
  <2> HIDE DEF x
  <2>2. x \in DOMAIN balances' => balances'[x] = Budget!Spent(s, p)
    BY <1>1, <1>7, <2>1
  <2>3. x \notin DOMAIN balances' => x \notin DOMAIN balances
    BY <1>7
  <2> QED BY <2>2, <2>3, SpentIs DEF x
<1>11. \A x \in DOMAIN balances' : balances'[x] \in Int
  BY <1>0, <1>1, <1>7, SpentType
<1>12. DOMAIN balances' \subseteq (DOMAIN accounts') \X BudgetPeriods
  BY <1>0, <1>2, <1>7, <1>9 DEF BalancesHold
<1>13. ASSUME NEW s \in DOMAIN accounts', NEW p
       PROVE  Budget!Spent(s, p)' = Budget!Total(ledger, Under(ledger, accounts', s, p))
  <2>1. Under(ledger, accounts', s, p) = Under(ledger, accounts, s, p)
    BY <1>0, <1>6 DEF EntriesHold, Under
  <2>2. CASE s \in DOMAIN accounts
    BY <1>0, <1>10, <2>1, <2>2 DEF BalancesHold
  <2>3. CASE s \notin DOMAIN accounts
    <3>1. \A u \in DOMAIN accounts : s \notin ChainIn(accounts, u)
      BY <1>0, <2>3, ChainWithin DEF AccountsHold
    <3>2. Under(ledger, accounts, s, p) = {}
      BY <1>0, <3>1 DEF EntriesHold, Under
    <3>3. Budget!Total(ledger, {}) = 0
      BY <1>0, TotalOfNone DEF EntriesHold
    <3>4. <<s, p>> \notin DOMAIN balances
      BY <1>0, <2>3 DEF BalancesHold
    <3>5. Budget!Spent(s, p) = 0
      BY <3>4, SpentIs
    <3> QED BY <1>10, <2>1, <3>2, <3>3, <3>5
  <2> QED BY <2>2, <2>3
<1>14. BalancesHold'
  BY <1>1, <1>11, <1>12, <1>13, Zenon DEF BalancesHold
<1> QED BY <1>4, <1>8, <1>14 DEF BudgetInv

(* What one more entry adds to the totals.                                 *)
LEMMA EntryAdds ==
  ASSUME ledger \in Seq(Entries), NEW e \in Entries, ledger' = Append(ledger, e), NEW t, NEW p
  PROVE  Budget!Total(ledger', Under(ledger', accounts, t, p))
           = Budget!Total(ledger, Under(ledger, accounts, t, p))
             + (IF t \in ChainIn(accounts, e.tenant) /\ e.period = p THEN Budget!Cost(e) ELSE 0)
<1> DEFINE C == Under(ledger, accounts, t, p)
           D == Under(ledger', accounts, t, p)
           k == Len(ledger)
<1>0. /\ k \in Nat /\ DOMAIN ledger = 1 .. k /\ DOMAIN ledger' = 1 .. (k + 1)
      /\ ledger'[k + 1] = e /\ \A i \in 1 .. k : ledger'[i] = ledger[i]
      /\ k + 1 \in 1 .. (k + 1) /\ \A i \in 1 .. k : i \in 1 .. (k + 1)
  OBVIOUS
<1>1. \A n \in 1 .. k : n \in C <=> n \in D
  BY <1>0, Zenon DEF Under
<1>2. k + 1 \in D <=> t \in ChainIn(accounts, e.tenant) /\ e.period = p
  BY <1>0, Zenon DEF Under
<1> HIDE DEF C, D
<1>3. Budget!Total(Append(ledger, e), D)
        = Budget!Total(ledger, C) + (IF Len(ledger) + 1 \in D THEN Budget!Cost(e) ELSE 0)
  BY <1>1, TotalAppend
<1> QED BY <1>2, <1>3, Zenon DEF C, D

(* An entry e of a key not used before, charged to the chain of its tenant.*)
LEMMA ChargeKeeps ==
  ASSUME BudgetInv, NEW e \in Entries, ledger' = Append(ledger, e), UNCHANGED <<accounts, today>>,
         e.tenant \in DOMAIN accounts, Budget!Fresh(e.key, e.period),
         DOMAIN balances \subseteq DOMAIN balances',
         DOMAIN balances' \subseteq
           DOMAIN balances \cup (ChainIn(accounts, e.tenant) \X {e.period}),
         \A t \in ChainIn(accounts, e.tenant) : <<t, e.period>> \in DOMAIN balances',
         \A t, p : <<t, p>> \in DOMAIN balances' =>
           balances'[<<t, p>>] = Budget!Spent(t, p)
             + (IF t \in ChainIn(accounts, e.tenant) /\ e.period = p THEN Budget!Cost(e) ELSE 0)
  PROVE  BudgetInv'
<1> DEFINE k == Len(ledger)
           chain == ChainIn(accounts, e.tenant)
<1>0. AccountsHold /\ EntriesHold /\ BalancesHold
  BY DEF BudgetInv
<1>1. /\ k \in Nat /\ DOMAIN ledger = 1 .. k /\ DOMAIN ledger' = 1 .. (k + 1)
      /\ ledger'[k + 1] = e /\ \A i \in 1 .. k : ledger'[i] = ledger[i]
      /\ ledger' \in Seq(Entries)
      /\ \A i \in 1 .. (k + 1) : i \in 1 .. k \/ i = k + 1
  BY <1>0 DEF EntriesHold
<1>2. AccountsHold'
  BY <1>0, Zenon DEF AccountsHold
<1>3. Budget!ChargedOnce'
  <2>1. \A i, j \in 1 .. k : ledger[i].key = ledger[j].key => i = j
    BY <1>0, <1>1 DEF EntriesHold, Budget!ChargedOnce
  <2>2. \A i \in 1 .. k : ledger[i].key # e.key
    BY <1>1 DEF Budget!Fresh
  <2>3. \A i, j \in 1 .. (k + 1) : ledger'[i].key = ledger'[j].key => i = j
    BY <1>1, <2>1, <2>2
  <2> QED BY <1>1, <2>3, Zenon DEF Budget!ChargedOnce
<1>4. EntriesHold'
  <2>1. \A i \in DOMAIN ledger' : ledger'[i].tenant \in DOMAIN accounts
    BY <1>0, <1>1 DEF EntriesHold
  <2>2. \A i \in DOMAIN ledger' : ledger'[i].type = "debit_estimate" =>
          \A t \in ChainIn(accounts, ledger'[i].tenant) : <<t, ledger'[i].period>> \in DOMAIN balances'
    BY <1>0, <1>1 DEF EntriesHold
  <2>3. today' \in Nat
    BY <1>0 DEF EntriesHold
  <2> QED BY <1>1, <1>3, <2>1, <2>2, <2>3, Zenon DEF EntriesHold
<1>5. chain \subseteq DOMAIN accounts
  BY <1>0, ChainWithin DEF AccountsHold
<1>6. e.period \in BudgetPeriods /\ Budget!Cost(e) \in Int
  BY CostType DEF Entries
<1>7. DOMAIN balances' \subseteq (DOMAIN accounts) \X BudgetPeriods
  BY <1>0, <1>5, <1>6 DEF BalancesHold
<1>8. ASSUME NEW t, NEW p
      PROVE  Budget!Spent(t, p)' = Budget!Spent(t, p)
               + (IF t \in chain /\ e.period = p THEN Budget!Cost(e) ELSE 0)
  <2> DEFINE x == <<t, p>>
  <2>0. Budget!Spent(t, p) \in Int
    BY <1>0, SpentType
  <2>1. CASE x \in DOMAIN balances'
    BY <2>1, SpentIs
  <2>2. CASE x \notin DOMAIN balances'
    <3>1. x \notin DOMAIN balances /\ ~(t \in chain /\ e.period = p)
      BY <2>2
    <3>2. Budget!Spent(t, p) = 0 /\ Budget!Spent(t, p)' = 0
      BY <2>2, <3>1, SpentIs
    <3> QED BY <3>1, <3>2
  <2> QED BY <2>1, <2>2
<1>9. \A x \in DOMAIN balances' : balances'[x] \in Int
  <2> TAKE x \in DOMAIN balances'
  <2>1. PICK t, p : x = <<t, p>>
    BY <1>7
  <2>2. Budget!Spent(t, p) \in Int
    BY <1>0, SpentType
  <2> QED BY <1>6, <2>1, <2>2
<1>10. ASSUME NEW t \in DOMAIN accounts, NEW p
       PROVE  Budget!Spent(t, p)' = Budget!Total(ledger', Under(ledger', accounts, t, p))
  <2>1. Budget!Spent(t, p) = Budget!Total(ledger, Under(ledger, accounts, t, p))
    BY <1>0 DEF BalancesHold
  <2>2. Budget!Total(ledger', Under(ledger', accounts, t, p))
          = Budget!Total(ledger, Under(ledger, accounts, t, p))
            + (IF t \in ChainIn(accounts, e.tenant) /\ e.period = p THEN Budget!Cost(e) ELSE 0)
    BY <1>0, EntryAdds DEF EntriesHold
  <2> QED BY <1>8, <2>1, <2>2, Zenon
<1>11. BalancesHold'
  BY <1>7, <1>9, <1>10, Zenon DEF BalancesHold
<1> QED BY <1>2, <1>4, <1>11 DEF BudgetInv

LEMMA DebitKeeps ==
  ASSUME BudgetInv, NEW d \in Debits, Budget!Debit(d) PROVE BudgetInv'
<1> DEFINE p == Budget!Period(accounts[d.tenant].kind, today)
           chain == Budget!Chain(d.tenant)
           e == [type |-> "debit_estimate", tenant |-> d.tenant, amount |-> d.amount,
                 run |-> d.run, key |-> d.key, period |-> p]
<1>0. AccountsHold /\ EntriesHold /\ BalancesHold
  BY DEF BudgetInv
<1>1. /\ d.tenant \in DOMAIN accounts /\ Budget!Fresh(d.key, p)
      /\ balances' = [x \in DOMAIN balances \cup (chain \X {p}) |->
                        Budget!Spent(x[1], x[2])
                          + (IF x[1] \in chain /\ x[2] = p THEN d.amount ELSE 0)]
      /\ ledger' = Append(ledger, e) /\ UNCHANGED <<accounts, today>>
  BY Zenon DEF Budget!Debit, Budget!HasAccount
<1>2. chain = ChainIn(accounts, d.tenant)
  BY ChainIs
<1>3. p \in BudgetPeriods
  BY <1>0, <1>1 DEF AccountsHold, EntriesHold, BudgetPeriods
<1> HIDE DEF p, chain
<1>4. /\ e \in Entries /\ e.tenant = d.tenant /\ e.key = d.key /\ e.period = p
      /\ Budget!Cost(e) = d.amount
  BY <1>3, BudgetParameters DEF Entries, Labels, RunIds, Budget!EntryTypes, Budget!Cost
<1> HIDE DEF e
<1>5. DOMAIN balances' = DOMAIN balances \cup (chain \X {p})
  BY <1>1
<1>6. \A t \in chain : <<t, p>> \in DOMAIN balances'
  BY <1>5
<1>7. ASSUME NEW t, NEW q, <<t, q>> \in DOMAIN balances'
      PROVE  balances'[<<t, q>>] = Budget!Spent(t, q)
               + (IF t \in chain /\ p = q THEN d.amount ELSE 0)
  <2> DEFINE x == <<t, q>>
  <2>1. x[1] = t /\ x[2] = q
    OBVIOUS
  <2>2. x \in DOMAIN balances \cup (chain \X {p})
    BY <1>5, <1>7
  <2> HIDE DEF x
  <2>3. balances'[x] = Budget!Spent(t, q) + (IF t \in chain /\ q = p THEN d.amount ELSE 0)
    BY <1>1, <2>1, <2>2
  <2> QED BY <2>3 DEF x
<1> QED BY <1>1, <1>2, <1>4, <1>5, <1>6, <1>7, ChargeKeeps

LEMMA AdjustKeeps ==
  ASSUME BudgetInv, NEW f \in Finals, Budget!Adjust(f) PROVE BudgetInv'
<1> DEFINE S == Budget!Estimates(f)
           m == Budget!Min(S)
           o == ledger[m]
           diff == Budget!Diff(f, o)
           chain == Budget!Chain(f.tenant)
           e == [type |-> "credit_correction", tenant |-> f.tenant, amount |-> 0 - diff,
                 run |-> f.run, key |-> f.key, period |-> o.period]
<1>0. AccountsHold /\ EntriesHold /\ BalancesHold
  BY DEF BudgetInv
<1>1. /\ S # {} /\ Budget!Fresh(f.key, o.period)
      /\ balances' = [x \in DOMAIN balances |->
                        balances[x]
                          + (IF x[1] \in chain /\ x[2] = o.period THEN diff ELSE 0)]
      /\ ledger' = Append(ledger, e) /\ UNCHANGED <<accounts, today>>
  BY Zenon DEF Budget!Adjust, Budget!Corrected
<1>2. chain = ChainIn(accounts, f.tenant)
  BY ChainIs
<1>3. m \in S
  <2>1. S \subseteq Nat
    BY <1>0 DEF EntriesHold, Budget!Estimates
  <2> HIDE DEF S
  <2>2. \E y \in S : \A z \in S : y <= z
    BY <1>1, <2>1, Least
  <2> QED BY <2>2 DEF Budget!Min
<1>4. m \in DOMAIN ledger /\ o.type = "debit_estimate" /\ o.tenant = f.tenant
  BY <1>3 DEF Budget!Estimates
<1> HIDE DEF m, S
<1>5. o \in Entries
  BY <1>0, <1>4 DEF EntriesHold
<1>6. /\ f.tenant \in DOMAIN accounts
      /\ \A t \in chain : <<t, o.period>> \in DOMAIN balances
  BY <1>0, <1>2, <1>4 DEF EntriesHold
<1> HIDE DEF o
<1>7. o.period \in BudgetPeriods /\ diff \in Int
  BY <1>5, BudgetParameters DEF Entries, Budget!Diff
<1> HIDE DEF diff, chain
<1>8. /\ e \in Entries /\ e.tenant = f.tenant /\ e.key = f.key /\ e.period = o.period
      /\ Budget!Cost(e) = diff
  BY <1>7, BudgetParameters DEF Entries, Labels, RunIds, Budget!EntryTypes, Budget!Cost
<1> HIDE DEF e
<1>9. DOMAIN balances' = DOMAIN balances
  BY <1>1
<1>10. ASSUME NEW t, NEW q, <<t, q>> \in DOMAIN balances'
       PROVE  balances'[<<t, q>>] = Budget!Spent(t, q)
                + (IF t \in chain /\ o.period = q THEN diff ELSE 0)
  <2> DEFINE x == <<t, q>>
  <2>1. x[1] = t /\ x[2] = q
    OBVIOUS
  <2>2. x \in DOMAIN balances /\ Budget!Spent(t, q) = balances[x]
    BY <1>9, <1>10, SpentIs
  <2> HIDE DEF x
  <2>3. balances'[x] = balances[x] + (IF t \in chain /\ q = o.period THEN diff ELSE 0)
    BY <1>1, <2>1, <2>2
  <2> QED BY <2>2, <2>3 DEF x
<1> QED BY <1>1, <1>2, <1>6, <1>8, <1>9, <1>10, ChargeKeeps

LEMMA BudgetMoves ==
  ASSUME BudgetInv, Budget!Next PROVE BudgetInv'
<1>1. ASSUME NEW t \in Tenants, NEW limit \in Limits,
             Budget!CreateAccount(t, Parent[t], limit, "daily")
      PROVE  BudgetInv'
  BY <1>1, CreateKeeps
<1>2. ASSUME NEW d \in Debits, Budget!Debit(d) PROVE BudgetInv'
  BY <1>2, DebitKeeps
<1>3. ASSUME NEW f \in Finals, Budget!Adjust(f) PROVE BudgetInv'
  BY <1>3, AdjustKeeps
<1>4. ASSUME Budget!NextDay PROVE BudgetInv'
  <2>1. today' = today + 1 /\ UNCHANGED <<accounts, ledger, balances>>
    BY <1>4 DEF Budget!NextDay
  <2>2. AccountsHold'
    BY <2>1, Zenon DEF BudgetInv, AccountsHold
  <2>3. EntriesHold'
    <3>1. today' \in Nat
      BY <2>1 DEF BudgetInv, EntriesHold
    <3>2. Budget!ChargedOnce'
      BY <2>1, Zenon DEF BudgetInv, EntriesHold, Budget!ChargedOnce
    <3> QED BY <2>1, <3>1, <3>2, Zenon DEF BudgetInv, EntriesHold
  <2>4. BalancesHold'
    <3>1. \A t, p : Budget!Spent(t, p)' = Budget!Spent(t, p)
      BY <2>1, SpentIs, Zenon
    <3> QED BY <2>1, <3>1, Zenon DEF BudgetInv, BalancesHold
  <2> QED BY <2>2, <2>3, <2>4 DEF BudgetInv
<1>5. \/ \E t \in Tenants : \E limit \in Limits : Budget!CreateAccount(t, Parent[t], limit, "daily")
      \/ \E d \in Debits : Budget!Debit(d)
      \/ \E f \in Finals : Budget!Adjust(f)
      \/ Budget!NextDay
  BY DEF Budget!Next
<1> QED BY <1>1, <1>2, <1>3, <1>4, <1>5

LEMMA BudgetStays ==
  ASSUME BudgetInv, UNCHANGED budgetVars PROVE BudgetInv'
<1>1. UNCHANGED <<accounts, ledger, balances, today>>
  BY DEF budgetVars
<1>2. \A t, p : Budget!Spent(t, p)' = Budget!Spent(t, p)
  BY <1>1, SpentIs, Zenon
<1>3. Budget!ChargedOnce'
  BY <1>1, Zenon DEF BudgetInv, EntriesHold, Budget!ChargedOnce
<1>4. AccountsHold'
  BY <1>1, Zenon DEF BudgetInv, AccountsHold
<1>5. EntriesHold'
  BY <1>1, <1>3, Zenon DEF BudgetInv, EntriesHold
<1>6. BalancesHold'
  BY <1>1, <1>2, Zenon DEF BudgetInv, BalancesHold
<1> QED BY <1>4, <1>5, <1>6 DEF BudgetInv

LEMMA BudgetStep ==
  ASSUME BudgetInv, [MCNext]_allVars PROVE BudgetInv'
<1>1. Budget!Next \/ UNCHANGED budgetVars
  BY Zenon DEF MCNext, allVars
<1> QED BY <1>1, BudgetMoves, BudgetStays

(* The entries of a tenant and those below it, in terms of the chains.     *)
LEMMA BelowIs ==
  \A t, p : {i \in Budget!Below(t) : ledger[i].period = p} = Under(ledger, accounts, t, p)
<1>1. \A t : Budget!Below(t) = {i \in DOMAIN ledger : t \in ChainIn(accounts, ledger[i].tenant)}
  BY ChainIs, Zenon DEF Budget!Below
<1> QED BY <1>1 DEF Under

LEMMA BudgetSound == BudgetInv => LedgerSound
<1> SUFFICES ASSUME BudgetInv PROVE LedgerSound
  OBVIOUS
<1>1. Budget!BalanceMatchesLedger
  <2>1. \A t \in DOMAIN accounts : \A p :
          Budget!Spent(t, p) = Budget!Total(ledger, Under(ledger, accounts, t, p))
    BY Zenon DEF BudgetInv, BalancesHold
  <2> SUFFICES ASSUME NEW t \in DOMAIN accounts, NEW p
               PROVE  Budget!Spent(t, p)
                        = Budget!Total(ledger, {i \in Budget!Below(t) : ledger[i].period = p})
    BY Zenon DEF Budget!BalanceMatchesLedger
  <2>2. {i \in Budget!Below(t) : ledger[i].period = p} = Under(ledger, accounts, t, p)
    BY BelowIs
  <2> QED BY <2>1, <2>2
<1>2. Budget!ChargedOnce
  BY DEF BudgetInv, EntriesHold
<1> QED BY <1>1, <1>2, Zenon DEF LedgerSound, Budget!LedgerSound

LEMMA BudgetAlways == MCSpec => []BudgetInv
<1>1. MCInit => BudgetInv
  BY BudgetStarts, Zenon DEF MCInit
<1>2. BudgetInv /\ [MCNext]_allVars => BudgetInv'
  BY BudgetStep
<1> QED BY <1>1, <1>2, PTL DEF MCSpec

(***************************************************************************)
(* In a hierarchy nobody is moved in, of any shape, the balance of every   *)
(* tenant and day is what the ledger says that it and the tenants below it *)
(* have spent, whatever was retried, refused, corrected or settled on a    *)
(* later day, and no key is charged twice.                                 *)
(***************************************************************************)
THEOREM LedgerStaysSound == MCSpec => []LedgerSound
BY BudgetAlways, BudgetSound, PTL

(* A debit goes by the balances of the day, which are what was spent.      *)
LEMMA DebitFits ==
  ASSUME BudgetInv, NEW d \in Debits, Budget!Debit(d) PROVE Budget!DebitsFit
<1> DEFINE p == Budget!Period(accounts[d.tenant].kind, today)
           e == [type |-> "debit_estimate", tenant |-> d.tenant, amount |-> d.amount,
                 run |-> d.run, key |-> d.key, period |-> p]
           chain == Budget!Chain(d.tenant)
<1>0. AccountsHold /\ EntriesHold /\ BalancesHold
  BY DEF BudgetInv
<1>1. /\ d.tenant \in DOMAIN accounts /\ Budget!Affordable(d.tenant, d.amount, p)
      /\ ledger' = Append(ledger, e)
  BY Zenon DEF Budget!Debit, Budget!HasAccount
<1>2. p = Budget!Period("daily", today)
  BY <1>0, <1>1 DEF AccountsHold
<1> HIDE DEF p
<1>3. e.tenant = d.tenant /\ e.amount = d.amount
  OBVIOUS
<1> HIDE DEF e
<1>4. ledger'[Len(ledger')] = e
  BY <1>0, <1>1 DEF EntriesHold
<1>5. chain \subseteq DOMAIN accounts
  BY <1>0, <1>1, ChainIs, ChainWithin DEF AccountsHold
<1>6. ASSUME NEW t \in chain PROVE Budget!SpentByAll(t) + d.amount <= accounts[t].limit
  <2>1. accounts[t].kind = "daily" /\ t \in DOMAIN accounts
    BY <1>0, <1>5 DEF AccountsHold
  <2>2. \A q : Budget!Within(q, accounts[t].kind) <=> q = p
    BY <1>2, <2>1 DEF Budget!Within
  <2>3. {i \in Budget!Below(t) : Budget!Within(ledger[i].period, accounts[t].kind)}
          = {i \in Budget!Below(t) : ledger[i].period = p}
    BY <2>2
  <2>4. {i \in Budget!Below(t) : ledger[i].period = p} = Under(ledger, accounts, t, p)
    BY BelowIs
  <2>5. Budget!SpentByAll(t) = Budget!Spent(t, p)
    <3>1. Budget!Spent(t, p) = Budget!Total(ledger, Under(ledger, accounts, t, p))
      BY <1>0, <2>1 DEF BalancesHold
    <3> QED BY <2>3, <2>4, <3>1, Zenon DEF Budget!SpentByAll
  <2>6. Budget!Spent(t, p) + d.amount <= accounts[t].limit
    BY <1>1 DEF Budget!Affordable
  <2> QED BY <2>5, <2>6
<1> QED BY <1>3, <1>4, <1>6, Zenon DEF Budget!DebitsFit

LEMMA LimitStep ==
  ASSUME BudgetInv, Budget!Next PROVE Budget!DebitsFit
<1>1. ASSUME NEW f \in Finals, Budget!Adjust(f) PROVE ~Budget!Debited
  <2>1. PICK e \in {ledger'[Len(ledger')]} : e.type = "credit_correction"
    <3> DEFINE n == ledger[Budget!Min(Budget!Estimates(f))]
               e == [type |-> "credit_correction", tenant |-> f.tenant,
                     amount |-> 0 - Budget!Diff(f, n), run |-> f.run, key |-> f.key,
                     period |-> n.period]
    <3>1. ledger' = Append(ledger, e)
      BY <1>1, Zenon DEF Budget!Adjust
    <3>2. e.type = "credit_correction"
      OBVIOUS
    <3> HIDE DEF e
    <3>3. ledger'[Len(ledger')] = e
      BY <3>1 DEF BudgetInv, EntriesHold
    <3> QED BY <3>2, <3>3
  <2> QED BY <2>1 DEF Budget!Debited
<1>2. UNCHANGED ledger => ~Budget!Debited
  BY DEF Budget!Debited, BudgetInv, EntriesHold
<1>3. \/ UNCHANGED ledger
      \/ \E d \in Debits : Budget!Debit(d)
      \/ \E f \in Finals : Budget!Adjust(f)
  BY DEF Budget!Next, Budget!CreateAccount, Budget!NextDay
<1> QED BY <1>1, <1>2, <1>3, DebitFits DEF Budget!DebitsFit

(***************************************************************************)
(* No reservation takes its tenant, or one above it, past its limit of the *)
(* day, in a hierarchy of any shape: what a debit compares with the limits *)
(* is all that was spent below.                                            *)
(***************************************************************************)
THEOREM LimitStaysHeld == MCSpec => LimitHeld
<1>1. BudgetInv /\ [MCNext]_allVars => [Budget!DebitsFit]_budgetVars
  <2>1. [MCNext]_allVars => Budget!Next \/ UNCHANGED budgetVars
    BY Zenon DEF MCNext, allVars
  <2> QED BY <2>1, LimitStep
<1>2. MCSpec => [][Budget!DebitsFit]_budgetVars
  BY <1>1, BudgetAlways, PTL DEF MCSpec
<1> QED BY <1>2 DEF LimitHeld, Budget!LimitHeld, Budget!vars, budgetVars
===============================================================================
