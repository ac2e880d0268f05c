------------------------------ MODULE TieredMemory -----------------------------
(***************************************************************************)
(* The three-tier agent memory (memory/tiers.py): an in-process segmented  *)
(* LRU policy that holds the hot and warm entries, a warm backend (Redis)  *)
(* and a cold backend (a vector store).  The policy is only touched        *)
(* between awaits, so its updates are atomic; every call of a backend is a *)
(* step of its own, between which other clients run.  A memory is its      *)
(* version, 0 where there is none.                                         *)
(***************************************************************************)
EXTENDS Integers, Sequences, FiniteSets, SequencesExt

CONSTANTS
  Clients,
  Keys,
  HotMax, WarmMax,    \* capacities of the policy's segments
  HasWarm, HasCold    \* which backends are configured

TieredMemoryAssumption ==
  /\ Keys # {} /\ HotMax \in Nat /\ WarmMax \in Nat /\ HasWarm \in BOOLEAN /\ HasCold \in BOOLEAN

Versions == 0 .. 2
Nothing  == 0

VARIABLES
  policy,     \* SLRUPolicy: hot and warm, oldest first, and the entries' values
  warm, cold, \* the backends
  pc,
  op,         \* op[c]: key, value and what is left of the operation of c
  latest      \* latest[k]: the version that the last store of k began with

vars == <<policy, warm, cold, pc, op, latest>>

NoOp == [key |-> CHOOSE k \in Keys : TRUE, val |-> Nothing, demote |-> << >>,
         found |-> Nothing, rewarm |-> FALSE]

Init ==
  /\ policy = [hot |-> << >>, warm |-> << >>, val |-> [k \in Keys |-> Nothing]]
  /\ warm = [k \in Keys |-> Nothing] /\ cold = [k \in Keys |-> Nothing]
  /\ pc = [c \in Clients |-> "idle"] /\ op = [c \in Clients |-> NoOp]
  /\ latest = [k \in Keys |-> Nothing]

--------------------------------------------------------------------------------
(* SLRUPolicy.  Due names what overflows: hot entries fall back to warm,   *)
(* warm ones leave the policy.                                             *)

Tiers(h, w, v) == [hot |-> h, warm |-> w, val |-> v]
Holds(p, k) == \E s \in {p.hot, p.warm} : Contains(s, k)
Excess(s, n) == IF Len(s) > n THEN Len(s) - n ELSE 0

Due(p) ==
  LET h == Excess(p.hot, HotMax)
      w == p.warm \o SubSeq(p.hot, 1, h)
      n == Excess(w, WarmMax)
  IN  [policy  |-> Tiers(SubSeq(p.hot, h + 1, Len(p.hot)), SubSeq(w, n + 1, Len(w)), p.val),
       evicted |-> SubSeq(w, 1, n)]

Insert(p, k, v) ==
  LET val == [p.val EXCEPT ![k] = v]
  IN  IF Holds(p, k) THEN [policy |-> Tiers(p.hot, p.warm, val), evicted |-> << >>]
      ELSE Due(Tiers(p.hot, Append(p.warm, k), val))

Access(p, k) ==
  IF Contains(p.hot, k)
  THEN [policy |-> Tiers(Append(RemoveFirst(p.hot, k), k), p.warm, p.val), evicted |-> << >>]
  ELSE IF Contains(p.warm, k)
       THEN Due(Tiers(Append(p.hot, k), RemoveFirst(p.warm, k), p.val))
       ELSE [policy |-> p, evicted |-> << >>]

Removed(p, k) == Tiers(RemoveFirst(p.hot, k), RemoveFirst(p.warm, k), p.val)

--------------------------------------------------------------------------------
(* Operations.                                                             *)

Becomes(c, l, o) == pc' = [pc EXCEPT ![c] = l] /\ op' = [op EXCEPT ![c] = o]
Goes(c, l) == Becomes(c, l, op[c])

Store(c, k) ==
  LET v == 1 + (latest[k] % 2)
      r == Insert(policy, k, v)
  IN  /\ pc[c] = "idle"
      /\ policy' = r.policy
      /\ latest' = [latest EXCEPT ![k] = v]
      /\ Becomes(c, IF HasWarm THEN "setWarm" ELSE "evict",
                 [NoOp EXCEPT !.key = k, !.val = v, !.demote = r.evicted])
      /\ UNCHANGED <<warm, cold>>

Slip_Warmed(c) == warm
Warmed(c) == [warm EXCEPT ![op[c].key] = op[c].val]
SetWarm(c) ==
  /\ pc[c] = "setWarm"
  /\ warm' = Warmed(c)
  /\ Goes(c, "evict")
  /\ UNCHANGED <<policy, cold, latest>>

(* retrieve: the policy, then the warm backend, then the cold one.         *)
Retrieve(c, k) ==
  LET r == Access(policy, k)
  IN  /\ pc[c] = "idle"
      /\ IF Holds(policy, k)
         THEN /\ policy' = r.policy
              /\ Becomes(c, "evict", [NoOp EXCEPT !.key = k, !.demote = r.evicted])
         ELSE /\ Becomes(c, IF HasWarm THEN "getWarm" ELSE IF HasCold THEN "getCold" ELSE "idle",
                         [NoOp EXCEPT !.key = k])
              /\ UNCHANGED policy
      /\ UNCHANGED <<warm, cold, latest>>

GetWarm(c) ==
  LET v == warm[op[c].key]
  IN  /\ pc[c] = "getWarm"
      /\ Becomes(c, IF v # Nothing THEN "promote" ELSE IF HasCold THEN "getCold" ELSE "idle",
                 [op[c] EXCEPT !.val = v])
      /\ UNCHANGED <<policy, warm, cold, latest>>

GetCold(c) ==
  LET v == cold[op[c].key]
  IN  /\ pc[c] = "getCold"
      /\ Becomes(c, IF v # Nothing THEN "promote" ELSE "idle",
                 [op[c] EXCEPT !.val = v, !.rewarm = HasWarm])
      /\ UNCHANGED <<policy, warm, cold, latest>>

(* What was found is inserted and accessed; the evictions due to the       *)
(* access are dropped.                                                     *)
Promote(c) ==
  LET r == Insert(policy, op[c].key, op[c].val)
  IN  /\ pc[c] = "promote"
      /\ policy' = Access(r.policy, op[c].key).policy
      /\ Becomes(c, "evict", [op[c] EXCEPT !.demote = r.evicted])
      /\ UNCHANGED <<warm, cold, latest>>

Demote(c, k) ==
  /\ pc[c] = "idle"
  /\ Becomes(c, "evict", [NoOp EXCEPT !.key = k, !.demote = <<k>>])
  /\ UNCHANGED <<policy, warm, cold, latest>>

--------------------------------------------------------------------------------
(* demote, for every entry that was evicted: find the value without        *)
(* promoting it, store it in the cold backend and remove it elsewhere.     *)

Victim(c) == Head(op[c].demote)
NextVictim(c) == [op[c] EXCEPT !.demote = Tail(@)]

FindVictim(c) ==
  /\ pc[c] = "evict" /\ op[c].demote # << >> /\ HasCold
  /\ IF Holds(policy, Victim(c))
     THEN Becomes(c, "setCold", [op[c] EXCEPT !.found = policy.val[Victim(c)]])
     ELSE Goes(c, IF HasWarm THEN "findWarm" ELSE "findCold")
  /\ UNCHANGED <<policy, warm, cold, latest>>

FindWarm(c) ==
  LET v == warm[Victim(c)]
  IN  /\ pc[c] = "findWarm"
      /\ Becomes(c, IF v # Nothing THEN "setCold" ELSE "findCold", [op[c] EXCEPT !.found = v])
      /\ UNCHANGED <<policy, warm, cold, latest>>

FindCold(c) ==
  LET v == cold[Victim(c)]
  IN  /\ pc[c] = "findCold"
      /\ IF v # Nothing THEN Becomes(c, "setCold", [op[c] EXCEPT !.found = v])
         ELSE Becomes(c, "evict", NextVictim(c))
      /\ UNCHANGED <<policy, warm, cold, latest>>

SetCold(c) ==
  /\ pc[c] = "setCold"
  /\ cold' = [cold EXCEPT ![Victim(c)] = op[c].found]
  /\ Goes(c, "remove")
  /\ UNCHANGED <<policy, warm, latest>>

RemoveVictim(c) ==
  /\ pc[c] = "remove"
  /\ policy' = Removed(policy, Victim(c))
  /\ IF HasWarm THEN Goes(c, "delWarm") ELSE Becomes(c, "evict", NextVictim(c))
  /\ UNCHANGED <<warm, cold, latest>>

DeleteWarm(c) ==
  /\ pc[c] = "delWarm"
  /\ warm' = [warm EXCEPT ![Victim(c)] = Nothing]
  /\ Becomes(c, "evict", NextVictim(c))
  /\ UNCHANGED <<policy, cold, latest>>

(* Nothing left to demote: a value from the cold backend goes back to the  *)
(* warm one, then the operation is over.                                   *)
Finish(c) ==
  /\ pc[c] = "evict" /\ (op[c].demote = << >> \/ ~HasCold)
  /\ IF op[c].rewarm
     THEN Becomes(c, "setWarm", [op[c] EXCEPT !.demote = << >>, !.rewarm = FALSE])
     ELSE Becomes(c, "idle", NoOp)
  /\ UNCHANGED <<policy, warm, cold, latest>>

Next ==
  \E c \in Clients :
    \/ \E k \in Keys : Store(c, k) \/ Retrieve(c, k) \/ Demote(c, k)
    \/ SetWarm(c) \/ GetWarm(c) \/ GetCold(c) \/ Promote(c)
    \/ FindVictim(c) \/ FindWarm(c) \/ FindCold(c) \/ SetCold(c) \/ RemoveVictim(c)
    \/ DeleteWarm(c) \/ Finish(c)

Spec == Init /\ [][Next]_vars

--------------------------------------------------------------------------------
(* Properties.                                                             *)

(* Types, and the policy within its capacities with every entry in one     *)
(* segment only.                                                           *)
TypeOK ==
  /\ Len(policy.hot) <= HotMax /\ Len(policy.warm) <= WarmMax
  /\ IsInjective(policy.hot \o policy.warm)
  /\ policy.hot \in Seq(Keys) /\ policy.warm \in Seq(Keys)
  /\ policy.val \in [Keys -> Versions]
  /\ warm \in [Keys -> Versions] /\ cold \in [Keys -> Versions] /\ latest \in [Keys -> Versions]
  /\ pc \in [Clients -> {"idle", "setWarm", "getWarm", "getCold", "promote", "evict", "findWarm",
                         "findCold", "setCold", "remove", "delWarm"}]

(* Where retrieve would find key k.                                        *)
Lookup(k) ==
  IF Holds(policy, k) THEN policy.val[k] ELSE IF warm[k] # Nothing THEN warm[k] ELSE cold[k]

(* What was stored last is what a later retrieve finds, whatever has been  *)
(* promoted, evicted or demoted since.                                     *)
Remembered ==
  (\A c \in Clients : pc[c] = "idle") => \A k \in Keys : Lookup(k) = latest[k]
================================================================================
