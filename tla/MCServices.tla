------------------------------ MODULE MCServices ------------------------------
(***************************************************************************)
(* Instances of the services that runs use: coalesced calls, the command   *)
(* line programs of the models, tiered memory, task delivery between       *)
(* replicas, and the budget ledger.  They share no state, so they are      *)
(* explored side by side: part says which one moves, and the others stay   *)
(* as they begin.                                                          *)
(***************************************************************************)
EXTENDS SingleFlight, Sequences

CONSTANTS LastCall, Replicas, Restarting, Recipients, BatchSize, MaxHistory, LastKey, MaxMessages, MaxOwed, LastDay,
  MemoryKeys, HotMax, WarmMax, HasCold,
  Tenants, NoParent, Parent, Limits, Debits, Finals

VARIABLES
  part,
  cli, streams, phase, proc, attempt, calls, outcome, answer, free, queue,
  policy, warm, cold, step, op, latest,
  stream, delivery, made, born, keys, consuming, batch, handled, owed,
  accounts, ledger, balances, today

-----------------------------------------------------------------------------
Programs == INSTANCE CliModel WITH
  Callers <- {"c1", "c2"}, Clis <- {"claude", "codex", "gemini"}, Gate <- 1

(* One client: operations of several interleave between their awaits.      *)
Memory == INSTANCE TieredMemory WITH
  Clients <- {"c1"}, Keys <- MemoryKeys, HasWarm <- TRUE, pc <- step

Tasks == INSTANCE TaskDelivery WITH pc <- consuming

(* Every tenant stays where it is in the hierarchy and has a daily budget. *)
Budget == INSTANCE BudgetLedger WITH
  Parents <- [t \in Tenants |-> {Parent[t]}], Kinds <- [t \in Tenants |-> {"daily"}]

(* An organisation, a team in it and two users, who ask three times.       *)
Tree == [t \in Tenants |-> CASE t = "org" -> NoParent [] t = "team" -> "org" [] OTHER -> "team"]
Reserve(key, tenant, amount, run) ==
  [key |-> key, tenant |-> tenant, amount |-> amount, run |-> run]
Settle(key, tenant, run, actual) ==
  [key |-> key, tenant |-> tenant, run |-> run, actual |-> actual]
ThreeDebits == {Reserve("k1", "u1", 1, "a"), Reserve("k2", "u1", 2, "a"), Reserve("k3", "u2", 2, "b")}
TwoFinals == {Settle("f1", "u1", "a", 3), Settle("f2", "u2", "b", 1)}

ASSUME ServiceAssumptions ==
  /\ Memory!TieredMemoryAssumption
  /\ Tasks!DeliveryAssumption /\ Budget!BudgetAssumption

-----------------------------------------------------------------------------
programVars == <<cli, streams, phase, proc, attempt, calls, outcome, answer, free, queue>>
memoryVars == <<policy, warm, cold, step, op, latest>>
taskVars == <<stream, delivery, made, born, keys, consuming, batch, handled, owed>>
budgetVars == <<accounts, ledger, balances, today>>
allVars == <<part, vars, programVars, memoryVars, taskVars, budgetVars>>

(* Callers of other programs meet nobody: one of the two uses gemini.      *)
MCInit ==
  /\ part \in {"flight", "programs", "memory", "tasks", "budget"}
  /\ Init /\ Programs!Init /\ Memory!Init /\ Tasks!Init /\ Budget!Init
  /\ cli["c1"] = "gemini" /\ (part # "programs" => cli["c2"] = "gemini")
MCNext ==
  /\ UNCHANGED part
  /\ \/ part = "flight" /\ Next /\ UNCHANGED <<programVars, memoryVars, taskVars, budgetVars>>
     \/ part = "programs" /\ Programs!Next /\ UNCHANGED <<vars, memoryVars, taskVars, budgetVars>>
     \/ part = "memory" /\ Memory!Next /\ UNCHANGED <<vars, programVars, taskVars, budgetVars>>
     \/ part = "tasks" /\ Tasks!Next /\ UNCHANGED <<vars, programVars, memoryVars, budgetVars>>
     \/ part = "budget" /\ Budget!Next /\ UNCHANGED <<vars, programVars, memoryVars, taskVars>>
(* No process and no fetch is under way in a part that does not move, so   *)
(* that their fairness asks nothing there.                                 *)
MCSpec == MCInit /\ [][MCNext]_allVars /\ Fairness /\ Programs!Fairness

-----------------------------------------------------------------------------
(* The properties of the parts, stated in their modules: fetches and who   *)
(* waits for them, processes and their gate, what memory keeps, what a     *)
(* durable consumer promises, and what a ledger says and allows.           *)
GateServes == Programs!GateServes
Remembered == Memory!Remembered
DeliveryHolds == Tasks!DeliveryHolds
LedgerSound == Budget!LedgerSound
LimitHeld == Budget!LimitHeld
=============================================================================
