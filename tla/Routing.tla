------------------------------- MODULE Routing ---------------------------------
(***************************************************************************)
(* CostAwareRouter and the Thompson selector: options are filtered by SLA  *)
(* and budget, a fallback relaxes one of the two, and the selector samples *)
(* among what is left by what was reported of each model so far.           *)
(***************************************************************************)
EXTENDS Integers, Sequences, FiniteSetsExt

CONSTANTS
  Options,      \* sequences of options: [model, input, cost, latency, capability, features]: the
                \* price of input tokens, and the cost of the estimated ones at both prices
  Slas,         \* [capability, latency, features]: least capability score, greatest latency
                \* score, required features
  Budgets,      \* [max, remaining], NoLimit for None
  LastReport    \* bound: outcomes reported

VARIABLES
  options, stats,   \* stats: [model -> [wins, losses]], from the first time it is seen
  request, chosen   \* the last request and its decision, "none" when it failed

uVars == <<options, stats, request, chosen>>

NoLimit == -1
Nobody == [model |-> "none", input |-> 0, cost |-> 0, latency |-> 0, capability |-> 0,
           features |-> {}]
Option == [model : STRING \ {"none"}, input : Nat, cost : Nat, latency : Nat, capability : Nat,
           features : SUBSET STRING]
RouterAssumption ==
  /\ \A all \in Options : all \in Seq(Option) /\ all # <<>>
  /\ \A b \in Budgets : b \in [max : Nat \cup {NoLimit}, remaining : Nat \cup {NoLimit}]
NoRequest == [sla |-> CHOOSE s \in Slas : TRUE, budget |-> CHOOSE b \in Budgets : TRUE, fallback |-> "none"]
Init ==
  /\ options \in Options /\ stats = <<>>
  /\ request = NoRequest /\ chosen = [of |-> Nobody, relaxed |-> "none"]

MeetsSla(o, sla) ==
  o.capability >= sla.capability /\ o.latency <= sla.latency /\ sla.features \subseteq o.features
Affordable(o, b) == (b.max # NoLimit => o.cost <= b.max) /\ (b.remaining # NoLimit => o.cost <= b.remaining)
FilterBySla(places, sla) == {i \in places : MeetsSla(options[i], sla)}
FilterByBudget(places, b) == {i \in places : Affordable(options[i], b)}
(* Half as much again, rounded down as costs are whole here; a maximum of  *)
(* zero is taken for none.                                                 *)
Slip_Relaxed(b) == [b EXCEPT !.max = NoLimit, !.remaining = NoLimit]
Relaxed(b) == [b EXCEPT !.max = IF b.max \in {NoLimit, 0} THEN NoLimit ELSE (b.max * 3) \div 2]

(* The cheapest by its input price; min takes the first of equals.         *)
Cheapest(places) == Min({i \in places : \A j \in places : options[i].input <= options[j].input})
Fastest(places) == Min({i \in places : \A j \in places : options[i].latency <= options[j].latency})
OrAll(places) == IF places = {} THEN DOMAIN options ELSE places

Candidates(r) ==
  LET all == DOMAIN options
      fit == FilterByBudget(FilterBySla(all, r.sla), r.budget)
  IN  CASE fit # {} -> [from |-> fit, relaxed |-> "none"]
        [] fit = {} /\ r.fallback = "fail_fast" -> [from |-> {}, relaxed |-> "none"]
        [] fit = {} /\ r.fallback = "favor_cost" ->
             [from |-> {Cheapest(OrAll(FilterByBudget(all, r.budget)))}, relaxed |-> "favor_cost"]
        [] OTHER ->
             [from |-> {Fastest(OrAll(FilterByBudget(FilterBySla(all, r.sla), Relaxed(r.budget))))},
              relaxed |-> "favor_latency"]

(* The sample of any candidate may be the highest: priors give every model *)
(* a chance.                                                               *)
SelectModel ==
  \E sla \in Slas, b \in Budgets, f \in {"fail_fast", "favor_cost", "favor_latency"} :
    LET r == [sla |-> sla, budget |-> b, fallback |-> f]   c == Candidates(r)
        new == {options[i].model : i \in c.from} \ DOMAIN stats
    IN  /\ request' = r
        /\ stats' = [m \in DOMAIN stats \cup new |-> IF m \in new THEN [wins |-> 1, losses |-> 1] ELSE stats[m]]
        /\ IF c.from = {} THEN chosen' = [of |-> Nobody, relaxed |-> "none"]
           ELSE \E i \in c.from : chosen' = [of |-> options[i], relaxed |-> c.relaxed]
        /\ UNCHANGED options
ReportOutcome ==
  \E o \in Range(options), success \in BOOLEAN :
    LET seen == IF o.model \in DOMAIN stats THEN stats[o.model] ELSE [wins |-> 1, losses |-> 1] IN
    /\ seen.wins + seen.losses < LastReport + 2
    /\ stats' = [m \in DOMAIN stats \cup {o.model} |->
         IF m # o.model THEN stats[m]
         ELSE IF success THEN [seen EXCEPT !.wins = @ + 1] ELSE [seen EXCEPT !.losses = @ + 1]]
    /\ UNCHANGED <<options, request, chosen>>

Next == SelectModel \/ ReportOutcome
Spec == Init /\ [][Next]_uVars

-----------------------------------------------------------------------------
(* A decision breaks a limit only when its fallback allows it and nothing  *)
(* within the limit was on offer: favoring cost overspends only if every   *)
(* model does, favoring latency stays within one and a half times the      *)
(* maximum and within what remains if any model of the SLA does, and a     *)
(* request fails only when asked to.  (A maximum of zero is no limit.)     *)
ChoiceWithinLimits ==
  LET o == chosen.of   r == request   b == r.budget   all == Range(options)
      within == {p \in all : MeetsSla(p, r.sla) /\ Affordable(p, b)}
      stretched == {p \in all : /\ MeetsSla(p, r.sla)
                                /\ b.max \notin {NoLimit, 0} => 2 * p.cost <= 3 * b.max
                                /\ b.remaining # NoLimit => p.cost <= b.remaining}
  IN  r.fallback # "none" =>
        /\ within # {} => o \in within /\ chosen.relaxed = "none"
        /\ o = Nobody <=> within = {} /\ r.fallback = "fail_fast"
        /\ chosen.relaxed = "favor_cost" => \A p \in all : Affordable(p, b) => Affordable(o, b)
        /\ chosen.relaxed = "favor_latency" /\ stretched # {} => o \in stretched
=============================================================================
