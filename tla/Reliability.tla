------------------------------ MODULE Reliability ------------------------------
(***************************************************************************)
(* Hallucination checks around an agent that a graph runs in a loop: the   *)
(* self-checking agent samples its own prompt and may try once more, the   *)
(* auditor reports on what is in the state, and the fact-scoring agent     *)
(* rates the output against a topic.  Scores are in 24ths.                 *)
(***************************************************************************)
EXTENDS Integers, Sequences, SequencesExt, FiniteSetsExt

CONSTANTS
  Methods,        \* "llm" (votes) and "model" (NLI, BERTScore, n-gram)
  MaxSentences,   \* bound
  NumSamples,
  ModelScores,    \* bound: what a scoring model may say of a sentence
  Low, High,      \* low_risk_threshold and high_risk_threshold
  LastTry         \* bound: outputs produced

VARIABLES
  method, retryOnHighRisk,
  tries,       \* the outputs so far: how each was checked, NoCheck before
  run,         \* the tries of the self-checking agent's last run
  retrying,    \* it is to be tried again
  output,      \* state["output"]: a try, 0 before the first
  selfcheck,   \* state["selfcheck"]: [of, result]
  factscore,   \* state["factscore"]: [of, risk]
  audit        \* state["audit"]: [of, risk]

hVars == <<method, retryOnHighRisk, tries, run, retrying, output, selfcheck, factscore, audit>>

One == 24
None == [of |-> 0, risk |-> "none"]
NoCheck == [sentences |-> 0, samples |-> 0, consistency |-> One, risk |-> "none"]
Init ==
  /\ method \in Methods /\ retryOnHighRisk \in BOOLEAN
  /\ tries = <<>> /\ run = <<>> /\ retrying = FALSE /\ output = 0
  /\ selfcheck = [of |-> 0, result |-> NoCheck] /\ factscore = None /\ audit = None

Total(s) == FoldLeft(+, 0, s)
RiskLevel(score) == CASE score >= Low -> "low" [] score >= High /\ score < Low -> "medium" [] OTHER -> "high"

(* _score_llm: the votes of the samples that answered; 1/2 when none did.  *)
Votes == {"yes", "no", "other", "fails"}
Vote(v) == CASE v = "yes" -> 0 [] v = "no" -> One [] OTHER -> One \div 2
ScoreLlm(votes) ==
  LET cast == SelectSeq(votes, LAMBDA v : v # "fails")
  IN  IF cast = <<>> THEN One \div 2 ELSE Total([i \in DOMAIN cast |-> Vote(cast[i])]) \div Len(cast)
Scores(n, k) ==
  [1 .. n -> IF method = "llm" THEN {ScoreLlm(v) : v \in [1 .. k -> Votes]} ELSE ModelScores]

(* SelfChecker.check.  Samples that fail are left out; with none, or with  *)
(* no sentence, the response counts as consistent.                         *)
EmptyResult == [sentences |-> 0, samples |-> 0, consistency |-> One, risk |-> "low"]
CheckResult(scores, k) ==
  LET c == One - (Total(scores) \div Len(scores))
  IN  [sentences |-> Len(scores), samples |-> k, consistency |-> c, risk |-> RiskLevel(c)]
Results ==
  {EmptyResult} \cup UNION {{CheckResult(s, k) : s \in Scores(n, k)} : n \in 1 .. MaxSentences, k \in 1 .. NumSamples}

(* SelfCheckAgent.run: an output is checked; a risky one is tried again,   *)
(* and the try that scored better is kept with its scores.                 *)
Keep(i, all) == output' = i /\ selfcheck' = [of |-> i, result |-> all[i]]
RunChecked ==
  /\ ~retrying /\ Len(tries) < LastTry
  /\ \E r \in Results :
       LET all == Append(tries, r)   i == Len(tries) + 1 IN
       /\ tries' = all
       /\ run' = <<i>> /\ retrying' = (r.risk = "high" /\ retryOnHighRisk)
       /\ IF retrying' THEN UNCHANGED <<output, selfcheck>> ELSE Keep(i, all)
  /\ UNCHANGED <<method, retryOnHighRisk, factscore, audit>>
Slip_Better(new, old) == new.consistency >= High
Better(new, old) == new.consistency > old.consistency
Retry ==
  /\ retrying
  /\ \E r \in Results :
       LET all == Append(tries, r)   i == Len(all) IN
       /\ tries' = all
       /\ run' = Append(run, i)
       /\ Keep(IF Better(r, tries[run[1]]) THEN i ELSE run[1], all)
  /\ retrying' = FALSE
  /\ UNCHANGED <<method, retryOnHighRisk, factscore, audit>>

(* SessionAuditorAgent.run: the response in the state, checked anew.       *)
Audit ==
  /\ ~retrying
  /\ \E r \in Results : audit' = IF output = 0 THEN None ELSE [of |-> output, risk |-> r.risk]
  /\ UNCHANGED <<method, retryOnHighRisk, tries, run, retrying, output, selfcheck, factscore>>

(* FactScoreAgent.run: without a topic the result is not annotated, and    *)
(* the state keeps what it had.  check_batch rates an item by its own      *)
(* decisions, by the aggregate when there are none, and takes an item      *)
(* without facts for true.                                                 *)
ItemScore(supported, facts, aggregate) ==
  IF facts = -1 THEN aggregate ELSE IF facts = 0 THEN One ELSE (One * supported) \div facts
RunScored ==
  /\ ~retrying /\ Len(tries) < LastTry
  /\ tries' = Append(tries, NoCheck) /\ output' = Len(tries) + 1
  /\ \E topic \in BOOLEAN, facts \in -1 .. 2, aggregate \in ModelScores : \E supported \in 0 .. Max({0, facts}) :
       factscore' = IF topic
                    THEN [of |-> output', risk |-> RiskLevel(ItemScore(supported, facts, aggregate))]
                    ELSE factscore
  /\ UNCHANGED <<method, retryOnHighRisk, run, retrying, selfcheck, audit>>

Next == RunChecked \/ Retry \/ Audit \/ RunScored
Spec == Init /\ [][Next]_hVars

-----------------------------------------------------------------------------
(* Whatever was sampled and however often a run was tried: the report of a *)
(* self-checked output describes the very try that was kept, no other try  *)
(* of its run scored better, and a high risk stands only after two tries,  *)
(* if two are allowed.                                                     *)
ReportIsOfKept ==
  LET i == selfcheck.of   r == selfcheck.result IN
  ~retrying /\ run # <<>> =>
    /\ i \in ToSet(run) /\ r = tries[i]
    /\ \A j \in ToSet(run) : tries[j].consistency <= r.consistency
    /\ r.risk = "high" /\ retryOnHighRisk => Len(run) = 2
=============================================================================
