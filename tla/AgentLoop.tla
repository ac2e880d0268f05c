------------------------------- MODULE AgentLoop -------------------------------
(***************************************************************************)
(* BaseAgent.run in the branches of one fan-out: each branch asks the      *)
(* model, executes the tools it asks for and asks again, while all of them *)
(* share the event bus, the store behind it, the cost aggregator and the   *)
(* budget.  In replay mode recorded tool calls are answered from the log.  *)
(***************************************************************************)
EXTENDS Integers, Sequences, FiniteSets, SequencesExt, FiniteSetsExt, Functions

CONSTANTS
  Branches,        \* the agents of the fan-out
  OwnTools,        \* [name -> the parameters its function takes]
  Requests,        \* the calls a model asks for: [tool, args], args a set of names
  AuthorizedTools, \* by the access list of the agents
  Models,          \* the models that answer: names cut into parts
  Prices,          \* ModelCostRegistry: [registered name -> price of a token]
  Usages,          \* tokens of a response; 0 when it has no usage
  HardUsd, HardTokens,   \* of the budget policy, NoLimit for None
  MaxIterations,
  MostRequests,    \* bound: tool calls of a response
  Recordings       \* replay_events; <<>> outside replay mode

VARIABLES
  pc,          \* of each branch
  turn,        \* iterations begun
  answer,      \* the response at hand: its calls that wait, its tokens and model
  records,     \* all_tool_records
  totals,      \* the aggregator's: cost and tokens
  trail,       \* the events in the store, by branch
  performed,   \* tool functions that were entered: their branch, tool and arguments
  recording,   \* context.replay_events
  drawn        \* tokens that each branch took from the provider, counted or not

aVars == <<pc, turn, answer, records, totals, trail, performed, recording, drawn>>

NoLimit == -1
AgentAssumption ==
  /\ IsFiniteSet(Branches) /\ Branches # {}
  /\ \E most \in Usages : most > 0 /\ \A n \in Usages : n \in Nat /\ n <= most
  /\ HardTokens \in Nat \cup {NoLimit}

Nothing == [calls |-> <<>>, tokens |-> 0, model |-> <<>>]
Init ==
  /\ pc = [a \in Branches |-> "check"]
  /\ turn = [a \in Branches |-> 0]
  /\ answer = [a \in Branches |-> Nothing]
  /\ records = [a \in Branches |-> <<>>]
  /\ totals = [usd |-> 0, tokens |-> 0]
  /\ trail = [a \in Branches |-> <<>>]
  /\ performed = [a \in Branches |-> <<>>]
  /\ recording \in Recordings
  /\ drawn = [a \in Branches |-> 0]

replaying == recording # <<>>
Goes(a, to) == pc' = [pc EXCEPT ![a] = to]
Fails(a) == Goes(a, "failed")

-----------------------------------------------------------------------------
(* Cost.                                                                   *)
(* ModelCostRegistry: an exact name, else the longest registered prefix;   *)
(* an unknown model costs nothing.                                         *)
PriceOf(model) ==
  LET known == {r \in DOMAIN Prices : IsPrefix(r, model)}
  IN  IF known = {} THEN 0 ELSE Prices[CHOOSE r \in known : \A q \in known : Len(q) <= Len(r)]

Count(a) == totals' = [usd    |-> totals.usd + answer[a].tokens * PriceOf(answer[a].model),
                       tokens |-> totals.tokens + answer[a].tokens]
Slip_Reached(used, limit) == limit # NoLimit /\ used > limit
Reached(used, limit) == limit # NoLimit /\ used >= limit
HardLimitHit == Reached(totals.usd, HardUsd) \/ Reached(totals.tokens, HardTokens)

-----------------------------------------------------------------------------
(* Asking the model.                                                       *)
(* budget_policy.enforce, with no await between it and the call.           *)
Check(a) ==
  /\ pc[a] = "check"
  /\ IF turn[a] = MaxIterations THEN Goes(a, "exhausted") /\ UNCHANGED turn
     ELSE IF HardLimitHit THEN Fails(a) /\ UNCHANGED turn
     ELSE Goes(a, "llm") /\ turn' = [turn EXCEPT ![a] = @ + 1]
  /\ UNCHANGED <<answer, records, totals, trail, performed, recording, drawn>>

(* What a response leads to once it has been reported.                     *)
After(a, calls) == IF calls # <<>> THEN "tool" ELSE "done"
Respond(a) ==
  /\ pc[a] = "llm"
  /\ \E n \in Usages, mo \in Models, k \in 0 .. MostRequests : \E calls \in [1 .. k -> Requests] :
       /\ answer' = [answer EXCEPT ![a] = [calls |-> calls, tokens |-> n, model |-> mo]]
       /\ drawn' = [drawn EXCEPT ![a] = @ + n]
       /\ Goes(a, IF replaying THEN After(a, calls) ELSE "report")
  /\ UNCHANGED <<turn, records, totals, trail, performed, recording>>
ProviderFails(a) == /\ pc[a] = "llm" /\ Fails(a)
                    /\ UNCHANGED <<turn, answer, records, totals, trail, performed, recording, drawn>>

(* event_bus.emit: the store is the first subscriber and is awaited, the   *)
(* aggregator comes after it; an append that raises ends the emission and  *)
(* the agent's run.                                                        *)
ReportLlm(a) ==
  /\ pc[a] = "report"
  /\ trail' = [trail EXCEPT ![a] = Append(@, [type |-> "LLMCalled"])]
  /\ Count(a)
  /\ Goes(a, After(a, answer[a].calls))
  /\ UNCHANGED <<turn, answer, records, performed, recording, drawn>>
StoreFails(a) ==
  /\ pc[a] \in {"report", "reportTool", "denied"} /\ Fails(a)
  /\ UNCHANGED <<turn, answer, records, totals, trail, performed, recording, drawn>>

-----------------------------------------------------------------------------
(* Executing a tool.                                                       *)
Call(a) == Head(answer[a].calls)
Record(a, result, error) ==
  records' = [records EXCEPT ![a] = Append(@, [call |-> Call(a), result |-> result, error |-> error])]

(* In replay mode: the first recorded call of the same tool and arguments. *)
IsSame(event, call) == event.call = call
Recorded(call) == {i \in DOMAIN recording : IsSame(recording[i], call)}
ReplayTool(a) ==
  /\ pc[a] = "tool" /\ Recorded(Call(a)) # {}
  /\ LET event == recording[Min(Recorded(Call(a)))] IN Record(a, event.result, event.error)
  /\ Goes(a, "next")
  /\ UNCHANGED <<turn, answer, totals, trail, performed, recording, drawn>>

(* The violation is emitted in replay mode as well.                        *)
RefuseTool(a) ==
  /\ pc[a] = "tool" /\ Recorded(Call(a)) = {} /\ Call(a).tool \notin AuthorizedTools
  /\ Goes(a, "denied")
  /\ UNCHANGED <<turn, answer, records, totals, trail, performed, recording, drawn>>
ReportDenial(a) ==
  /\ pc[a] = "denied"
  /\ trail' = [trail EXCEPT ![a] = Append(@, [type |-> "SecurityViolation"])]
  /\ Record(a, "", "denied")
  /\ Goes(a, IF replaying THEN "next" ELSE "reportTool")
  /\ UNCHANGED <<turn, answer, totals, performed, recording, drawn>>

Slip_AfterTool(error) == IF replaying \/ error # "" THEN "next" ELSE "reportTool"
AfterTool(error) == IF replaying THEN "next" ELSE "reportTool"
UnknownTool(a) ==
  /\ pc[a] = "tool" /\ Recorded(Call(a)) = {} /\ Call(a).tool \in AuthorizedTools
  /\ Call(a).tool \notin DOMAIN OwnTools
  /\ Record(a, "", "unknown") /\ Goes(a, AfterTool("unknown"))
  /\ UNCHANGED <<turn, answer, totals, trail, performed, recording, drawn>>

(* ToolWrapper.execute: arguments that the function does not take are left *)
(* out, and an exception becomes the error of the result.                  *)
StartTool(a) ==
  /\ pc[a] = "tool" /\ Recorded(Call(a)) = {} /\ Call(a).tool \in AuthorizedTools
  /\ Call(a).tool \in DOMAIN OwnTools
  /\ performed' = [performed EXCEPT ![a] =
       Append(@, [tool |-> Call(a).tool, args |-> Call(a).args \cap OwnTools[Call(a).tool]])]
  /\ Goes(a, "running")
  /\ UNCHANGED <<turn, answer, records, totals, trail, recording, drawn>>
FinishTool(a) ==
  /\ pc[a] = "running"
  /\ \E ok \in BOOLEAN :
       /\ IF ok THEN Record(a, "out", "") ELSE Record(a, "", "raised")
       /\ Goes(a, AfterTool(IF ok THEN "" ELSE "raised"))
  /\ UNCHANGED <<turn, answer, totals, trail, performed, recording, drawn>>
ReportTool(a) ==
  /\ pc[a] = "reportTool"
  /\ LET r == Last(records[a]) IN
     trail' = [trail EXCEPT ![a] =
       Append(@, [type |-> "ToolCalled", call |-> r.call, result |-> r.result, error |-> r.error])]
  /\ Goes(a, "next")
  /\ UNCHANGED <<turn, answer, records, totals, performed, recording, drawn>>

NextCall(a) ==
  /\ pc[a] = "next"
  /\ LET rest == Tail(answer[a].calls) IN
     /\ answer' = [answer EXCEPT ![a] =
          IF rest = <<>> THEN Nothing ELSE [calls |-> rest, tokens |-> @.tokens, model |-> @.model]]
     /\ Goes(a, IF rest = <<>> THEN "check" ELSE "tool")
  /\ UNCHANGED <<turn, records, totals, trail, performed, recording, drawn>>

Next == \E a \in Branches :
  \/ Check(a) \/ Respond(a) \/ ProviderFails(a) \/ ReportLlm(a) \/ StoreFails(a)
  \/ ReplayTool(a) \/ RefuseTool(a) \/ ReportDenial(a) \/ UnknownTool(a)
  \/ StartTool(a) \/ FinishTool(a) \/ ReportTool(a) \/ NextCall(a)
Spec == Init /\ [][Next]_aVars

-----------------------------------------------------------------------------
(* A fan-out passes its hard token limit by one call of each branch at     *)
(* most, and no branch that saw it reached asks again; tokens that the     *)
(* aggregator does not know are those of responses still being reported,   *)
(* or of branches whose report failed.                                     *)
Unreported ==
  [a \in Branches |-> IF pc[a] \in {"report", "failed"} THEN answer[a].tokens ELSE 0]
Asking == {a \in Branches : pc[a] \in {"llm", "report"}}
BudgetHolds ==
  recording = <<>> =>
    /\ SumFunctionOnSet(drawn, Branches) <= totals.tokens + SumFunctionOnSet(Unreported, Branches)
    /\ HardTokens # NoLimit =>
         totals.tokens + Cardinality(Asking) * Max(Usages)
           < HardTokens + Cardinality(Branches) * Max(Usages)

(* Outside replay mode every tool that was entered is in the store's trail *)
(* of its branch, in order, but for the last one of a branch that has not  *)
(* reported it or failed to; and in replay mode nothing recorded is done   *)
(* again: what the log has is answered from it, whatever else is executed. *)
Logged(a) ==
  {i \in DOMAIN trail[a] : trail[a][i].type = "ToolCalled" /\ trail[a][i].error \notin {"denied", "unknown"}}
Place(a, i) == Cardinality({j \in Logged(a) : j <= i})
Matches(done, e) == done.tool = e.call.tool /\ done.args = e.call.args \cap OwnTools[done.tool]
Same(call) == {i \in DOMAIN recording : recording[i].call = call}
Executed(a) == {i \in DOMAIN records[a] : Same(records[a][i].call) = {}}
TrailIsComplete ==
  \A a \in Branches :
    IF recording = <<>>
    THEN LET n == Len(performed[a])   logged == Cardinality(Logged(a)) IN
         /\ logged \in {n, n - 1}
         /\ logged < n => pc[a] \in {"running", "reportTool", "failed"}
         /\ \A i \in Logged(a) : Matches(performed[a][Place(a, i)], trail[a][i])
    ELSE /\ \A i \in DOMAIN records[a] :
              LET r == records[a][i] IN
              Same(r.call) # {} =>
                LET first == recording[Min(Same(r.call))] IN r.result = first.result /\ r.error = first.error
         /\ Logged(a) = {}
         /\ Len(performed[a]) <= Cardinality(Executed(a)) + (IF pc[a] = "running" THEN 1 ELSE 0)
=============================================================================
