--------------------------- MODULE MCCompiledGraph -----------------------------
(***************************************************************************)
(* Graphs small enough for TLC, one for each group of the engine's runs.   *)
(***************************************************************************)
EXTENDS CompiledGraph, SequencesExt

Straight(ts) == [kind |-> "edge", to |-> << >>, exits |-> ts, join |-> "END_", limit |-> 0]
OneOf(ts)    == [Straight(ts) EXCEPT !.kind = "conditional"]
Nowhere      == [Straight({}) EXCEPT !.kind = "none"]
LoopUpTo(k)  == [Straight({}) EXCEPT !.kind = "loop", !.limit = k]
HandsTo(ts)  == [Straight(ts) EXCEPT !.kind = "handoff"]
FanTo(ts, j) == [Straight({}) EXCEPT !.kind = "parallel", !.to = ts, !.join = j]
SendTo(ts)   == [FanTo(ts, "END_") EXCEPT !.kind = "send"]

(* An editorial workflow: a draft fans out to two checkers whose findings  *)
(* a human reviews; it goes back or is published, and then polished.       *)
ReviewNodes == {"draft", "lint", "cite", "review", "publish", "polish"}
ReviewEdges == [n \in ReviewNodes |->
  CASE n = "draft"   -> FanTo(<<"lint", "cite">>, "review")
    [] n = "review"  -> OneOf({"draft", "publish"})
    [] n = "publish" -> Straight({"polish"})
    [] n = "polish"  -> LoopUpTo(2)
    [] OTHER         -> Nowhere]
ReviewFields == {"text", "notes"}
ReviewWrites == [n \in ReviewNodes |->
  CASE n \in {"lint", "cite"}    -> {"text", "notes"}
    [] n \in {"draft", "polish"} -> {"text"}
    [] OTHER                     -> {"notes"}]

(* The other kinds of edges: a triage that hands off, then sends.          *)
TriageNodes == {"triage", "expert", "mail", "log"}
TriageEdges == [n \in TriageNodes |->
  CASE n = "triage" -> HandsTo({"expert", "mail"})
    [] n = "expert" -> SendTo(<<"mail", "log">>)
    [] OTHER        -> Nowhere]
TriageWrites == [n \in TriageNodes |-> IF n = "triage" THEN {"notes"} ELSE {"text", "notes"}]

(* One node at a time and no reducers: a plan, sections that are checked,  *)
(* a report.                                                               *)
ReportNodes == {"plan", "write", "check", "file"}
ReportEdges == [n \in ReportNodes |->
  CASE n = "plan"  -> Straight({"write"})
    [] n = "write" -> Straight({"check"})
    [] n = "check" -> OneOf({"write", "plan", "file"})
    [] OTHER       -> Nowhere]
ReportWrites == [n \in ReportNodes |->
  CASE n = "check" -> {"notes"} [] n = "write" -> {"text", "notes"} [] OTHER -> {"text"}]

--------------------------------------------------------------------------------
(* merge_parallel_updates applies one update after the other; the closed   *)
(* form in WorkflowGraph computes the same.                                *)
MergeOneByOne(s, ts) == FoldLeft(LAMBDA acc, n : ApplyUpdate(acc, Writes[n], n), s, ts)
ASSUME MergeAgrees ==
  \A s \in [Fields -> {<< >>, <<Human>>}] :
    \A ts \in UNION {[1 .. k -> Nodes] : k \in 0 .. 2} :
      MergeParallel(s, ts) = MergeOneByOne(s, ts)

================================================================================
