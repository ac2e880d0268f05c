---------------------------- MODULE TprmAssessment ----------------------------
(***************************************************************************)
(* One vendor-risk or M&A assessment (orchestra_tprm/graph.py and          *)
(* agents/): intake, routing of the documents, specialists in parallel,    *)
(* risk score, policy decision with its audit, remediation, report and,    *)
(* for M&A, the integration plan.  A language model answers in any of the  *)
(* shapes the agents tell apart.  The engine that runs the nodes is        *)
(* CompiledGraph; a node that raises fails the run.                        *)
(***************************************************************************)
EXTENDS Integers, Sequences, FiniteSets, SequencesExt, FiniteSetsExt

CONSTANTS
  Requests,      \* [mode, roster, provider, packet, docs, scope, breakers, materiality, value, sink]:
                 \* of an M&A scope, the categories of finding whose summary has a deal-breaker
                 \* keyword, the materiality threshold (a set of at most one) and the
                 \* enterprise value, 0 for none
  Routes,        \* lists of document names the routing model may give an agent
  Answers,       \* the shapes a specialist's model may answer in
  Exposure       \* the upper exposure of a finding that has one

AssessmentAssumption ==
  /\ \A q \in Requests :
       /\ q.roster \in Seq(STRING)
       /\ q.value \in Nat /\ q.materiality \subseteq Int
       /\ ~q.scope => q.value = 0
  /\ Exposure \in Nat
ASSUME AssessmentAssumed == AssessmentAssumption

VARIABLES
  request,    \* what was asked, and how the graph is configured
  at,         \* the node being executed, "end" or "failed"
  manifest,   \* the documents, as [name, kind, text, drl]: drl is the set of categories of the
              \* document request list whose keywords its path or kind has
  routing,    \* routing[a]: the document names given to agent a
  branch,     \* branch[a]: [todo, found, status] of a specialist
  findings,   \* findings of the state
  light,      \* traffic light of the risk score
  decision,   \* verdict of the policy, recommendation and risk register of its memo
  plan,       \* remediation plan
  integration,\* integration (PMI) plan, one item per finding
  audit,      \* rows of the audit table
  report      \* the sheet row or memo, once written

aVars == <<request, at, manifest, routing, branch, findings, light, decision, plan,
           integration, audit, report>>

None == "none"
Roster == ToSet(request.roster)
MA == request.mode = "ma"
Unwritten == [verdict |-> None, findings |-> <<>>, register |-> <<>>, light |-> None,
              plan |-> None, integration |-> <<>>]
Written == report.verdict # None

Init ==
  /\ request \in Requests
  /\ at = "intake" /\ manifest = <<>> /\ findings = <<>> /\ audit = <<>>
  /\ routing = [a \in ToSet(request.roster) |-> <<>>]
  /\ branch = [a \in ToSet(request.roster) |-> [todo |-> <<>>, found |-> <<>>, status |-> "idle"]]
  /\ light = None /\ plan = None /\ report = Unwritten /\ integration = <<>>
  /\ decision = [verdict |-> None, recommendation |-> None, register |-> <<>>]

Goto(node) == at' = node
(* A node that raises: the engine stops, its state update is not applied.  *)
Fails == at' = "failed"

Plain(a, category, severity) ==
  [agent |-> a, category |-> category, severity |-> severity, ic |-> None, upper |-> 0]
Tagged(a, category, severity, ic, upper) ==
  [agent |-> a, category |-> category, severity |-> severity, ic |-> ic, upper |-> upper]

(***************************************************************************)
(* Before the specialists                                                  *)
(***************************************************************************)
(* A packet on disk, a Drive folder (a failed download leaves an empty     *)
(* file), neither, or a manifest that cannot be read.                      *)
Intake ==
  /\ at = "intake"
  /\ \/ request.packet = "broken" /\ Fails /\ UNCHANGED manifest
     \/ /\ request.packet # "broken"
        /\ manifest' = CASE request.packet = "local" -> request.docs
                         [] request.packet = "drive" ->
                              [i \in DOMAIN request.docs |->
                                 [request.docs[i] EXCEPT !.text =
                                    IF @ = "missing" THEN "empty" ELSE @]]
                         [] OTHER -> <<>>
        /\ Goto(IF MA THEN "vdr_gate" ELSE "router")
  /\ UNCHANGED <<request, routing, branch, findings, light, decision, plan, integration, audit, report>>

Drl == {"financial_statements", "legal_corporate", "ip_assignments", "security_pentest", "cap_table",
        "tax_returns"}
Gaps == Drl \ UNION {manifest[i].drl : i \in DOMAIN manifest}
VdrGate ==
  /\ at = "vdr_gate"
  /\ findings' = findings \o
       [i \in 1 .. Cardinality(Gaps) |->
          Tagged("VDRGate", "vdr-missing", "low", "post-close-monitoring", 0)]
  /\ Goto("router")
  /\ UNCHANGED <<request, manifest, routing, branch, light, decision, plan, integration, audit, report>>

Readers(kind) ==
  CASE kind = "contract" -> {"LegalAgent"}
    [] kind = "security_attestation" -> {"SecurityAgent"}
    [] kind = "financial_filing" -> {"FinancialAgent", "LegalAgent", "SaaSMetricsAgent"}
    [] kind = "source_code" -> {"CodeAgent"}
    [] kind = "annual_report" ->
         {"LegalAgent", "FinancialAgent", "SecurityAgent", "SaaSMetricsAgent", "ESGAgent"}
    [] kind = "sustainability_report" -> {"ESGAgent"}
    [] OTHER -> {"LegalAgent", "SecurityAgent"}

Names(docs) == [i \in DOMAIN docs |-> docs[i].name]
ByKind == [a \in Roster |-> Names(SelectSeq(manifest, LAMBDA d : a \in Readers(d.kind)))]

(* An agent that was given nothing gets the first document.                *)
Backstop(r) ==
  [a \in Roster |-> IF r[a] = <<>> /\ manifest # <<>> THEN <<manifest[1].name>> ELSE r[a]]

(***************************************************************************)
(* Specialists                                                             *)
(***************************************************************************)
Quick == {"ExternalAgent", "CodeAgent"}                    \* one question for all documents
SkipsBlank == {"ESGAgent", "FinancialAgent", "SaaSMetricsAgent"}
Trusting == {"LegalAgent", "SecurityAgent", "ESGAgent"}    \* do not check for a list

(* file_uris is keyed by name: of two files of one name, the later.        *)
Text(name) == LET same == {i \in DOMAIN manifest : manifest[i].name = name}
              IN  IF same = {} THEN "unlisted" ELSE manifest[Max(same)].text
Asks(a, name) == IF a \in SkipsBlank THEN Text(name) = "text" ELSE Text(name) # "unlisted"

Error(a) == [todo |-> <<>>, found |-> <<Plain(a, "agent-error", "critical")>>, status |-> "raised"]
Settled(found) == [todo |-> <<>>, found |-> found, status |-> "done"]

(* What an agent does before its first question.                           *)
Opening(a, docs) ==
  LET todo == SelectSeq(docs, LAMBDA n : Asks(a, n))
  IN  CASE a = "ExternalAgent" ->
             IF \E n \in ToSet(docs) : Text(n) = "missing"
             THEN Error(a) ELSE [todo |-> <<"all">>, found |-> <<>>, status |-> "working"]
        [] a = "CodeAgent" ->
             IF \E n \in ToSet(docs) : Text(n) = "text"
             THEN [todo |-> <<"all">>, found |-> <<>>, status |-> "working"] ELSE Settled(<<>>)
        [] a = "ESGAgent" /\ docs = <<>> -> Settled(<<Plain(a, "no-docs", "low")>>)
        [] a = "SaaSMetricsAgent" /\ docs = <<>> ->
             Settled(<<Tagged(a, "no-docs", "low", "post-close-monitoring", 0)>>)
        [] OTHER -> IF todo = <<>> THEN Settled(<<>>)
                    ELSE [todo |-> todo, found |-> <<>>, status |-> "working"]

(* The routing model raises (and fails the run), answers with something    *)
(* usable, or does not.  Then every specialist starts.                     *)
Route ==
  /\ at = "router"
  /\ \/ request.provider /\ Fails /\ UNCHANGED <<routing, branch>>
     \/ /\ \/ ~request.provider /\ routing' = ByKind
           \/ request.provider /\ routing' = Backstop(ByKind)
           \/ request.provider /\ \E r \in [Roster -> Routes] : routing' = Backstop(r)
        /\ branch' = [a \in Roster |-> Opening(a, routing'[a])]
        /\ Goto("specialists")
  /\ UNCHANGED <<request, manifest, findings, light, decision, plan, integration, audit, report>>

(* The findings of an answer that is an array with one item (an object,    *)
(* for the code agent, with a licence of its own).  "stopper" is a         *)
(* critical item, and "chip" a high one, that the SaaS agent tags as       *)
(* deal-stopper or price adjustment.                                       *)
Severity(answer) == CASE answer = "stopper" -> "critical" [] answer = "chip" -> "high" [] OTHER -> answer
Licenses == {"standard", "gpl", "lgpl", "other"}
License(license) ==
  CASE ~MA \/ license = "standard" -> <<>>
    [] MA /\ license = "gpl" ->
         <<Tagged("CodeAgent", "oss-license", "critical", "deal-stopper", request.value)>>
    [] MA /\ license = "lgpl" -> <<Tagged("CodeAgent", "oss-license", "high", "SPA-protection", 0)>>
    [] OTHER -> <<Tagged("CodeAgent", "oss-license", "low", "post-close-monitoring", 0)>>
Items(a, answer, license) ==
  CASE a = "SaaSMetricsAgent" ->
         <<CASE answer = "stopper" -> Tagged(a, "item", "critical", "deal-stopper", 0)
             [] answer = "chip" -> Tagged(a, "item", "high", "price-adjustment", Exposure)
             [] OTHER -> Tagged(a, "item", Severity(answer), "post-close-monitoring", 0)>>
    [] a = "CodeAgent" -> <<Plain(a, "code-risk", Severity(answer))>> \o License(license)
    [] OTHER -> <<Plain(a, "item", Severity(answer))>>

(* _call_llm asks twice when the answer was withheld for safety.           *)
Suppressed(a) ==
  [todo |-> <<>>, found |-> <<Plain(a, "filter-suppressed", "medium")>>, status |-> "suppressed"]
Answered(b, found) == [todo |-> Tail(b.todo), found |-> found, status |-> b.status]
Slip_Heard(a, b, answer, license) ==
  CASE answer = "raises" -> [todo |-> <<>>, found |-> b.found, status |-> "raised"]
    [] answer = "suppressed" -> Suppressed(a)
    [] OTHER -> Answered(b, b.found)
Heard(a, b, answer, license) ==
  CASE answer = "raises" \/ (answer = "shape" /\ a \in Trusting) -> Error(a)
    [] answer = "suppressed" -> Suppressed(a)
    [] answer = "silent" -> Answered(b, b.found)
    [] answer = "prose" \/ (answer = "shape" /\ a \notin Trusting) ->
         Answered(b, Append(b.found, Plain(a, "parse-error",
                                           IF a \in Trusting THEN "high" ELSE "critical")))
    [] OTHER -> Answered(b, b.found \o Items(a, answer, license))

(* The last document done: the financial agent of an M&A run normalises    *)
(* the earnings when it has found something.                               *)
Wound(a, b) ==
  IF b.status # "working" \/ b.todo # <<>> THEN b
  ELSE [todo |-> b.todo, found |-> b.found,
        status |-> IF a = "FinancialAgent" /\ MA /\ b.found # <<>> THEN "qoe" ELSE "done"]

Ask(a) ==
  /\ at = "specialists" /\ branch[a].status = "working"
  /\ \E answer \in IF request.provider THEN Answers ELSE {"raises"}, license \in Licenses :
       branch' = [branch EXCEPT ![a] = Wound(a, Heard(a, branch[a], answer, license))]
  /\ UNCHANGED <<request, at, manifest, routing, findings, light, decision, plan, integration, audit, report>>

(* Earnings normalised: a price chip, none, nothing usable, or a failure   *)
(* that loses what the documents gave.                                     *)
Normalise(a) ==
  /\ at = "specialists" /\ branch[a].status = "qoe"
  /\ \E b \in {Settled(branch[a].found \o <<Tagged(a, "qoe", "high", "price-adjustment", Exposure)>>),
               Settled(branch[a].found \o <<Tagged(a, "qoe", "low", "post-close-monitoring", 0)>>),
               Settled(branch[a].found), Error(a), Suppressed(a)} :
       /\ ~request.provider => b = Error(a)
       /\ branch' = [branch EXCEPT ![a] = b]
  /\ UNCHANGED <<request, at, manifest, routing, findings, light, decision, plan, integration, audit, report>>

Slip_Merged == branch[Last(request.roster)].found
Merged == FlattenSeq([i \in DOMAIN request.roster |-> branch[request.roster[i]].found])
Join ==
  /\ at = "specialists" /\ \A a \in Roster : branch[a].status \notin {"working", "qoe"}
  /\ findings' = findings \o Merged
  /\ Goto("risk_score")
  /\ UNCHANGED <<request, manifest, routing, branch, light, decision, plan, integration, audit, report>>

(***************************************************************************)
(* Risk score and policy                                                   *)
(***************************************************************************)
Weight(severity) ==
  IF MA THEN CASE severity = "low" -> 1 [] severity = "medium" -> 4 [] severity = "high" -> 10 [] OTHER -> 25
        ELSE CASE severity = "low" -> 1 [] severity = "medium" -> 3 [] severity = "high" -> 7 [] OTHER -> 15
Added(n) == LET upto[i \in 0 .. Len(n)] == IF i = 0 THEN 0 ELSE upto[i - 1] + n[i]
            IN  upto[Len(n)]
Total(fs) == Added([i \in DOMAIN fs |-> Weight(fs[i].severity)])

(* Python's round: a half goes to the even neighbour.                      *)
Round(a, b) == LET q == a \div b
                   r == 2 * (a % b)
               IN  IF r > b \/ (r = b /\ q % 2 = 1) THEN q + 1 ELSE q
Overall(fs) == IF fs = <<>> THEN 0 ELSE Round(100 * Total(fs), Len(fs) * Weight("critical"))
Light(overall) == IF overall <= (IF MA THEN 20 ELSE 30) THEN "green"
                  ELSE IF overall <= (IF MA THEN 59 ELSE 69) THEN "amber" ELSE "red"

(* The narration falls back to fixed text whatever the model does.         *)
RiskScore ==
  /\ at = "risk_score"
  /\ light' = Light(Overall(findings)) /\ Goto("policy")
  /\ UNCHANGED <<request, manifest, routing, branch, findings, decision, plan, integration, audit, report>>

Has(fs, P(_)) == \E i \in DOMAIN fs : P(fs[i])
IsCritical(f) == f.severity = "critical"
IsStopper(f) == f.ic = "deal-stopper" \/ f.category \in request.breakers
IsTagged(f) == f.ic # None
IsMediumUp(f) == f.severity # "low"

(* Without a scope the rules of the policy pack decide.                    *)
Ceiling == IF MA THEN 29 ELSE 30
Floor == IF MA THEN 9 ELSE 10
Ruled(fs) == IF Has(fs, IsCritical) \/ Total(fs) > Ceiling THEN "reject"
             ELSE IF Total(fs) > Floor THEN "conditional-approve" ELSE "approve"

(* With a scope the tags, summaries and exposures of the findings do; the  *)
(* threshold is the one it names, or two percent of the enterprise value.  *)
Exposed(fs) == Added([i \in DOMAIN fs |-> fs[i].upper])
Materiality ==
  IF request.materiality = {} /\ request.value > 0 THEN {(request.value * 2) \div 100}
  ELSE request.materiality
Recommended(fs) ==
  IF Has(fs, IsStopper) THEN "walk"
  ELSE IF \E threshold \in Materiality : Exposed(fs) > threshold THEN "reprice" ELSE "proceed"

(* The memo's recommendation is a placeholder without a scope.             *)
Verdict(fs) == IF request.scope THEN Recommended(fs) ELSE Ruled(fs)
Advised(fs) == IF request.scope THEN Recommended(fs) ELSE "proceed"
Register(fs) == IF request.scope THEN SelectSeq(fs, IsTagged) ELSE <<>>

(* The decision, then the audit rows.  When the load fails, or is lost     *)
(* after it took place, the run fails and the decision is not kept.        *)
Audited(fs) == audit \o fs
Policy ==
  /\ at = "policy"
  /\ \/ /\ audit' = Audited(findings)
        /\ decision' = [verdict |-> Verdict(findings), recommendation |-> Advised(findings),
                        register |-> Register(findings)]
        /\ Goto("remediation")
     \/ Fails /\ findings # <<>> /\ audit' \in {audit, Audited(findings)} /\ UNCHANGED decision
  /\ UNCHANGED <<request, manifest, routing, branch, findings, light, plan, integration, report>>

(* should_run_remediation takes either for an approval.                    *)
Approving == {decision.verdict, decision.recommendation} \cap {"approve", "proceed"} # {}
Needed == ~(Approving /\ ~Has(findings, IsMediumUp))

(* The plan: not needed, without subject, unusable, made of the model's    *)
(* items; or a horizon that is no number, which nothing catches.           *)
Remediation ==
  /\ at = "remediation"
  /\ \/ /\ plan' \in CASE ~Needed -> {"clean"}
                       [] Needed /\ ~Has(findings, IsMediumUp) -> {"nothing"}
                       [] Needed /\ ~request.provider -> {"unavailable"}
                       [] OTHER -> {"unavailable", "items"}
        /\ Goto("coordinator")
     \/ Needed /\ request.provider /\ Has(findings, IsMediumUp) /\ Fails /\ UNCHANGED plan
  /\ UNCHANGED <<request, manifest, routing, branch, findings, light, decision, integration, audit, report>>

(***************************************************************************)
(* Report and integration plan                                             *)
(***************************************************************************)
(* A vendor row has the verdict, a memo its recommendation.                *)
Told == [verdict |-> IF MA THEN decision.recommendation ELSE decision.verdict, findings |-> findings,
         register |-> decision.register, light |-> light, plan |-> plan, integration |-> integration]

(* The narrative is asked for first.  A vendor row is appended and then    *)
(* read back for the local copy; a memo is written in one request, or not  *)
(* at all without a client.  Each of these can fail, before or after it    *)
(* took place.                                                             *)
Coordinator ==
  /\ at = "coordinator"
  /\ \/ (request.provider \/ request.sink) /\ Fails /\ UNCHANGED report
     \/ ~MA /\ report' = Told /\ (Goto("end") \/ (request.sink /\ Fails))
     \/ MA /\ request.sink /\ report' = Told /\ (Goto("pmi_planner") \/ Fails)
     \/ MA /\ ~request.sink /\ UNCHANGED report /\ Goto("pmi_planner")
  /\ UNCHANGED <<request, manifest, routing, branch, findings, light, decision, plan, integration, audit>>

(* One item for each tagged finding, or those of the model's items that    *)
(* are well formed.                                                        *)
Concerns == SelectSeq(findings, IsTagged)
PmiPlanner ==
  /\ at = "pmi_planner"
  /\ \/ /\ integration' \in IF Concerns = <<>> \/ ~request.provider THEN {Concerns}
                            ELSE {Concerns, <<>>, <<Concerns[1]>>}
        /\ Goto("end")
     \/ Concerns # <<>> /\ request.provider /\ Fails /\ UNCHANGED integration
  /\ UNCHANGED <<request, manifest, routing, branch, findings, light, decision, plan, audit, report>>

Next ==
  \/ Intake \/ VdrGate \/ Route
  \/ \E a \in Roster : Ask(a) \/ Normalise(a)
  \/ Join \/ RiskScore \/ Policy \/ Remediation \/ Coordinator \/ PmiPlanner

Spec == Init /\ [][Next]_aVars

-----------------------------------------------------------------------------
(* What the sheet or the memo says has been audited, in the same order:    *)
(* the audit precedes every report, also of a run that then fails.         *)
ReportIsAudited == Written => report.findings = audit /\ report.findings = findings

(* Nothing a specialist found is lost on the way to the report, and a      *)
(* specialist that could not work is visible there: no answer that was     *)
(* withheld, and no exception, passes for a clean review.                  *)
NothingLost ==
  Written => \A a \in Roster :
    /\ ToSet(branch[a].found) \subseteq ToSet(report.findings)
    /\ branch[a].status \in {"raised", "suppressed"} =>
         Has(report.findings, LAMBDA f : f.agent = a /\ IsMediumUp(f))

(* Together: the report is the audited findings, all of them.              *)
ReportIsWhole == ReportIsAudited /\ NothingLost

(* A failing specialist blocks a decision by the policy pack, and a        *)
(* deal-stopper one by a scope, whatever the others found; and so says the *)
(* report, but for the memo of an M&A run without a scope, which has the   *)
(* placeholder.                                                            *)
FailsClosed ==
  Written =>
    /\ ~request.scope /\ (\E a \in Roster : branch[a].status = "raised") =>
         decision.verdict = "reject" /\ (~MA => report.verdict = "reject")
    /\ request.scope /\ Has(report.findings, IsStopper) =>
         decision.verdict = "walk" /\ report.verdict = "walk"

(* One more finding never softens the decision (the overall risk score,    *)
(* an average, has no such property).                                      *)
Strictness(verdict) == CASE verdict \in {"approve", "proceed"} -> 0
                         [] verdict \in {"conditional-approve", "reprice"} -> 1
                         [] OTHER -> 2
Further == {Plain("X", c, s) : c \in {"item"} \cup request.breakers, s \in {"low", "medium", "high", "critical"}}
             \cup {Tagged("X", "item", "low", "price-adjustment", Exposure),
                   Tagged("X", "item", "low", "deal-stopper", 0)}
NeverSofter ==
  at = "policy" => \A f \in Further :
    Strictness(Verdict(Append(findings, f))) >= Strictness(Verdict(findings))

(* Together: failures and further findings only make a decision stricter.  *)
VerdictHolds == FailsClosed /\ NeverSofter

(* policies/ma.yaml: "any critical finding blocks the deal".               *)
CriticalBlocks ==
  Written /\ MA /\ Has(report.findings, IsCritical) => decision.verdict \in {"walk", "reject"}
=============================================================================
