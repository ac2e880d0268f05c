-------------------------------- MODULE MCTprm --------------------------------
(***************************************************************************)
(* Instances of the TPRM application.  The service runs an assessment in a *)
(* task that shares nothing with it but its progress and its result, so    *)
(* the two modules are explored side by side: part says which one moves.   *)
(***************************************************************************)
EXTENDS TprmAssessment

CONSTANTS Clients, LastRun, MaxRuns, Steps
VARIABLES part, started, listed, expired, status, task, graph, shown, emitted, taken, stream

Service == INSTANCE TprmRuns
ASSUME ServiceAssumption == Service!TprmAssumption

serviceVars == <<started, listed, expired, status, task, graph, shown, emitted, taken, stream>>

Doc(name, kind, text, drl) == [name |-> name, kind |-> kind, text |-> text, drl |-> drl]
Vendor(roster, provider, packet, docs, sink) ==
  [mode |-> "vendor", roster |-> roster, provider |-> provider, packet |-> packet, docs |-> docs,
   scope |-> FALSE, breakers |-> {}, materiality |-> {}, value |-> 0, sink |-> sink]
Unscoped(roster, provider, packet, docs, sink) ==
  [Vendor(roster, provider, packet, docs, sink) EXCEPT !.mode = "ma"]
Scoped(roster, provider, packet, docs, breakers, materiality, value, sink) ==
  [Unscoped(roster, provider, packet, docs, sink) EXCEPT
     !.scope = TRUE, !.breakers = breakers, !.materiality = materiality, !.value = value]

Contract == Doc("msa", "contract", "text", {})
Lost == Doc("soc2", "security_attestation", "missing", {"security_pentest"})
Accounts == Doc("10k", "financial_filing", "text", {"financial_statements"})
Repo == Doc("repo", "source_code", "text", {})
SomeRequests == {
  Vendor(<<"LegalAgent", "ExternalAgent">>, TRUE, "local", <<Contract, Lost>>, TRUE),
  Vendor(<<"SecurityAgent", "CodeAgent", "ESGAgent">>, TRUE, "drive", <<Lost, Repo>>, FALSE),
  Vendor(<<"LegalAgent", "SecurityAgent">>, FALSE, "local", <<Contract, Lost>>, TRUE),
  Vendor(<<"LegalAgent", "ESGAgent">>, TRUE, "none", <<>>, TRUE),
  Vendor(<<"LegalAgent">>, TRUE, "broken", <<>>, TRUE),
  Scoped(<<"FinancialAgent", "SaaSMetricsAgent">>, TRUE, "local", <<Accounts>>, {}, {4}, 0, TRUE),
  Scoped(<<"CodeAgent", "SaaSMetricsAgent">>, TRUE, "drive", <<Accounts, Contract>>, {"code-risk"}, {}, 300, TRUE),
  Scoped(<<"FinancialAgent", "ESGAgent">>, FALSE, "local", <<Accounts>>, {"agent-error"}, {}, 0, FALSE),
  Unscoped(<<"LegalAgent", "CodeAgent">>, TRUE, "local", <<Contract, Repo>>, TRUE)}
SomeRoutes == {<<>>, <<"msa", "10k">>, <<"soc2">>, <<"repo">>, <<"unlisted">>}

MCInit ==
  /\ part \in {"assessment", "service"}
  /\ Init /\ Service!Init
  /\ part = "service" => request = CHOOSE r \in Requests : TRUE
MCNext ==
  /\ UNCHANGED part
  /\ \/ part = "assessment" /\ Next /\ UNCHANGED serviceVars
     \/ part = "service" /\ Service!Next /\ UNCHANGED aVars
MCSpec == MCInit /\ [][MCNext]_<<part, aVars, serviceVars>>
           /\ Service!Fairness

(* The properties of the service (TprmRuns).                               *)
Concluded == Service!Concluded
EvictionSpares == Service!EvictionSpares
StreamCloses == Service!StreamCloses
=============================================================================
