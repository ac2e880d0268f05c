------------------------------- MODULE MCAccess -------------------------------
(***************************************************************************)
(* Instances of what stands between a request and what it asks for: the    *)
(* limits on requests, delegated capabilities and access lists, the cards  *)
(* of other agents, guardrails around an agent, the prompt shield of a run *)
(* and the graphs that a watched project serves.  They share no state, so  *)
(* they are explored side by side: part says which one moves, and the      *)
(* variables of the others stay 0 (no card is registered).                 *)
(***************************************************************************)
EXTENDS AgentCards

CONSTANTS LastToken, LastTime, LastMoment, MaxRetries, LastRequest, LastEdit,
          Agents, WebAgents, JwkAgents, Revocable, Claims, Issuances, Acls, Tools, Ttl, ShortTtl,
          Runs, Branch, Checked, BlockOnLeak, Sensitive, Harmless,
          Chains, Hooks, Texts,
          Identities, MaxTokens, Window,
          AgentFiles, WorkflowFiles

VARIABLES
  part,
  now, tokens, down, revoked, restricted, acl, calls,
  hooks, raises, inChain, outChain, asString, stage, at, input, text, attempt, rejected, result,
  pc, shielded, caps, forked, base, was, scan, announced, granted, report, asked, output,
  clock, buckets, history,
  texts, changed, agents, known, graphs, edits, aborted, aliases

-----------------------------------------------------------------------------
(* Two agents that delegate to each other, one of them known by did:web.   *)
Unlimited == 99
Cap(resource, ability, max) == [resource |-> resource, ability |-> ability, max |-> max]
SomeClaims == {
  {Cap(<<"tools", "*">>, "*", 1), Cap(<<"secrets", "key">>, "read", Unlimited)},
  {Cap(<<"tools", "search">>, "tool/invoke", Unlimited), Cap(<<"tools">>, "tool/invoke", Unlimited),
   Cap(<<"tools", "send", "*">>, "tool/invoke", Unlimited)}}
SomeAcls == {[all |-> FALSE, allowed |-> {"search", "send"}, denied |-> {"send"}]}
EachOther == {<<"A", "B">>, <<"B", "A">>}
Tokens == INSTANCE ToolAccess

(* Chains of one guardrail of every kind and failure action, and of two in *)
(* both orders.                                                            *)
Guard(finds, onFail, fixes) == [finds |-> finds, onFail |-> onFail, fixes |-> fixes]
Filter(onFail) == Guard("banned", onFail, FALSE)
Redacts == Guard("pii", "fix", TRUE)
Schema == Guard("malformed", "retry", FALSE)
Short(onFail) == Guard("long", onFail, TRUE)
SomeChains ==
  {<<g>> : g \in {Filter("block"), Filter("log"), Filter("fix"), Filter("exception"), Redacts,
                  Short("fix"), Short("retry"), Schema}} \cup
  {<<>>, <<Redacts, Short("block")>>, <<Short("block"), Redacts>>, <<Schema, Short("fix")>>,
   <<Filter("log"), Schema>>, <<Filter("block"), Schema>>, <<Schema, Filter("block")>>}
SomeHooks ==
  {<<>>, <<Filter("block"), Guard("malformed", "block", FALSE), Guard("pii", "block", TRUE)>>}
SomeTexts ==
  {{}, {"empty", "malformed"}, {"banned", "long"}, {"pii", "malformed"}, {"pii", "long"}, {"banned"}}
Guards == INSTANCE Guardrails

Shield == INSTANCE PromptShield WITH restricted <- shielded

Rates == INSTANCE RateLimit

Reload == INSTANCE HotReload

ASSUME AccessAssumption ==
  /\ Tokens!ToolAccessAssumption /\ Guards!GuardAssumption
  /\ Shield!ShieldAssumption /\ Rates!RateAssumption /\ Reload!HotReloadAssumption

-----------------------------------------------------------------------------
NoTokens ==
  now = 0 /\ tokens = 0 /\ down = 0 /\ revoked = 0 /\ restricted = 0 /\ acl = 0 /\ calls = 0
NoGuards ==
  /\ hooks = 0 /\ raises = 0 /\ inChain = 0 /\ outChain = 0 /\ asString = 0 /\ stage = 0 /\ at = 0
  /\ input = 0 /\ text = 0 /\ attempt = 0 /\ rejected = 0 /\ result = 0
NoShield ==
  /\ pc = 0 /\ shielded = 0 /\ caps = 0 /\ forked = 0 /\ base = 0 /\ was = 0 /\ scan = 0
  /\ announced = 0 /\ granted = 0 /\ report = 0 /\ asked = 0 /\ output = 0
NoRates == clock = 0 /\ buckets = 0 /\ history = 0
NoReload ==
  /\ texts = 0 /\ changed = 0 /\ agents = 0 /\ known = 0
  /\ graphs = 0 /\ edits = 0 /\ aborted = 0 /\ aliases = 0

MCInit ==
  /\ Init
  /\ part \in {"tokens", "cards", "guards", "shield", "rates", "reload"}
  /\ IF part = "tokens" THEN Tokens!Init ELSE NoTokens
  /\ IF part = "guards" THEN Guards!Init ELSE NoGuards
  /\ IF part = "shield" THEN Shield!Init ELSE NoShield
  /\ IF part = "rates" THEN Rates!Init ELSE NoRates
  /\ IF part = "reload" THEN Reload!Init ELSE NoReload

tokenVars == <<now, tokens, down, revoked, restricted, acl, calls>>
guardVars == <<hooks, raises, inChain, outChain, asString, stage, at, input, text, attempt, rejected, result>>
shieldVars == <<pc, shielded, caps, forked, base, was, scan, announced, granted, report, asked, output>>
rateVars == <<clock, buckets, history>>
reloadVars == <<texts, changed, agents, known, graphs, edits, aborted, aliases>>
allVars == <<part, tokenVars, cVars, guardVars, shieldVars, rateVars, reloadVars>>

MCNext ==
  /\ UNCHANGED part
  /\ \/ part = "tokens" /\ Tokens!Next /\ UNCHANGED <<cVars, guardVars, shieldVars, rateVars, reloadVars>>
     \/ part = "cards" /\ Next /\ UNCHANGED <<tokenVars, guardVars, shieldVars, rateVars, reloadVars>>
     \/ part = "guards" /\ Guards!Next /\ UNCHANGED <<tokenVars, cVars, shieldVars, rateVars, reloadVars>>
     \/ part = "shield" /\ Shield!Next /\ UNCHANGED <<tokenVars, cVars, guardVars, rateVars, reloadVars>>
     \/ part = "rates" /\ Rates!Next /\ UNCHANGED <<tokenVars, cVars, guardVars, shieldVars, reloadVars>>
     \/ part = "reload" /\ Reload!Next /\ UNCHANGED <<tokenVars, cVars, guardVars, shieldVars, rateVars>>
MCSpec == MCInit /\ [][MCNext]_allVars

-----------------------------------------------------------------------------
(* The properties of the parts, stated in their modules: delegation chains *)
(* and the authority they carry, the guardrails of an agent, the shield of *)
(* a run, the rate of requests, the cards that are served, and the graphs: *)
(* what is served is made of the current agents, and a reloaded agent gets *)
(* into all the workflows that refer to it or into none.                   *)
ChainUnbroken == part = "tokens" => Tokens!ChainUnbroken
AuthorityNarrows == part = "tokens" => Tokens!AuthorityNarrows
GuardsHold == part = "guards" => Guards!GuardsHold
ShieldSticks == part = "shield" => Shield!ShieldSticks
RateHolds == part = "rates" => Rates!RateHolds
ServedIsWhole ==
  /\ [](part = "reload" => Reload!ServesCurrent)
  /\ [][part = "reload" => Reload!AllOrNone]_reloadVars
=============================================================================
