------------------------------ MODULE ToolAccess -------------------------------
(***************************************************************************)
(* Who may call which tool: UCAN tokens that are issued, delegated and     *)
(* attenuated while time passes, the verification of a delegation chain,   *)
(* and the decision ToolACL takes for one call.  Signatures are taken to   *)
(* be what they are for: a token is what its issuer issued.                *)
(***************************************************************************)
EXTENDS Integers, Sequences, SequencesExt, FiniteSetsExt

CONSTANTS
  Agents,      \* DIDs
  Issuances,   \* bound: who issues to whom, pairs of agents
  Revocable,   \* bound: the agents that are ever revoked
  WebAgents,   \* those of method did:web
  JwkAgents,   \* those whose document has its key as a JWK only, as build_did_document writes it
  Claims,      \* what a token may claim: sets of capabilities [resource, ability, max], a resource
               \* being a path with "*" for its wildcard; one capability of a set names a tool
  Acls,        \* access lists: [all, allowed, denied], the patterns expanded to tool names
  Tools,
  Ttl, ShortTtl,   \* of a token, and of an attenuated one
  LastToken,   \* bound: tokens issued
  LastTime     \* bound: the clock

(* A wildcard is the last part of a path.                                  *)
IsPath(r) == r \in Seq(STRING) /\ r # <<>> /\ \A i \in 1 .. (Len(r) - 1) : r[i] # "*"
ToolAccessAssumption ==
  /\ \A caps \in Claims : \A c \in caps : IsPath(c.resource)
  /\ Issuances \subseteq Agents \X Agents
  /\ Ttl \in Int /\ ShortTtl \in Int

VARIABLES
  now,
  tokens,      \* the tokens issued: [iss, aud, att, nbf, exp, form, proofs], proofs by index
  down,        \* DIDs whose document cannot be fetched
  revoked,     \* RevocationList
  restricted,  \* context.restricted_mode
  acl,         \* the access list of the agent
  calls        \* context's call_counts, per tool

tVars == <<now, tokens, down, revoked, restricted, acl, calls>>

Caps == UNION Claims
Unlimited == 99     \* max_calls is None
Init ==
  /\ now = 0 /\ tokens = <<>> /\ down = {} /\ revoked = {} /\ restricted = FALSE
  /\ acl \in Acls /\ calls = [t \in Tools |-> 0]

-----------------------------------------------------------------------------
(* Capabilities.                                                           *)
AllTools == <<"tools", "*">>
IsWild(r) == r # <<>> /\ Last(r) = "*"
Within(r, parent) == IsPrefix(Front(parent), r)     \* parent is a wildcard
AbilityOk(granted, wanted) == granted \in {"*", wanted}

(* UCANManager.check_capability: a wildcard covers what is below it.       *)
Grants(att, resource, ability) ==
  \E c \in att :
    /\ c.resource = resource \/ (IsWild(c.resource) /\ Within(resource, c.resource) /\ resource # Front(c.resource))
    /\ AbilityOk(c.ability, ability)

(* ToolACL: the tool itself, or all tools.                                 *)
Names(c, tool) == c.resource \in {<<"tools", tool>>, AllTools} /\ AbilityOk(c.ability, "tool/invoke")

(* validate_narrowing: each capability of the child has a parent that      *)
(* covers it.                                                              *)
Slip_Covers(p, c) == p.resource = c.resource \/ p.resource = AllTools \/ IsPrefix(p.resource, c.resource)
Covers(p, c) ==
  /\ AbilityOk(p.ability, c.ability)
  /\ \/ p.resource \in {c.resource, AllTools}
     \/ IsWild(p.resource) /\ Within(c.resource, p.resource)
Narrows(parent, child) == \A c \in child : \E p \in parent : Covers(p, c)

-----------------------------------------------------------------------------
(* Issuing.                                                                *)
Issues(iss, aud, caps, ttl, form, proofs) ==
  /\ Len(tokens) < LastToken
  /\ tokens' = Append(tokens, [iss |-> iss, aud |-> aud, att |-> caps, nbf |-> now, exp |-> now + ttl,
                               form |-> form, proofs |-> proofs])
  /\ UNCHANGED <<now, down, revoked, restricted, acl, calls>>

(* A root token, or one with the proofs its holder has: as JWTs, or as the *)
(* JSON form that only ToolACL reads.  max_calls is not part of a JWT.     *)
Issue ==
  \E pair \in Issuances, caps \in Claims, form \in {"jwt", "json"},
     ps \in {<<>>} \cup {<<i>> : i \in DOMAIN tokens} \cup {<<i, i + 1>> : i \in 1 .. (Len(tokens) - 1)} :
    /\ (ps = <<>> => form = "jwt")
    /\ Issues(pair[1], pair[2], caps, Ttl, form, ps)

(* In restricted mode secrets, deletions and writes are left out.          *)
Attenuated(caps) ==
  IF restricted
  THEN {c \in caps : "secrets" \notin ToSet(c.resource) /\ c.ability \notin {"tool/write", "tool/delete"}}
  ELSE caps
AttenuateToken ==
  \E p \in DOMAIN tokens, pair \in Issuances, caps \in Claims :
    /\ pair[1] = tokens[p].aud
    /\ Issues(pair[1], pair[2], Attenuated(caps), ShortTtl, "jwt", <<p>>)
RiskScore ==
  /\ ~restricted /\ restricted' = TRUE
  /\ UNCHANGED <<now, tokens, down, revoked, acl, calls>>

Revoke(a) == /\ revoked' = revoked \cup {a}
             /\ UNCHANGED <<now, tokens, down, restricted, acl, calls>>
Unrevoke(a) == /\ revoked' = revoked \ {a}
               /\ UNCHANGED <<now, tokens, down, restricted, acl, calls>>
Tick == /\ now < LastTime /\ now' = now + 1
        /\ UNCHANGED <<tokens, down, revoked, restricted, acl, calls>>
(* The host of a did:web document goes away, or comes back.                *)
Fetch == /\ \E a \in WebAgents : down' = IF a \in down THEN down \ {a} ELSE down \cup {a}
         /\ UNCHANGED <<now, tokens, revoked, restricted, acl, calls>>

-----------------------------------------------------------------------------
(* verify_delegation_chain.                                                *)
(* One token by itself.  Only a multibase key is looked for.               *)
Examined(t, aud, resource, ability) ==
  LET k == tokens[t] IN
  IF k.iss \in down THEN "raises"
  ELSE IF \/ k.iss \in JwkAgents
          \/ k.exp < now \/ k.nbf > now + 1 \/ k.aud # aud
          \/ ~Grants(k.att, resource, ability)
  THEN "refused" ELSE "ok"

(* The first proof that is not refused decides: one that grants ends the   *)
(* search, one that raises ends the verification.                          *)
Slip_Audience(t, aud) == aud
Audience(t, aud) == tokens[t].iss
Verified(resource, ability) ==
  LET V[t \in DOMAIN tokens, aud \in Agents] ==
        LET own == Examined(t, aud, resource, ability)
            ps == tokens[t].proofs
            of(i) == IF tokens[t].form = "json" THEN "refused" ELSE V[ps[i], Audience(t, aud)]
            settled == {i \in DOMAIN ps : of(i) # "refused"}
        IN  IF own # "ok" \/ ps = <<>> THEN own
            ELSE IF settled = {} THEN "refused" ELSE of(Min(settled))
  IN  V

(* ToolACL.is_authorized, in the order of its steps.                       *)
AclAllows(tool) == acl.all \/ tool \in acl.allowed
(* A proof that is a JWT is opaque to _parse_proof and skipped, so that a  *)
(* token with such proofs is compared with nothing.                        *)
Chain(t) == IF tokens[t].form = "json" THEN Append(tokens[t].proofs, t) ELSE <<t>>
Widens(chain) ==
  \E i \in 1 .. (Len(chain) - 1) : ~Narrows(tokens[chain[i]].att, tokens[chain[i + 1]].att)
IsAuthorized(tool, t, agent) ==
  IF agent \in revoked THEN "revoked"
  ELSE IF \/ tool \in acl.denied
          \/ tokens[t].exp < now
          \/ ~AclAllows(tool)
          \/ ~\E c \in tokens[t].att : Names(c, tool)
  THEN "no"
  ELSE IF Widens(Chain(t)) THEN "denied" ELSE "yes"

(* check_ucan_call_limit: the first capability that names the tool.        *)
Limit(tool, t) == (CHOOSE c \in tokens[t].att : Names(c, tool)).max
Call(agent) ==
  /\ \E t \in DOMAIN tokens, tool \in Tools :
       /\ tokens[t].aud = agent
       /\ IsAuthorized(tool, t, agent) = "yes" /\ calls[tool] < Limit(tool, t)
       /\ calls' = IF Limit(tool, t) = Unlimited THEN calls
                   ELSE [calls EXCEPT ![tool] = @ + 1]
  /\ UNCHANGED <<now, tokens, down, revoked, restricted, acl>>

Next == \/ Issue \/ AttenuateToken \/ RiskScore \/ Tick \/ Fetch
        \/ \E a \in Revocable : Revoke(a) \/ Unrevoke(a)
        \/ \E a \in Agents : Call(a)
Spec == Init /\ [][Next]_tVars

-----------------------------------------------------------------------------
(* A chain verifies exactly when there is an unbroken path of tokens from  *)
(* a root to its holder, each issued to the issuer of the next, each in    *)
(* its time and each granting the capability; a document that cannot be    *)
(* fetched may stop it, and nothing else.                                  *)
PathsFrom(t) == {<<t>>} \cup {<<t, i>> : i \in DOMAIN tokens} \cup {<<t, i, j>> : i, j \in DOMAIN tokens}
Unbroken(path, aud, r, a) ==
  /\ tokens[Last(path)].proofs = <<>>
  /\ \A i \in DOMAIN path :
       /\ Examined(path[i], IF i = 1 THEN aud ELSE tokens[path[i - 1]].iss, r, a) = "ok"
       /\ i < Len(path) => tokens[path[i]].form = "jwt" /\ path[i + 1] \in ToSet(tokens[path[i]].proofs)
ChainUnbroken ==
  \A tool \in Tools : LET r == <<"tools", tool>>   V == Verified(r, "tool/invoke") IN
    \A t \in DOMAIN tokens, aud \in Agents :
      LET some == \E path \in PathsFrom(t) : Unbroken(path, aud, r, "tool/invoke")
      IN  /\ V[t, aud] = "ok" => some
          /\ some /\ down = {} => V[t, aud] = "ok"

(* A call is authorized with a token whose proofs ToolACL can read only if *)
(* every proof of it, up to the first, covers all that the token claims    *)
(* and so the call itself: links are compared two by two, and authority    *)
(* narrows along all of them.  Of a token whose proofs are JWTs, the only  *)
(* form that issue and delegate make, nothing of the kind holds: ToolACL   *)
(* skips them, and the token is authorized by what it claims itself.       *)
AuthorityNarrows ==
  \A t \in DOMAIN tokens, tool \in Tools :
    IsAuthorized(tool, t, tokens[t].aud) = "yes" /\ tokens[t].form = "json" =>
      LET wanted == [resource |-> <<"tools", tool>>, ability |-> "tool/invoke"] IN
      \A p \in ToSet(tokens[t].proofs) : /\ Narrows(tokens[p].att, tokens[t].att)
                                         /\ \E c \in tokens[p].att : Covers(c, wanted)
=============================================================================
