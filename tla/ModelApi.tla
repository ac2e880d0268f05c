------------------------------- MODULE ModelApi -------------------------------
(***************************************************************************)
(* An agent's conversation with a model over HTTP: every round converts    *)
(* the messages to the form of the provider's API, posts them with         *)
(* retries, parses the reply, and appends the calls it makes and their     *)
(* results.  A wrapper for models without tool support puts tools and      *)
(* schema into prompts instead.                                            *)
(***************************************************************************)
EXTENDS Integers, Sequences, SequencesExt, FiniteSetsExt

CONSTANTS
  Kinds,         \* of provider: "openai" (any compatible endpoint), "ollama", "anthropic", "google"
  Names,         \* of tools
  MaxRetries,    \* 3 everywhere
  LastRound      \* bounds the rounds of a conversation

ApiAssumption == Kinds \subseteq {"openai", "ollama", "anthropic", "google"} /\ MaxRetries \in Nat

VARIABLES
  kind, prompted,      \* the provider; the wrapper took the prompted strategy
  typed, file,         \* the agent has an output type; the state of a file for the conversation
  talk, round,         \* the messages, and the rounds of tools so far
  body,                \* what is posted
  posts,               \* how every post of this call was answered
  phase, error,
  reply                \* of a stream: the finish reason and whether it had calls

mVars == <<kind, prompted, typed, file, talk, round, body, posts, phase, error, reply>>
setup == <<kind, prompted, typed>>

Message(role, calls, id, name) == [role |-> role, calls |-> calls, id |-> id, name |-> name]
Says(role) == Message(role, <<>>, <<>>, "")
NoBody == [systems |-> {}, turns |-> <<>>, tools |-> FALSE, schema |-> FALSE, file |-> FALSE]

Init ==
  /\ kind \in Kinds /\ prompted \in BOOLEAN /\ typed \in BOOLEAN /\ file = "none"
  /\ talk = <<Says("agent"), Says("user")>> /\ round = 0
  /\ body = NoBody /\ posts = <<>> /\ phase = "idle" /\ error = "none" /\ reply = "none"

-----------------------------------------------------------------------------
(* Conversion to the form of each API.  The prompted strategy appends its  *)
(* system messages first.                                                  *)
ToolPrompt == Says("tools")
SchemaPrompt == Says("schema")
Prompts == IF typed THEN <<ToolPrompt, SchemaPrompt>> ELSE <<ToolPrompt>>
Sent(prompts) == IF prompts THEN talk \o Prompts ELSE talk
IsSystem(m) == m.role \in {"agent", "tools", "schema"}
Systems(messages) == {i \in DOMAIN messages : IsSystem(messages[i])}
SystemRoles(messages) == {messages[i].role : i \in Systems(messages)}
LastRole(messages) == messages[Max(Systems(messages))].role
(* The others, in order.                                                   *)
Spoken(messages) ==
  LET upto[n \in 0 .. Len(messages)] ==
        IF n = 0 THEN <<>>
        ELSE IF IsSystem(messages[n]) THEN upto[n - 1] ELSE Append(upto[n - 1], messages[n])
  IN  upto[Len(messages)]

(* What a call, and a result, carry for the API to pair them by.           *)
NoHandle == [id |-> <<>>, name |-> ""]
Turns(messages, handle) ==
  LET said == Spoken(messages)
      Of(x) == [NoHandle EXCEPT ![handle] = x[handle]]
      Turn(m) ==
        [role   |-> m.role,
         calls  |-> [i \in DOMAIN m.calls |-> Of(m.calls[i])],
         result |-> IF m.role = "tool" THEN Of(m) ELSE NoHandle]
  IN [i \in DOMAIN said |-> Turn(said[i])]

(* Anthropic and Google take one system text: the last.                    *)
HttpForm(ms) == [systems |-> SystemRoles(ms), turns |-> Turns(ms, "id")]
OllamaForm(ms) == [systems |-> SystemRoles(ms), turns |-> Turns(ms, "id")]
AnthropicForm(ms) == [systems |-> {LastRole(ms)}, turns |-> Turns(ms, "id")]
GoogleForm(ms) == [systems |-> {LastRole(ms)}, turns |-> Turns(ms, "name")]

(* The output type goes with a complete() call of two of the APIs.         *)
Request(form, prompts, schema) ==
  [systems |-> form.systems, turns |-> form.turns, tools |-> ~prompts, schema |-> schema, file |-> FALSE]
HttpBody(prompts, streams) ==
  Request(HttpForm(Sent(prompts)), prompts, typed /\ ~prompts /\ ~streams)
OllamaBody(prompts) == Request(OllamaForm(Sent(prompts)), prompts, FALSE)
AnthropicBody(prompts) == Request(AnthropicForm(Sent(prompts)), prompts, FALSE)
GoogleBody(prompts, streams) ==
  [Request(GoogleForm(Sent(prompts)), prompts, typed /\ ~prompts /\ ~streams)
     EXCEPT !.file = file = "attached"]
Body(prompts, streams) ==
  CASE kind = "openai"    -> HttpBody(prompts, streams)
    [] kind = "ollama"    -> OllamaBody(prompts)
    [] kind = "anthropic" -> AnthropicBody(prompts)
    [] kind = "google"    -> GoogleBody(prompts, streams)

-----------------------------------------------------------------------------
(* Statuses of a post, and the error each becomes.  "overlong" and         *)
(* "tokens" are 400s whose text names the context length, or only tokens;  *)
(* a 200 that is no JSON is not caught at all.                             *)
Statuses == {"401", "403", "404", "429", "bad", "overlong", "tokens", "5xx", "garbled", "dropped", "refused"}
Down == {"5xx", "dropped", "refused"}
HttpError(s) ==
  CASE s \in Down -> "unavailable" [] s = "garbled"  -> "untyped"
    [] s = "429"  -> "limited"     [] s = "401"      -> "authentication"
    [] s = "overlong" -> "context" [] OTHER          -> "provider"
AnthropicError(s) ==
  CASE s \in Down -> "unavailable" [] s = "garbled"  -> "untyped"
    [] s = "429"  -> "limited"     [] s = "401"      -> "authentication"
    [] s = "overlong" -> "context" [] OTHER          -> "provider"
GoogleError(s) ==
  CASE s \in Down -> "unavailable" [] s = "garbled"  -> "untyped"
    [] s = "429"  -> "limited"     [] s \in {"401", "403"} -> "authentication"
    [] s \in {"overlong", "tokens"} -> "context" [] OTHER -> "provider"
OllamaError(s) ==
  CASE s \in Down -> "unavailable" [] s = "garbled" -> "untyped" [] OTHER -> "provider"
ErrorOf(s) ==
  CASE kind = "openai" -> HttpError(s) [] kind = "anthropic" -> AnthropicError(s)
    [] kind = "google" -> GoogleError(s) [] kind = "ollama" -> OllamaError(s)

(* The clauses of _request_with_retry that loop.  Ollama's for             *)
(* ProviderError comes first and takes every status; a refused connection  *)
(* it raises at once.                                                      *)
HttpRetries(s) == HttpError(s) \in {"limited", "unavailable"}
AnthropicRetries(s) == AnthropicError(s) \in {"limited", "unavailable"}
GoogleRetries(s) == GoogleError(s) \in {"limited", "unavailable"}
OllamaRetries(s) == s = "dropped"
Slip_Retried(s) == ErrorOf(s) # "provider"
Retried(s) ==
  CASE kind = "openai" -> HttpRetries(s) [] kind = "anthropic" -> AnthropicRetries(s)
    [] kind = "google" -> GoogleRetries(s) [] kind = "ollama" -> OllamaRetries(s)
(* A stream is posted once; only Ollama's translates a refused connection. *)
StreamError(s) ==
  IF s = "dropped" \/ (s = "refused" /\ kind # "ollama") THEN "untyped" ELSE ErrorOf(s)

Fails(e) == phase' = "failed" /\ error' = e

(* complete(): Google's schema conversion may fail before anything is sent.*)
Complete ==
  /\ phase = "idle"
  /\ body' = Body(prompted, FALSE) /\ posts' = <<>>
  /\ \/ phase' = "posting" /\ UNCHANGED error
     \/ Body(prompted, FALSE).schema /\ kind = "google" /\ Fails("provider")
  /\ UNCHANGED <<setup, file, talk, round, reply>>

(* _request_with_retry.                                                    *)
Post ==
  /\ phase = "posting"
  /\ \E s \in Statuses :
       /\ posts' = Append(posts, s)
       /\ IF Retried(s) /\ Len(posts) < MaxRetries THEN phase' = "backoff" /\ UNCHANGED error
          ELSE Fails(ErrorOf(s))
  /\ UNCHANGED <<setup, file, talk, round, body, reply>>
Retry ==
  /\ phase = "backoff" /\ phase' = "posting"
  /\ UNCHANGED <<setup, file, talk, round, body, posts, error, reply>>

(* _parse_response: the calls with the ids of the API, in a reply apart    *)
(* from each other; <<>> when an endpoint omits them.  Google's calls, and *)
(* those in prompted text, get ids of this program.  A reply that is no    *)
(* answer parses to no calls, and so does text that is no JSON.            *)
Ids == {"fresh", "counted", "omitted"}
Fresh(i) == <<round, i>>
HttpId(how, i) ==
  CASE how = "fresh" -> Fresh(i) [] how = "counted" -> <<0, i>> [] how = "omitted" -> <<>>
OllamaId(how, i) ==
  CASE how = "fresh" -> Fresh(i) [] how = "counted" -> <<0, i>> [] how = "omitted" -> <<>>
AnthropicId(i) == Fresh(i)
GoogleId(i) == Fresh(i)
PromptedId(i) == Fresh(i)
CallId(how, i) ==
  CASE prompted -> PromptedId(i)
    [] ~prompted /\ kind = "openai"    -> HttpId(how, i)
    [] ~prompted /\ kind = "ollama"    -> OllamaId(how, i)
    [] ~prompted /\ kind = "anthropic" -> AnthropicId(i)
    [] ~prompted /\ kind = "google"    -> GoogleId(i)
Calls(names, how) == [i \in DOMAIN names |-> [id |-> CallId(how, i), name |-> names[i]]]
NameLists == UNION {[1..n -> Names] : n \in 0..2}
Parse ==
  /\ phase = "posting"
  /\ \E names \in NameLists, how \in Ids :
       /\ talk' = Append(talk, Message("assistant", Calls(names, how), <<>>, ""))
       /\ phase' = IF names = <<>> THEN "done" ELSE "tools"
  /\ posts' = Append(posts, "200")
  /\ UNCHANGED <<setup, file, round, body, error, reply>>

(* The agent's loop runs the calls in order and asks again.                *)
RunTools ==
  /\ phase = "tools" /\ round < LastRound
  /\ LET calls == Last(talk).calls
     IN talk' = talk \o [i \in DOMAIN calls |-> Message("tool", <<>>, calls[i].id, calls[i].name)]
  /\ round' = round + 1 /\ phase' = "idle"
  /\ UNCHANGED <<setup, file, body, posts, error, reply>>

-----------------------------------------------------------------------------
(* stream(): text and a finish reason; a call shows as the reason at most. *)
(* The wrapper passes it on as it is.  The endpoints' own reasons are      *)
(* passed on too, and one that StreamChunk has no word for is an error.    *)
HttpFinishes == {"stop", "length", "tool_calls", "foreign"}
OllamaFinishes == {"stop", "length", "tool_calls", "foreign"}
AnthropicFinishes == {"stop", "tool_calls"}
GoogleFinishes == {"stop", "length", "tool_calls", "safety"}
Finishes ==
  CASE kind = "openai" -> HttpFinishes [] kind = "anthropic" -> AnthropicFinishes
    [] kind = "google" -> GoogleFinishes [] kind = "ollama" -> OllamaFinishes
StreamFails(status, e) == posts' = <<status>> /\ Fails(e) /\ UNCHANGED reply
Stream ==
  /\ phase = "idle"
  /\ body' = Body(FALSE, TRUE)
  /\ \/ \E s \in Statuses \ {"garbled"} : StreamFails(s, StreamError(s))
     \/ "foreign" \in Finishes /\ StreamFails("200", "untyped")
     \/ /\ posts' = <<"200">> /\ phase' = "done" /\ UNCHANGED error
        /\ reply' \in (Finishes \ {"foreign"}) \cup {"cut"}
  /\ UNCHANGED <<setup, file, talk, round>>

(* upload_file(): start, then send; the agent attaches what comes back.    *)
Upload ==
  /\ phase = "idle" /\ kind = "google" /\ round = 0 /\ file = "none"
  /\ \/ file' = "started" /\ phase' = "sending" /\ UNCHANGED <<posts, error>>
     \/ \E s \in Statuses \cup {"nowhere"} :
          posts' = <<s>> /\ Fails(StreamError(s)) /\ UNCHANGED file
  /\ UNCHANGED <<setup, talk, round, body, reply>>
Send ==
  /\ phase = "sending"
  /\ \/ file' = "attached" /\ phase' = "idle" /\ UNCHANGED <<posts, error>>
     \/ \E s \in Statuses : posts' = <<s>> /\ Fails(StreamError(s)) /\ UNCHANGED file
  /\ UNCHANGED <<setup, talk, round, body, reply>>

Next == Complete \/ Post \/ Retry \/ Parse \/ RunTools \/ Stream \/ Upload \/ Send
Spec == Init /\ [][Next]_mVars

-----------------------------------------------------------------------------
(* In what is posted every call has one result and every result its call:  *)
(* the API, pairing them by the ids or names that it gets, finds for the   *)
(* i-th result after a turn with calls the i-th of these and no other.     *)
Numbered(t, n) == t.calls[n] # NoHandle
Owner(turns, p) == Max({q \in 1..p : turns[q].calls # <<>>} \cup {0})
Paired ==
  \A p \in DOMAIN body.turns :
    LET o == Owner(body.turns, p) t == body.turns[p]
    IN /\ t.role = "tool" => o # 0 /\ p - o <= Len(body.turns[o].calls)
       /\ t.role = "tool" /\ Numbered(body.turns[o], p - o) =>
            /\ body.turns[o].calls[p - o] = t.result
            /\ kind # "google" =>
                 \A n \in DOMAIN body.turns[o].calls : body.turns[o].calls[n] = t.result => n = p - o
       /\ t.role = "assistant" => \A n \in DOMAIN t.calls : body.turns[p + n].role = "tool"
(* The agent's own instructions are among what is posted, unless a prompt  *)
(* for tools took the place of the one system text.                        *)
Instructed ==
  phase = "posting" /\ ~(prompted /\ kind \in {"anthropic", "google"}) => "agent" \in body.systems
(* A post is repeated only after an answer that another try may change, at *)
(* most MaxRetries times; what is raised is what became of the last one.   *)
MayPass == {"429", "5xx", "dropped", "refused"}
RetriesEnd ==
  /\ Len(posts) <= MaxRetries + 1
  /\ \A i \in 1..(Len(posts) - 1) : posts[i] \in MayPass
  /\ error \in {"limited", "unavailable"} /\ posts # <<>> => Last(posts) \in MayPass
RequestsHold == Paired /\ Instructed /\ RetriesEnd
=============================================================================
