------------------------------ MODULE Guardrails -------------------------------
(***************************************************************************)
(* Guardrails around an agent of a graph: the hooks that the engine runs   *)
(* before and after a node, and the chains that a GuardedAgent runs on its *)
(* input and on every output, one guardrail at a time.  A text is the set  *)
(* of the flaws it has.                                                    *)
(***************************************************************************)
EXTENDS Integers, Sequences, SequencesExt, FiniteSetsExt

CONSTANTS
  Texts,        \* sets of flaws; "empty" marks the empty text
  Chains,       \* sequences of guardrails [finds, onFail, fixes]: the flaw it looks for, what a
                \* failure does, and whether its result has the text without the flaw
  Hooks,        \* sequences of guardrails too, of context.config["guardrails"]
  MaxRetries

Flaws == {"banned", "pii", "malformed", "long"}
Guard == [finds : Flaws, onFail : {"block", "fix", "retry", "log", "exception"}, fixes : BOOLEAN]
GuardAssumption ==
  /\ Texts \subseteq SUBSET (Flaws \cup {"empty"})
  /\ Chains \subseteq Seq(Guard) /\ Hooks \subseteq Seq(Guard) /\ MaxRetries \in Nat

VARIABLES
  hooks, raises,         \* context.config: guardrails, and whether guardrails_fail is "raise"
  inChain, outChain,     \* of the agent
  asString,              \* its input is a string, not a list of messages
  stage, at,             \* what runs, and the guardrail of the chain that is next
  input, text,           \* the agent's input, the text that the chain is at
  attempt,
  rejected,              \* InputRejected and OutputRejected events
  result                 \* of the node: [kind, text]

gVars == <<hooks, raises, inChain, outChain, asString, stage, at, input, text, attempt, rejected, result>>
config == <<hooks, raises, inChain, outChain, asString>>

NoResult == [kind |-> "none", text |-> {}]
Init ==
  /\ hooks \in Hooks /\ raises \in BOOLEAN
  /\ inChain \in Chains /\ outChain \in Chains /\ asString \in BOOLEAN
  /\ input \in Texts /\ text = input
  /\ stage = "before" /\ at = 1 /\ attempt = 0 /\ rejected = <<>> /\ result = NoResult

Ends(kind, t) == stage' = "done" /\ result' = [kind |-> kind, text |-> t]
Chain == IF stage = "input" THEN inChain ELSE outChain

-----------------------------------------------------------------------------
(* The engine's hooks: those that have validate_input and validate_output, *)
(* all of them, whatever their on_fail; those of validators.py have only   *)
(* validate and are passed over.                                           *)
IsHook(g) == ~g.fixes /\ g.finds # "long"
Caught(t) == {i \in DOMAIN hooks : IsHook(hooks[i]) /\ hooks[i].finds \in t}
Rejects(event) ==
  /\ \E stored \in BOOLEAN : rejected' = IF stored THEN Append(rejected, event) ELSE rejected
  /\ Ends(IF raises THEN "raised" ELSE "refused", {})
(* A schema says nothing of an input.                                      *)
Before ==
  /\ stage = "before"
  /\ IF Caught(input \ {"malformed"}) # {} THEN Rejects("InputRejected")
     ELSE stage' = "input" /\ UNCHANGED <<rejected, result>>
  /\ UNCHANGED <<config, at, input, text, attempt>>
(* An empty output is not validated; what a chain said of a blocked one is. *)
After ==
  /\ stage = "after"
  /\ IF "empty" \notin text /\ Caught(text) # {} THEN Rejects("OutputRejected")
     ELSE Ends(result.kind, text) /\ UNCHANGED rejected
  /\ UNCHANGED <<config, at, input, text, attempt>>

-----------------------------------------------------------------------------
(* GuardrailChain.run, one guardrail at a time.                            *)
(* A cut text may lose other flaws with its end and no longer parse; a     *)
(* redacted one may have become longer.                                    *)
Fixed(g, t) ==
  IF g.finds = "long"
  THEN {(t \ ({"long"} \cup lost)) \cup cut : lost \in SUBSET {"banned", "pii"}, cut \in {{}, {"malformed"}}}
  ELSE {(t \ {g.finds}) \cup grown : grown \in {{}, {"long"}}}
Slip_Stops(onFail) == onFail = "block"
Stops(onFail) == onFail \in {"block", "retry"}
Running == stage \in {"input", "output"} /\ at <= Len(Chain)
Fails(g) == g.finds \in text
Repairs(g) == g.onFail = "fix" /\ g.fixes

(* A fix by a guardrail that cannot fix lets the text through, as log does. *)
Moves(t) == /\ at' = at + 1 /\ text' = t
            /\ UNCHANGED <<config, stage, input, attempt, rejected, result>>
Pass == /\ Running
        /\ LET g == Chain[at] IN Fails(g) => ~Stops(g.onFail) /\ g.onFail # "exception" /\ ~Repairs(g)
        /\ Moves(text)
Fix == /\ Running /\ Fails(Chain[at]) /\ Repairs(Chain[at])
       /\ \E t \in Fixed(Chain[at], text) : Moves(t)
Raise == /\ Running /\ Fails(Chain[at]) /\ Chain[at].onFail = "exception"
         /\ Ends("raised", {})
         /\ UNCHANGED <<config, at, input, text, attempt, rejected>>

(* _get_chain_blocking_action: the first guardrail that does not log,      *)
(* whichever of them failed.                                               *)
FirstAction == LET acting == {i \in DOMAIN outChain : outChain[i].onFail # "log"}
               IN  IF acting = {} THEN "block" ELSE outChain[Min(acting)].onFail
(* The notice names a banned word.                                         *)
Notice(g) == {"malformed"} \cup ({"banned"} \cap {g.finds})
Stop ==
  /\ Running /\ Fails(Chain[at]) /\ Stops(Chain[at].onFail)
  /\ IF stage = "output" /\ FirstAction = "retry" /\ attempt <= MaxRetries
     THEN stage' = "agent" /\ UNCHANGED <<text, result>>
     ELSE stage' = "after" /\ text' = Notice(Chain[at]) /\ result' = [kind |-> "blocked", text |-> {}]
  /\ UNCHANGED <<config, at, input, attempt, rejected>>

-----------------------------------------------------------------------------
(* GuardedAgent.run: what the chain made of the input is the agent's input *)
(* only if that was a string.                                              *)
InputPassed ==
  /\ stage = "input" /\ at > Len(inChain)
  /\ input' = IF asString THEN text ELSE input
  /\ stage' = "agent"
  /\ UNCHANGED <<config, at, text, attempt, rejected, result>>
RunAgent ==
  /\ stage = "agent"
  /\ attempt' = attempt + 1 /\ stage' = "output" /\ at' = 1
  /\ text' \in Texts
  /\ UNCHANGED <<config, input, rejected, result>>
OutputPassed ==
  /\ stage = "output" /\ at > Len(outChain)
  /\ stage' = "after" /\ result' = [kind |-> "served", text |-> {}]
  /\ UNCHANGED <<config, at, input, text, attempt, rejected>>

Next == Before \/ After \/ Pass \/ Fix \/ Raise \/ Stop \/ InputPassed \/ RunAgent \/ OutputPassed
Spec == Init /\ [][Next]_gVars

-----------------------------------------------------------------------------
(* What the agent is given, and what the node serves, has a flaw that a    *)
(* guardrail of the chain does not let pass only if a later fix of the     *)
(* same chain brought it in, or if the fix of a message list was lost; no  *)
(* hook is ever passed by what it would catch; and an output is blocked    *)
(* before every attempt was made only if the chain does not ask for more.  *)
Binding(g) == g.onFail \in {"block", "retry", "exception"} \/ Repairs(g)
BroughtIn(chain, i, flaw) ==
  \E j \in (i + 1) .. Len(chain) : Repairs(chain[j]) /\ \E t \in Fixed(chain[j], {chain[j].finds}) : flaw \in t
Undone(chain, i) == ~asString /\ \E j \in 1 .. i : Repairs(chain[j])
Clean(chain, t) ==
  \A i \in DOMAIN chain : Binding(chain[i]) /\ chain[i].finds \in t => BroughtIn(chain, i, chain[i].finds)
GuardsHold ==
  /\ attempt > 0 =>
       IF asString THEN Clean(inChain, input)
       ELSE \A i \in DOMAIN inChain :
              Binding(inChain[i]) /\ inChain[i].finds \in input => Undone(inChain, i)
  /\ result.kind = "served" /\ stage = "done" => Clean(outChain, result.text)
  /\ stage = "done" /\ "empty" \notin result.text => Caught(result.text) = {}
  /\ result.kind = "blocked" /\ attempt \in 1 .. MaxRetries => FirstAction # "retry"
=============================================================================
