------------------------------- MODULE CliModel -------------------------------
(***************************************************************************)
(* Model calls through the command line programs claude, codex and gemini: *)
(* a subprocess per attempt, killed when the call ends before it; for      *)
(* gemini a gate that all calls of this program share, and a second        *)
(* attempt when the quota is exhausted.                                    *)
(***************************************************************************)
EXTENDS Integers, Sequences, SequencesExt, FiniteSetsExt

CONSTANTS
  Callers,       \* concurrent callers
  Clis,          \* "claude", "codex", "gemini"
  Gate,          \* GEMINI_CLI_CONCURRENCY
  LastCall       \* bounds the calls of a caller

VARIABLES
  cli, streams,        \* the program that a caller uses; its call is a stream
  phase,               \* "idle", "queued", "running", "left", "ending", "backoff"
  proc,                \* its latest process: "none", "running", "killed", "exited"
  attempt, calls,
  outcome,             \* of the attempt, while its process is cleaned up
  answer,              \* of the last call
  free, queue          \* the gate, and who waits for it in order

pVars == <<cli, streams, phase, proc, attempt, calls, outcome, answer, free, queue>>

Init ==
  /\ cli \in [Callers -> Clis] /\ streams = [c \in Callers |-> FALSE]
  /\ phase = [c \in Callers |-> "idle"] /\ proc = [c \in Callers |-> "none"]
  /\ attempt = [c \in Callers |-> 0] /\ calls = [c \in Callers |-> 0]
  /\ outcome = [c \in Callers |-> "none"] /\ answer = [c \in Callers |-> "none"]
  /\ free = Gate /\ queue = <<>>

Gated(c) == cli[c] = "gemini" /\ ~streams[c]
Enters(c, p) == phase' = [phase EXCEPT ![c] = p]
Answers(c, a) == Enters(c, "idle") /\ answer' = [answer EXCEPT ![c] = a]

-----------------------------------------------------------------------------
(* complete(), or stream(), which does not ask the gate.                   *)
Call(c) ==
  /\ phase[c] = "idle" /\ calls[c] < LastCall
  /\ \E s \in BOOLEAN :
       /\ streams' = [streams EXCEPT ![c] = s]
       /\ queue' = IF cli[c] = "gemini" /\ ~s THEN Append(queue, c) ELSE queue
  /\ calls' = [calls EXCEPT ![c] = @ + 1] /\ attempt' = [attempt EXCEPT ![c] = 1]
  /\ Enters(c, "queued")
  /\ UNCHANGED <<cli, proc, outcome, answer, free>>

(* managed_proc starts the program, which may not be installed.            *)
MayStart(c) == phase[c] = "queued" /\ (Gated(c) => free > 0 /\ Head(queue) = c)
Start(c) ==
  /\ MayStart(c)
  /\ queue' = SelectSeq(queue, LAMBDA d : d # c)
  /\ \/ /\ Enters(c, "running") /\ proc' = [proc EXCEPT ![c] = "running"]
        /\ free' = IF Gated(c) THEN free - 1 ELSE free
        /\ UNCHANGED answer
     \/ Answers(c, "unavailable") /\ UNCHANGED <<proc, free>>
  /\ UNCHANGED <<cli, streams, attempt, calls, outcome>>

(* What a process that ends by itself leaves to complete(): a reply with   *)
(* or without calls in its text, or what became of the run.  A stream has  *)
(* its text, whatever the exit code.                                       *)
ClaudeFinishes == {"stop", "tool_calls", "length"}
ClaudeOutputs == ClaudeFinishes \cup {"failed", "garbled", "is_error"}
CodexFinishes == {"stop", "tool_calls"}
CodexOutputs == CodexFinishes \cup {"failed"}
GeminiFinishes == {"stop", "tool_calls"}
GeminiOutputs == GeminiFinishes \cup {"failed", "quota", "safety"}
StreamOutputs == {"stop"}
Outputs(c) ==
  CASE streams[c] -> StreamOutputs
    [] ~streams[c] /\ cli[c] = "claude" -> ClaudeOutputs
    [] ~streams[c] /\ cli[c] = "codex"  -> CodexOutputs
    [] ~streams[c] /\ cli[c] = "gemini" -> GeminiOutputs
(* The body of managed_proc is left: a process that still runs is killed.  *)
Leaves(c, o) ==
  /\ Enters(c, "ending") /\ outcome' = [outcome EXCEPT ![c] = o]
  /\ proc' = [proc EXCEPT ![c] = IF @ = "running" THEN "killed" ELSE @]
  /\ UNCHANGED <<cli, streams, attempt, calls, answer, free, queue>>
Exit(c) ==
  /\ phase[c] = "running"
  /\ \E o \in Outputs(c) : Enters(c, "ending") /\ outcome' = [outcome EXCEPT ![c] = o]
  /\ proc' = [proc EXCEPT ![c] = "exited"]
  /\ UNCHANGED <<cli, streams, attempt, calls, answer, free, queue>>
Timeout(c) == phase[c] = "running" /\ ~streams[c] /\ Leaves(c, "timeout")
(* A line of a stream that is JSON but no object is an error there.        *)
Break(c) == phase[c] = "running" /\ streams[c] /\ Leaves(c, "broken")
(* Who consumes a stream may stop; the generator is closed some time later.*)
Abandon(c) ==
  /\ phase[c] = "running" /\ streams[c] /\ Enters(c, "left")
  /\ UNCHANGED <<cli, streams, proc, attempt, calls, outcome, answer, free, queue>>
Collect(c) == phase[c] = "left" /\ Leaves(c, "cancelled")

(* The task of a caller is cancelled, also in the clean-up after a kill.   *)
Cancel(c) ==
  \/ phase[c] = "running" /\ Leaves(c, "cancelled")
  \/ /\ phase[c] = "ending" /\ proc[c] = "killed" /\ outcome[c] # "cancelled" /\ Leaves(c, "cancelled")
  \/ /\ phase[c] \in {"queued", "backoff"}
     /\ Answers(c, "cancelled") /\ queue' = SelectSeq(queue, LAMBDA d : d # c)
     /\ UNCHANGED <<cli, streams, proc, attempt, calls, outcome, free>>

-----------------------------------------------------------------------------
(* The process is gone, or was killed and the wait is over; the gate opens,*)
(* and only then the call ends or backs off.                               *)
Reap(c) ==
  /\ proc[c] = "killed" /\ proc' = [proc EXCEPT ![c] = "exited"]
  /\ UNCHANGED <<cli, streams, phase, attempt, calls, outcome, answer, free, queue>>
Returned(o) ==
  CASE o \in {"failed", "garbled", "is_error", "timeout", "quota", "broken"} -> "error"
    [] o = "cancelled" -> "cancelled"
    [] OTHER           -> "reply"
Slip_Release(c) == free' = IF Gated(c) /\ outcome[c] # "timeout" THEN free + 1 ELSE free
Release(c) == free' = IF Gated(c) THEN free + 1 ELSE free
End(c) ==
  /\ phase[c] = "ending" /\ Release(c)
  /\ IF outcome[c] = "quota" /\ attempt[c] = 1 THEN Enters(c, "backoff") /\ UNCHANGED answer
     ELSE Answers(c, Returned(outcome[c]))
  /\ UNCHANGED <<cli, streams, proc, attempt, calls, outcome, queue>>
Again(c) ==
  /\ phase[c] = "backoff" /\ Enters(c, "queued")
  /\ attempt' = [attempt EXCEPT ![c] = 2] /\ queue' = Append(queue, c)
  /\ UNCHANGED <<cli, streams, proc, calls, outcome, answer, free>>

Next ==
  \E c \in Callers :
    \/ Call(c) \/ Start(c) \/ Exit(c) \/ Timeout(c) \/ Break(c)
    \/ Abandon(c) \/ Collect(c) \/ Cancel(c)
    \/ Reap(c) \/ End(c) \/ Again(c)

(* A process ends or its time does; clean-up and back-off are bounded      *)
(* waits, and the gate wakes its first waiter.                             *)
Fairness ==
  \A c \in Callers :
    /\ WF_pVars(Start(c)) /\ WF_pVars(Timeout(c)) /\ WF_pVars(End(c)) /\ WF_pVars(Again(c))
Spec == Init /\ [][Next]_pVars /\ Fairness

-----------------------------------------------------------------------------
(* A process that was not killed belongs to a call that is at it, or to a  *)
(* stream that was left; complete() never has more gemini processes than   *)
(* the gate lets in, and makes a second attempt for gemini only.           *)
ProcessesBound ==
  /\ \A c \in Callers : proc[c] = "running" => phase[c] \in {"running", "left"}
  /\ Cardinality({c \in Callers : Gated(c) /\ proc[c] = "running"}) <= Gate
  /\ \A c \in Callers : attempt[c] <= 2 /\ (attempt[c] = 2 => Gated(c))
(* Every complete() ends, whatever the other callers and the programs do:  *)
(* timeouts, cancellations and back-off leave no place in the gate taken.  *)
CallsEnd == \A c \in Callers : (phase[c] # "idle" /\ ~streams[c]) ~> phase[c] = "idle"
GateServes == []ProcessesBound /\ CallsEnd
=============================================================================
