------------------------------- MODULE RateLimit -------------------------------
(***************************************************************************)
(* What a request passes before it reaches a route: the limit on its body, *)
(* and the token bucket of its credential or address.                      *)
(***************************************************************************)
EXTENDS Integers, Sequences, FiniteSets

CONSTANTS
  Identities,     \* credentials and addresses
  MaxTokens, Window,
  LastMoment, LastRequest   \* bounds: the clock, and the requests made

RateAssumption == MaxTokens \in Nat \ {0} /\ Window \in Nat \ {0}

VARIABLES
  clock,
  buckets,     \* [identity -> [tokens, last]], from its first request; tokens in 1/Window
  history      \* requests in order: [id, at, answer]

bVars == <<clock, buckets, history>>

Init == clock = 0 /\ buckets = <<>> /\ history = <<>>
Tick == clock < LastMoment /\ clock' = clock + 1 /\ UNCHANGED <<buckets, history>>

Full == MaxTokens * Window
Bucket(id) == IF id \in DOMAIN buckets THEN buckets[id] ELSE [tokens |-> Full, last |-> clock]
(* Max tokens per window, up to a full bucket.                             *)
Lesser(a, b) == IF a <= b THEN a ELSE b
Slip_Refilled(b) == [b EXCEPT !.tokens = Lesser(Full, @ + (clock - b.last) * MaxTokens)]
Refilled(b) == [tokens |-> Lesser(Full, b.tokens + (clock - b.last) * MaxTokens), last |-> clock]

Answers(id, a) == history' = Append(history, [id |-> id, at |-> clock, answer |-> a])
(* A declared length is refused before the bucket is asked, an undeclared  *)
(* body only while the route reads it; health probes are not counted.      *)
Request(id) ==
  /\ Len(history) < LastRequest
  /\ \E declared \in {"small", "large", "chunked"}, streamed \in {"small", "large"} :
       LET b == Refilled(Bucket(id)) IN
       IF declared = "large" THEN Answers(id, "too large") /\ UNCHANGED buckets
       ELSE /\ buckets' = [i \in DOMAIN buckets \cup {id} |->
                 IF i # id THEN buckets[i]
                 ELSE IF b.tokens >= Window THEN [b EXCEPT !.tokens = @ - Window] ELSE b]
            /\ Answers(id, IF b.tokens < Window THEN "limited"
                           ELSE IF declared = "chunked" /\ streamed = "large" THEN "counted, too large"
                           ELSE "admitted")
  /\ UNCHANGED clock
Probe(id) == /\ Len(history) < LastRequest /\ Answers(id, "probe") /\ UNCHANGED <<clock, buckets>>

Next == Tick \/ \E id \in Identities : Request(id) \/ Probe(id)
Spec == Init /\ [][Next]_bVars

-----------------------------------------------------------------------------
(* Over any stretch of time an identity is admitted at most as often as a  *)
(* full bucket and the refill of that time allow, however it spaces its    *)
(* requests; and it is refused only if it used up a whole bucket within    *)
(* the last window, so that whoever waits as long as Retry-After says, is  *)
(* admitted.                                                               *)
Counted(id, from, to) ==
  {i \in DOMAIN history : /\ history[i].id = id /\ history[i].at \in from .. to
                          /\ history[i].answer \in {"admitted", "counted, too large"}}
RateHolds ==
  /\ \A id \in Identities, s \in 0 .. clock : \A t \in s .. clock :
       Cardinality(Counted(id, s, t)) * Window <= Full + (t - s) * MaxTokens
  /\ \A i \in DOMAIN history :
       LET r == history[i] IN
       r.answer = "limited" =>
         Cardinality(Counted(r.id, r.at - Window + 1, r.at) \cap (1 .. i)) >= MaxTokens
=============================================================================
