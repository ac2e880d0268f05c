------------------------------ MODULE TaskDelivery -----------------------------
(***************************************************************************)
(* Encrypted tasks on a durable NATS JetStream consumer that several       *)
(* replicas share (messaging/publisher.py, consumer.py,                    *)
(* secure_provider.py).  A replica creates its key pair when it starts and *)
(* keeps it in memory; a task is sealed with the public key in the DID its *)
(* publisher was given, and only the replica that made the key can open    *)
(* it.  The broker is outside the code: it keeps the stream, drops         *)
(* publications it has seen within the duplicate window, and delivers a    *)
(* message again after a nak or when it has not been acknowledged in time. *)
(***************************************************************************)
EXTENDS Integers, Sequences, FiniteSets, FiniteSetsExt, SequencesExt

CONSTANTS
  Replicas,
  BatchSize,     \* batch_size of fetch_and_process
  MaxHistory,    \* _MAX_KEY_HISTORY
  Restarting,    \* the replicas whose process may be lost and started again
  Recipients,    \* bound: the replicas whose DIDs the publishers were given
  LastKey,       \* bound: keys made after the first, by all replicas
  MaxMessages,   \* bound: messages in the stream
  MaxOwed        \* bound: executions owed to a message, as far as they are counted

DeliveryAssumption ==
  /\ BatchSize \in Nat \ {0} /\ Restarting \subseteq Replicas /\ Recipients \subseteq Replicas
  /\ MaxHistory \in Nat \ {0} /\ LastKey \in Nat /\ MaxMessages \in Nat
  /\ IsFiniteSet(Replicas) /\ MaxOwed \in Nat /\ MaxOwed > Cardinality(Replicas)

VARIABLES
  stream,    \* the messages: the replica each is for and the number of its key
  delivery,  \* delivery[m]: "ready", "out" or "acked"
  made,      \* made[r]: keys r has made, all incarnations together
  born,      \* born[r]: the first key of its present incarnation
  keys,      \* keys[r]: _key_history and, last, _own_keys
  pc,        \* pc[r]: "idle", "handling", "acking" or "naking"
  batch,     \* batch[r]: the fetched messages, the current one first
  handled,   \* the messages for which a handler has returned
  owed       \* owed[m]: 1, and 1 per failed acknowledgement or missed deadline,
             \*          less the times a handler returned

broker   == <<stream, delivery>>
material == <<made, born, keys>>
consumer == <<pc, batch>>
counts   == <<handled, owed>>
vars     == <<broker, material, consumer, counts>>

Messages == 1 .. MaxMessages

Init ==
  /\ stream = << >> /\ delivery = [m \in Messages |-> "ready"]
  /\ made = [r \in Replicas |-> 1] /\ born = [r \in Replicas |-> 1]
  /\ keys = [r \in Replicas |-> <<1>>]
  /\ pc = [r \in Replicas |-> "idle"] /\ batch = [r \in Replicas |-> << >>]
  /\ handled = {} /\ owed = [m \in Messages |-> 1]

(* At most one execution per replica, and one more by whoever is offered    *)
(* the message next, can draw on what is owed: counting further says nothing. *)
Fault(m) == owed' = [owed EXCEPT ![m] = IF @ < MaxOwed THEN @ + 1 ELSE @]

--------------------------------------------------------------------------------
(* Keys.                                                                   *)

(* The history is cut to its newest entries; the new key comes last.       *)
Archived(ks) ==
  IF Len(ks) > MaxHistory THEN SubSeq(ks, Len(ks) - MaxHistory + 1, Len(ks)) ELSE ks

KeysLeft == FoldFunction(+, 0, made) < Cardinality(Replicas) + LastKey
RotateKeys(r) ==
  /\ KeysLeft
  /\ made' = [made EXCEPT ![r] = @ + 1]
  /\ keys' = [keys EXCEPT ![r] = Append(Archived(@), made[r] + 1)]
  /\ UNCHANGED <<born, broker, consumer, counts>>

(* A new process has a new key pair and no history; its batch is gone.     *)
Restart(r) ==
  /\ r \in Restarting /\ KeysLeft
  /\ made' = [made EXCEPT ![r] = @ + 1] /\ born' = [born EXCEPT ![r] = made[r] + 1]
  /\ keys' = [keys EXCEPT ![r] = <<made[r] + 1>>]
  /\ pc' = [pc EXCEPT ![r] = "idle"] /\ batch' = [batch EXCEPT ![r] = << >>]
  /\ UNCHANGED <<broker, counts>>

(* decrypt: the current key first, then the history.                       *)
KeysToTry(r) == ToSet(keys[r])
Opens(r, m) == stream[m].to = r /\ stream[m].key \in KeysToTry(r)

--------------------------------------------------------------------------------
(* The broker and its publishers.                                          *)

(* A publisher seals the task for some DID the replica has had: the rotated *)
(* DID reaches it when and if the agents pass it on.                       *)
Publish(r, k) ==
  /\ k <= made[r] /\ Len(stream) < MaxMessages
  /\ stream' = Append(stream, [to |-> r, key |-> k])
  /\ UNCHANGED <<delivery, material, consumer, counts>>

(* ack_wait passes: no heartbeats are sent, one of them was lost, or the     *)
(* message waits in a batch behind one that is being handled.              *)
Expire(m) ==
  /\ delivery[m] = "out"
  /\ delivery' = [delivery EXCEPT ![m] = "ready"]
  /\ Fault(m)
  /\ UNCHANGED <<stream, material, consumer, handled>>

--------------------------------------------------------------------------------
(* fetch_and_process.                                                      *)

(* What happens to the first message of a batch: decrypt, which takes no   *)
(* await, and then the handler or the except branch.                       *)
Begin(r, b) ==
  /\ batch' = [batch EXCEPT ![r] = b]
  /\ pc' = [pc EXCEPT ![r] = IF b = << >> THEN "idle"
                             ELSE IF Opens(r, b[1]) THEN "handling" ELSE "naking"]
Current(r) == Head(batch[r])
Goes(r, l) == pc' = [pc EXCEPT ![r] = l] /\ UNCHANGED batch

Available == {m \in DOMAIN stream : delivery[m] = "ready"}
(* In the order of the stream.                                             *)
Batches   == {b \in UNION {[1 .. n -> Available] : n \in 1 .. BatchSize} :
                \A i, j \in DOMAIN b : i < j => b[i] < b[j]}
Fetch(r, b) ==
  /\ pc[r] = "idle"
  /\ delivery' = [m \in Messages |-> IF m \in ToSet(b) THEN "out" ELSE delivery[m]]
  /\ Begin(r, b)
  /\ UNCHANGED <<stream, material, counts>>

Slip_AfterHandler == "naking"
AfterHandler == "acking"
HandlerReturns(r) ==
  /\ pc[r] = "handling"
  /\ handled' = handled \cup {Current(r)}
  /\ owed' = [owed EXCEPT ![Current(r)] = IF @ < 0 THEN @ ELSE @ - 1]
  /\ Goes(r, AfterHandler)
  /\ UNCHANGED <<broker, material>>

AfterError == "naking"
HandlerRaises(r) ==
  /\ pc[r] = "handling"
  /\ Goes(r, AfterError)
  /\ UNCHANGED <<broker, material, counts>>

(* ack: it reaches the broker, or is lost on the way ...                   *)
Ack(r) ==
  /\ pc[r] = "acking"
  /\ delivery' \in {delivery, [delivery EXCEPT ![Current(r)] = "acked"]}
  /\ Begin(r, Tail(batch[r]))
  /\ UNCHANGED <<stream, material, counts>>

(* ... or raises, which the same except branch answers with a nak.         *)
AckFails(r) ==
  /\ pc[r] = "acking"
  /\ Fault(Current(r))
  /\ Goes(r, "naking")
  /\ UNCHANGED <<broker, material, handled>>

Nak(r) ==
  /\ pc[r] = "naking"
  /\ delivery' = [delivery EXCEPT ![Current(r)] = IF @ = "acked" THEN @ ELSE "ready"]
  /\ Begin(r, Tail(batch[r]))
  /\ UNCHANGED <<stream, material, counts>>

(* A nak that raises, or a cancellation of the consumer at one of its      *)
(* awaits, leaves fetch_and_process and with it the rest of the batch.     *)
Leave(r) ==
  /\ pc[r] # "idle"
  /\ Begin(r, << >>)
  /\ UNCHANGED <<broker, material, counts>>

Next ==
  \/ \E r \in Recipients : \E k \in 1 .. made[r] : Publish(r, k)
  \/ \E r \in Replicas :
       \/ RotateKeys(r) \/ Restart(r)
       \/ \E b \in Batches : Fetch(r, b)
       \/ HandlerReturns(r) \/ HandlerRaises(r)
       \/ Ack(r) \/ AckFails(r) \/ Nak(r) \/ Leave(r)
  \/ \E m \in Messages : Expire(m)

Spec == Init /\ [][Next]_vars

--------------------------------------------------------------------------------
(* Properties.                                                             *)

TypeOK ==
  /\ stream \in Seq([to: Replicas, key: Nat])
  /\ delivery \in [Messages -> {"ready", "out", "acked"}]
  /\ made \in [Replicas -> Nat] /\ born \in [Replicas -> Nat]
  /\ keys \in [Replicas -> Seq(Nat)]
  /\ pc \in [Replicas -> {"idle", "handling", "acking", "naking"}]
  /\ batch \in [Replicas -> Seq(DOMAIN stream)]
  /\ \A r \in Replicas :
       /\ pc[r] = "idle" <=> batch[r] = << >>
       /\ Len(keys[r]) \in 1 .. MaxHistory + 1 /\ Last(keys[r]) = made[r]
  /\ handled \subseteq Messages /\ owed \in [Messages -> -1 .. MaxOwed]

(* A task leaves the broker only after a handler has returned for it, in   *)
(* whichever replica and however often it was delivered before.            *)
AckedIsHandled == \A m \in Messages : delivery[m] = "acked" => m \in handled

(* A message in flight can be opened after its replica has rotated its     *)
(* keys, until MaxHistory newer keys have been put before its own.         *)
InFlightReadable ==
  \A m \in DOMAIN stream :
    LET r == stream[m].to
    IN  stream[m].key \in born[r] .. made[r] /\ made[r] - stream[m].key <= MaxHistory =>
          Opens(r, m)

(* Every execution but the first of a message is owed to an acknowledgement *)
(* that failed or came too late.                                           *)
RepeatedOnlyAfterFault == \A m \in Messages : owed[m] >= 0

(* Together: what the durable consumer promises for every message.         *)
DeliveryHolds == AckedIsHandled /\ InFlightReadable /\ RepeatedOnlyAfterFault

(* The stream "enables crash recovery" (client.py): some replica can open   *)
(* what is still to be done.  It does not hold once a replica restarts.    *)
GroupCanOpen ==
  \A m \in DOMAIN stream : delivery[m] # "acked" => \E r \in Replicas : Opens(r, m)
================================================================================
