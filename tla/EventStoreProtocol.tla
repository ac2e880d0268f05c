-------------------------- MODULE EventStoreProtocol ---------------------------
(***************************************************************************)
(* What the EventStore protocol (storage/store.py) promises of one run,    *)
(* whichever backend keeps it: an append is stored whole or not at all,    *)
(* get_events returns exactly the stored events after a number, in the     *)
(* order of their numbers, and get_latest_checkpoint the checkpoint with   *)
(* the highest number, the last saved one among equals.                    *)
(***************************************************************************)
EXTENDS Integers, Sequences, SequencesExt, FiniteSetsExt

CONSTANT LastEvent

VARIABLES
  log,      \* the set of stored events, [id, seq, type]
  saved,    \* the numbers of the checkpoints, in the order they were saved
  row,      \* the status of the run as list_runs tells it, or "none"
  open,     \* the store has not been closed
  answer    \* what a reader was told last: [events] from get_events, [newest] (an index
            \* in saved, or 0) from get_latest_checkpoint, or [listing] from list_runs

pVars == <<log, saved, row, open, answer>>
NoAnswer == [events |-> <<>>, newest |-> 0, listing |-> [status |-> "none", count |-> 0]]

PInit == /\ log = {} /\ saved = <<>> /\ row = "none" /\ open = TRUE
         /\ answer = NoAnswer

PAppend == /\ \E e \in [id : 1 .. LastEvent, seq : 0 .. LastEvent, type : {"started", "node", "completed"}] :
                /\ e.id \notin {o.id : o \in log} /\ log' = log \cup {e}
           /\ row' \in {row, "running", "completed"}
           /\ UNCHANGED <<saved, open, answer>>

PSave == /\ \E n \in 0 .. LastEvent : saved' = Append(saved, n)
         /\ UNCHANGED <<log, row, open, answer>>

PStatus == /\ row' \in {"running", "completed", "failed"}
           /\ UNCHANGED <<log, saved, open, answer>>

(* A closed store may answer with nothing.                                 *)
IsOrdered(s) == IsInjective(s) /\ \A i, j \in DOMAIN s : i < j => s[i].seq <= s[j].seq
PGetEvents == LET told == answer'.events IN
  /\ \E after \in -1 .. LastEvent : ToSet(told) = {e \in log : e.seq > after} \/ (~open /\ told = <<>>)
  /\ IsOrdered(told) /\ answer' = [NoAnswer EXCEPT !.events = told]

PGetLatest == answer' = [NoAnswer EXCEPT !.newest =
  IF saved = <<>> THEN 0 ELSE Max({i \in DOMAIN saved : saved[i] = Max(ToSet(saved))})]

PListRuns == answer' = [NoAnswer EXCEPT !.listing =
  [status |-> row, count |-> IF row = "none" THEN 0 ELSE Cardinality(log)]]

PClose == open' = FALSE /\ UNCHANGED <<log, saved, row, answer>>

PRead == (PGetEvents \/ PGetLatest \/ PListRuns) /\ UNCHANGED <<log, saved, row, open>>
PNext == PAppend \/ PSave \/ PStatus \/ PClose \/ PRead
PSpec == PInit /\ [][PNext]_pVars
=============================================================================
