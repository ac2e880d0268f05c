----------------------------- MODULE EventStores -------------------------------
(***************************************************************************)
(* The three backends of the event store, for one run: a process whose     *)
(* branches share the run's EventBus, and, where the store outlives a      *)
(* process, a second process that resumed the run with a bus of its own.   *)
(* An action is what happens up to one await that may suspend; a statement *)
(* of the database is atomic, and a transaction of Postgres is not.        *)
(***************************************************************************)
EXTENDS Integers, Sequences, SequencesExt, FiniteSetsExt

CONSTANTS
  Branches,    \* writers of the process that started the run
  Rival,       \* the writer of the other process
  LastEvent,   \* bound: events made
  LastSave     \* bound: checkpoints saved
StoresAssumption == LastEvent \in Nat

Writers == Branches \cup {Rival}
Bus(w) == IF w = Rival THEN "other" ELSE "own"

VARIABLES
  kind,      \* "memory", "sqlite" or "postgres"
  open,      \* close() has not been called
  counter,   \* EventBus._sequence_counters[run], per bus
  made,      \* events made so far; an event's id
  writer,    \* writer[w]: [at, e], the event it is appending
  rows,      \* the stored events, in the order they became visible
  cps,       \* the stored checkpoints: the number of each, in the order they were saved
  status,    \* the run's row or metadata, or "none"
  notices,   \* notifications whose task has not run
  fetch,     \* [at, seq, missed]: the fetch on the listener's connection, "gone" when it is lost;
             \* missed (history): a notification was lost since the database read the newest event
  heard,     \* the numbers of the events the listener's callback got; <<-1>> before it listens
  answer     \* what a reader was told last: get_events, get_latest_checkpoint or list_runs

listener == <<notices, fetch, heard>>
sVars == <<kind, open, counter, made, writer, rows, cps, status, listener, answer>>

NoAnswer == [events |-> <<>>, newest |-> 0, listing |-> [status |-> "none", count |-> 0]]

Sql == kind # "memory"
NoEvent == [id |-> 0, seq |-> 0, type |-> "node"]
NoFetch == [at |-> "idle", seq |-> 0, missed |-> FALSE]
Init ==
  /\ kind \in {"memory", "sqlite", "postgres"} /\ open = TRUE
  /\ counter = [b \in {"own", "other"} |-> -1] /\ made = 0
  /\ writer = [w \in Writers |-> [at |-> "idle", e |-> NoEvent]]
  /\ rows = <<>> /\ cps = <<>> /\ status = "none"
  /\ notices = 0 /\ fetch = NoFetch /\ heard = <<-1>>
  /\ answer = NoAnswer

-----------------------------------------------------------------------------
(* Appending.                                                              *)
(* The run's metadata follow the events in memory; Postgres makes sure of  *)
(* the row; SQLite leaves it to create_run.                                *)
StatusAfter(e) ==
  CASE kind = "memory" /\ e.type = "started" -> "running"
    [] kind = "memory" /\ e.type = "completed" -> "completed"
    [] kind = "postgres" /\ status = "none" -> "running"
    [] OTHER -> status
Stored(e) == rows' = Append(rows, e) /\ status' = StatusAfter(e)

Slip_InSteps == TRUE
InSteps == Sql

(* next_sequence, and the store's append is called: in memory it is a      *)
(* coroutine that never suspends, in the others it first waits for a lock. *)
Number(w) ==
  /\ writer[w].at = "idle" /\ made < LastEvent /\ (w = Rival => counter["other"] >= 0)
  /\ \E type \in {IF made = 0 THEN "started" ELSE IF made + 1 = LastEvent THEN "completed" ELSE "node"} :
       LET e == [id |-> made + 1, seq |-> counter[Bus(w)] + 1, type |-> type] IN
       /\ IF InSteps
          THEN /\ writer' = [writer EXCEPT ![w] = [at |-> "numbered", e |-> e]]
               /\ UNCHANGED <<rows, status>>
          ELSE Stored(e) /\ UNCHANGED writer
       /\ counter' = [counter EXCEPT ![Bus(w)] = e.seq]
  /\ made' = made + 1
  /\ UNCHANGED <<kind, open, cps, listener, answer>>

Idle(w) == writer' = [writer EXCEPT ![w] = [at |-> "idle", e |-> NoEvent]]

(* SQLite: INSERT OR IGNORE and commit under the write lock.  (A memory    *)
(* store that suspended would get here too.)                               *)
Write(w) ==
  /\ kind # "postgres" /\ open /\ writer[w].at = "numbered"
  /\ Stored(writer[w].e) /\ Idle(w)
  /\ UNCHANGED <<kind, open, counter, made, cps, listener, answer>>

(* Postgres: one transaction under an advisory lock whose key is the hash  *)
(* of the run in this process, so it excludes the writers of one process.  *)
Excluded(w) == \E v \in Writers \ {w} :
  writer[v].at = "inserted" /\ (Bus(v) = Bus(w) \/ writer[v].e.seq = writer[w].e.seq)
Insert(w) ==
  /\ kind = "postgres" /\ open /\ writer[w].at = "numbered" /\ ~Excluded(w)
  /\ \A i \in DOMAIN rows : rows[i].seq # writer[w].e.seq
  /\ writer' = [writer EXCEPT ![w].at = "inserted"]
  /\ UNCHANGED <<kind, open, counter, made, rows, cps, status, listener, answer>>

(* pg_notify takes effect with the commit.                                 *)
Commit(w) ==
  /\ kind = "postgres" /\ writer[w].at = "inserted"
  /\ Stored(writer[w].e) /\ Idle(w)
  /\ notices' = IF heard # <<-1>> /\ fetch.at # "gone" THEN notices + 1 ELSE notices
  /\ UNCHANGED <<kind, open, counter, made, cps, fetch, heard, answer>>

(* The number is taken, the store is closed, the database stays locked or  *)
(* the connection is lost: append raises and nothing is stored.            *)
AppendFails(w) ==
  /\ Sql /\ writer[w].at # "idle" /\ Idle(w)
  /\ UNCHANGED <<kind, open, counter, made, rows, cps, status, listener, answer>>

-----------------------------------------------------------------------------
(* Checkpoints and the run's row.                                          *)
(* An engine saves a checkpoint under the number its bus has reached, with *)
(* a fresh id, so no conflict clause of save_checkpoint ever applies.      *)
Save(b) ==
  /\ open /\ Len(cps) < LastSave /\ counter[b] >= 0
  /\ cps' = Append(cps, counter[b])
  /\ UNCHANGED <<kind, open, counter, made, writer, rows, status, listener, answer>>

Newest ==
  IF cps = <<>> THEN 0
  ELSE IF Sql THEN Max({i \in DOMAIN cps : cps[i] = Max(ToSet(cps))}) ELSE Len(cps)

(* resume in the other process: its bus goes on from the latest checkpoint.*)
SeedRival ==
  /\ Sql /\ open /\ cps # <<>> /\ writer[Rival].at = "idle"
  /\ counter' = [counter EXCEPT !["other"] = cps[Newest]]
  /\ UNCHANGED <<kind, open, made, writer, rows, cps, status, listener, answer>>

CreateRun ==
  /\ Sql /\ open /\ status = "none" /\ status' = "running"
  /\ UNCHANGED <<kind, open, counter, made, writer, rows, cps, listener, answer>>
UpdateRunStatus ==
  /\ Sql /\ open /\ status # "none" /\ status' \in {"completed", "failed"}
  /\ UNCHANGED <<kind, open, counter, made, writer, rows, cps, listener, answer>>

Close ==
  /\ Sql /\ open /\ open' = FALSE
  /\ UNCHANGED <<kind, counter, made, writer, rows, cps, status, listener, answer>>

-----------------------------------------------------------------------------
(* Reading.                                                                *)
(* In memory in the order of the appends; the others sort by the number,   *)
(* and say nothing of the order of two events that have the same one.      *)
Before(i, j) == IF Sql THEN rows[i].seq <= rows[j].seq ELSE i < j
GetEvents ==
  /\ \/ kind = "sqlite" /\ ~open /\ answer' = NoAnswer
     \/ /\ open
        /\ \E after \in {-1, 0} : LET kept == {i \in DOMAIN rows : rows[i].seq > after} IN
             \E place \in Bijection(1 .. Cardinality(kept), kept) :
               /\ \A i, j \in DOMAIN place : i < j => Before(place[i], place[j])
               /\ answer' = [NoAnswer EXCEPT !.events = [i \in DOMAIN place |-> rows[place[i]]]]
  /\ UNCHANGED <<kind, open, counter, made, writer, rows, cps, status, listener>>

GetLatest ==
  /\ open /\ answer' = [NoAnswer EXCEPT !.newest = Newest]
  /\ UNCHANGED <<kind, open, counter, made, writer, rows, cps, status, listener>>

Listing == [status |-> status, count |-> IF status = "none" THEN 0 ELSE Len(rows)]
ListRuns ==
  /\ open /\ answer' = [NoAnswer EXCEPT !.listing = Listing]
  /\ UNCHANGED <<kind, open, counter, made, writer, rows, cps, status, listener>>

(* subscribe_events: each notification is a task that fetches the newest   *)
(* event, whatever it was sent for, on the connection that all of them     *)
(* share.  A task that finds a fetch under way raises InterfaceError, and  *)
(* its notification is lost; so are all when the connection is.            *)
Listen ==
  /\ kind = "postgres" /\ open /\ heard = <<-1>> /\ rows = <<>> /\ heard' = <<>>
  /\ UNCHANGED <<kind, open, counter, made, writer, rows, cps, status, notices, fetch, answer>>
Notified ==
  /\ notices > 0 /\ notices' = notices - 1
  /\ fetch' = IF fetch.at = "idle" THEN [fetch EXCEPT !.at = "asked"]
              ELSE [fetch EXCEPT !.missed = @ \/ fetch.at = "read"]
  /\ UNCHANGED <<kind, open, counter, made, writer, rows, cps, status, heard, answer>>
Fetch ==
  /\ fetch.at = "asked"
  /\ fetch' = [at |-> "read", seq |-> Max({rows[i].seq : i \in DOMAIN rows}), missed |-> FALSE]
  /\ UNCHANGED <<kind, open, counter, made, writer, rows, cps, status, notices, heard, answer>>
Hear ==
  /\ fetch.at = "read" /\ fetch' = [fetch EXCEPT !.at = "idle"]
  /\ heard' = Append(heard, fetch.seq)
  /\ UNCHANGED <<kind, open, counter, made, writer, rows, cps, status, notices, answer>>
Disconnect ==
  /\ heard # <<-1>> /\ fetch.at # "gone" /\ fetch' = [fetch EXCEPT !.at = "gone"]
  /\ notices' = 0
  /\ UNCHANGED <<kind, open, counter, made, writer, rows, cps, status, heard, answer>>

Next ==
  \/ \E w \in Writers : Number(w) \/ Write(w) \/ Insert(w) \/ Commit(w) \/ AppendFails(w)
  \/ \E b \in {"own", "other"} : Save(b)
  \/ SeedRival \/ CreateRun \/ UpdateRunStatus \/ Close
  \/ GetEvents \/ GetLatest \/ ListRuns
  \/ Listen \/ Notified \/ Fetch \/ Hear \/ Disconnect
Spec == Init /\ [][Next]_sVars

-----------------------------------------------------------------------------
Protocol == INSTANCE EventStoreProtocol WITH log <- ToSet(rows), saved <- cps, row <- status
(* A listener is never given an older event after a newer one.  While it is *)
(* connected, with all its notifications handled, it was given the newest  *)
(* event last, unless a notification came between the moment the database  *)
(* read that event and the moment the listener was given it: then it is    *)
(* behind until the next one.                                              *)
ListenerCurrent ==
  heard # <<-1>> =>
    /\ (notices = 0 /\ fetch.at = "idle" /\ ~fetch.missed /\ rows # <<>>) =>
         heard # <<>> /\ Last(heard) = Max({rows[i].seq : i \in DOMAIN rows})
    /\ \A i, j \in DOMAIN heard : i < j => heard[i] <= heard[j]

(* Every backend implements the protocol, with two processes appending and *)
(* failing at any point, and its listener is as current as notifications   *)
(* that may be lost allow.                                                 *)
ImplementsProtocol == Protocol!PSpec /\ []ListenerCurrent
=============================================================================
