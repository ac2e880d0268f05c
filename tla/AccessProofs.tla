------------------------------ MODULE AccessProofs -----------------------------
(***************************************************************************)
(* Proofs about what stands between a request and what it asks for: the    *)
(* prompt shield, for any runs, any of them in a fan-out and any of them   *)
(* PromptInjectionAgents; the guardrails, for any chains and texts; the    *)
(* cards of other agents, for any identities and cards that are kept;      *)
(* delegated authority, for any agents, claims and tools; the graphs of a  *)
(* watched project, for any files; and the limit on requests, for any size *)
(* of bucket and any window.                                               *)
(***************************************************************************)
EXTENDS MCAccess, FiniteSetTheorems, SequenceTheorems, TLAPS

-----------------------------------------------------------------------------
(***************************************************************************)
(* The shield.  The hard part is that a run narrows the capabilities of    *)
(* its context with what it read before its scan, while other runs of the  *)
(* context enter restricted mode, narrow and execute.  The invariant says  *)
(* of every run that what it was told of the mode still is the mode (a     *)
(* context is never un-restricted), that the one run that may announce the *)
(* mode of a context is the one that entered it, and that capabilities are *)
(* clean from the moment a run of a restricted context narrowed them.      *)
(***************************************************************************)
Contexts == Shield!Contexts
Of(r) == Shield!Of(r)
Before == {"idle", "scan", "announce", "narrow"}
Executing == {"detect", "canary", "model", "leak", "post", "done"}
Attack(r) == scan[r].detected \/ scan[r].risky

ShieldTypes ==
  /\ pc \in [Runs -> Before \cup Executing \cup {"failed"}]
  /\ shielded \in [Contexts -> BOOLEAN] /\ forked \in BOOLEAN
  /\ caps \in [Contexts -> SUBSET (Sensitive \cup Harmless)]
  /\ base \in [Runs -> SUBSET (Sensitive \cup Harmless)]
  /\ granted \in [Runs -> SUBSET (Sensitive \cup Harmless)]
  /\ was \in [Runs -> BOOLEAN] /\ scan \in [Runs -> [detected : BOOLEAN, risky : BOOLEAN]]
  /\ announced \in Seq(Runs) /\ asked \subseteq Runs
  /\ report \in [Runs -> [injection : BOOLEAN, leaked : BOOLEAN, blocked : BOOLEAN]]
  /\ output \in [Runs -> {"none", "clean", "secret", "canary", "refused", "redacted"}]

(* A verdict, and what a run was told of the mode, still hold of the mode. *)
ModeHolds ==
  /\ \A r \in Runs : Attack(r) \/ was[r] => shielded[Of(r)]
  /\ \A r \in Runs : pc[r] \in {"idle", "scan"} => ~Attack(r) /\ ~was[r]
  /\ ~forked => ~shielded["branch"] /\ \A r \in Runs : r \in Branch => pc[r] = "idle"

(* Who may announce: the run that entered the mode, and no second one.     *)
OneAnnounces ==
  /\ \A r \in Runs : pc[r] = "announce" => Attack(r)
  /\ \A r, q \in Runs : pc[r] = "announce" /\ pc[q] = "announce" /\ Of(r) = Of(q) => r = q
  /\ \A i \in 1 .. Len(announced) : shielded[Of(announced[i])]
  /\ \A i \in 1 .. Len(announced) : \A r \in Runs : pc[r] = "announce" => Of(announced[i]) # Of(r)
  /\ \A i, j \in 1 .. Len(announced) : Of(announced[i]) = Of(announced[j]) => i = j
  /\ \A c \in Contexts : shielded[c] =>
       \/ \E i \in 1 .. Len(announced) : Of(announced[i]) = c
       \/ \E r \in Runs : Of(r) = c /\ pc[r] \in {"announce", "failed"} /\ Attack(r)
       \/ c = "branch" /\ forked

(* What is narrowed stays narrow.                                          *)
StaysNarrow ==
  /\ \A r \in Runs : was[r] /\ pc[r] \in Executing => caps[Of(r)] \cap Sensitive = {}
  /\ \A r \in Runs : pc[r] \in Before => granted[r] = {}
  /\ \A r \in Runs : Attack(r) \/ was[r] =>
       granted[r] \cap Sensitive = {} /\ ~(pc[r] = "done" /\ output[r] = "secret")

(* A PromptInjectionAgent that found an injection never asks its model.    *)
InjectionStops ==
  \A r \in Checked :
    /\ pc[r] \in Before \cup {"detect", "canary", "model", "leak"} => ~report[r].injection
    /\ pc[r] \in Before \cup {"detect", "canary", "model"} => r \notin asked
    /\ pc[r] \in {"post", "done"} =>
         /\ report[r].injection => r \notin asked /\ output[r] = "refused"
         /\ BlockOnLeak => output[r] # "canary"

ShieldInv == ShieldTypes /\ ModeHolds /\ OneAnnounces /\ StaysNarrow /\ InjectionStops

-----------------------------------------------------------------------------
(* A run is of one of the two contexts.                                    *)
LEMMA RunHasContext == ASSUME NEW r PROVE Of(r) \in Contexts
BY DEF Of, Contexts, Shield!Of, Shield!Contexts

(* Of the announcements of a context, at most one: as a cardinality.       *)
LEMMA AtMostOne ==
  ASSUME NEW S, \A i, j \in S : i = j
  PROVE  Cardinality(S) <= 1
<1>1. CASE S = {}
  BY <1>1, FS_EmptySet
<1>2. CASE S # {}
  <2>1. PICK i \in S : TRUE
    BY <1>2
  <2>2. S = {i}
    BY <2>1
  <2>3. Cardinality({i}) = 1
    BY FS_Singleton
  <2> QED
    BY <2>2, <2>3
<1> QED
  BY <1>1, <1>2

(* The shield's module counts as this one does.                            *)
LEMMA SameCount == ASSUME NEW S PROVE Shield!Cardinality(S) = Cardinality(S)
BY DEF Shield!Cardinality, Cardinality

(* The first state of the shield satisfies the invariant.                  *)
LEMMA ShieldStarts == Shield!Init => ShieldInv
<1> SUFFICES ASSUME Shield!Init PROVE ShieldInv
  OBVIOUS
<1>1. \A r \in Runs : scan[r].detected = FALSE /\ scan[r].risky = FALSE
  BY DEF Shield!Init, Shield!NoScan
<1>2. \A r \in Runs : report[r].injection = FALSE
  BY DEF Shield!Init, Shield!NoReport
<1>3. ShieldTypes
  <2>1. Shield!NoScan \in [detected : BOOLEAN, risky : BOOLEAN]
    BY DEF Shield!NoScan
  <2>2. Shield!NoReport \in [injection : BOOLEAN, leaked : BOOLEAN, blocked : BOOLEAN]
    BY DEF Shield!NoReport
  <2>3. pc \in [Runs -> Before \cup Executing \cup {"failed"}]
    BY DEF Shield!Init, Before
  <2>4. caps \in [Contexts -> SUBSET (Sensitive \cup Harmless)]
    BY DEF Shield!Init, Contexts
  <2>5. scan \in [Runs -> [detected : BOOLEAN, risky : BOOLEAN]]
    BY <2>1 DEF Shield!Init
  <2>6. report \in [Runs -> [injection : BOOLEAN, leaked : BOOLEAN, blocked : BOOLEAN]]
    BY <2>2 DEF Shield!Init
  <2>7. announced \in Seq(Runs)
    BY DEF Shield!Init
  <2>8. output \in [Runs -> {"none", "clean", "secret", "canary", "refused", "redacted"}]
    BY DEF Shield!Init
  <2>9. /\ shielded \in [Contexts -> BOOLEAN] /\ forked \in BOOLEAN
        /\ base \in [Runs -> SUBSET (Sensitive \cup Harmless)]
        /\ granted \in [Runs -> SUBSET (Sensitive \cup Harmless)]
        /\ was \in [Runs -> BOOLEAN] /\ asked \subseteq Runs
    BY DEF Shield!Init, Contexts
  <2> QED
    BY <2>3, <2>4, <2>5, <2>6, <2>7, <2>8, <2>9 DEF ShieldTypes
<1>4. ModeHolds
  BY <1>1 DEF Shield!Init, ModeHolds, Attack, Of, Shield!Of, Shield!Contexts
<1>5. OneAnnounces
  BY <1>1 DEF Shield!Init, OneAnnounces, Attack, Contexts
<1>6. StaysNarrow
  BY <1>1 DEF Shield!Init, StaysNarrow, Attack
<1>7. InjectionStops
  BY <1>2, AccessAssumption DEF Shield!Init, InjectionStops, Shield!ShieldAssumption
<1> QED
  BY <1>3, <1>4, <1>5, <1>6, <1>7 DEF ShieldInv

(* What the invariant says is about the shield's own variables.            *)
LEMMA ShieldStutters ==
  ASSUME ShieldInv, UNCHANGED shieldVars
  PROVE  ShieldInv'
BY DEF shieldVars, ShieldInv, ShieldTypes, ModeHolds, OneAnnounces, StaysNarrow, InjectionStops,
       Attack, Of, Contexts

-----------------------------------------------------------------------------
(* A stage of a run, and only that, is changed by Goes.                    *)
LEMMA StageMoves ==
  ASSUME ShieldTypes, NEW r \in Runs, NEW to, Shield!Goes(r, to)
  PROVE  /\ pc'[r] = to
         /\ \A q \in Runs : q # r => pc'[q] = pc[q]
         /\ to \in Before \cup Executing \cup {"failed"} =>
              pc' \in [Runs -> Before \cup Executing \cup {"failed"}]
BY DEF Shield!Goes, ShieldTypes

(* Every action keeps the types.                                           *)
LEMMA TypesKept ==
  ASSUME ShieldTypes, Shield!Next
  PROVE  ShieldTypes'
<1> DEFINE Stages == Before \cup Executing \cup {"failed"}
<1> USE DEF Of, Contexts, Shield!Of, Shield!Contexts
<1>1. CASE Shield!Fork
  BY <1>1 DEF Shield!Fork, ShieldTypes
<1>2. ASSUME NEW r \in Runs, Shield!Begin(r) PROVE ShieldTypes'
  <2>1. pc' \in [Runs -> Stages]
    BY <1>2, StageMoves DEF Shield!Begin, Before
  <2> QED
    BY <1>2, <2>1 DEF Shield!Begin, ShieldTypes
<1>3. ASSUME NEW r \in Runs, Shield!Scanned(r) PROVE ShieldTypes'
  <2>1. PICK v \in [detected : BOOLEAN, risky : BOOLEAN] :
          /\ scan' = [scan EXCEPT ![r] = v] /\ was' = [was EXCEPT ![r] = shielded[Of(r)]]
          /\ shielded' = [shielded EXCEPT ![Of(r)] = @ \/ v.risky \/ v.detected]
          /\ Shield!Goes(r, IF Shield!Newly(r) /\ shielded'[Of(r)] THEN "announce" ELSE "narrow")
    BY <1>3 DEF Shield!Scanned
  <2>2. pc' \in [Runs -> Stages]
    BY <2>1, StageMoves DEF Before
  <2>3. shielded[Of(r)] \in BOOLEAN /\ v.risky \in BOOLEAN /\ v.detected \in BOOLEAN
    BY DEF ShieldTypes
  <2> QED
    BY <1>3, <2>1, <2>2, <2>3 DEF Shield!Scanned, ShieldTypes
<1>4. ASSUME NEW r \in Runs, Shield!ScanFails(r) PROVE ShieldTypes'
  <2>1. pc' \in [Runs -> Stages]
    BY <1>4, StageMoves DEF Shield!ScanFails
  <2> QED
    BY <1>4, <2>1 DEF Shield!ScanFails, ShieldTypes
<1>5. ASSUME NEW r \in Runs, Shield!Announce(r) PROVE ShieldTypes'
  <2>1. pc' \in [Runs -> Stages]
    BY <1>5, StageMoves DEF Shield!Announce, Before
  <2>2. announced' \in Seq(Runs)
    <3>1. announced \in Seq(Runs)
      BY DEF ShieldTypes
    <3> QED
      BY <1>5, <3>1 DEF Shield!Announce
  <2> QED
    BY <1>5, <2>1, <2>2 DEF Shield!Announce, ShieldTypes
<1>6. ASSUME NEW r \in Runs, Shield!Narrow(r) PROVE ShieldTypes'
  <2>1. pc' \in [Runs -> Stages]
    BY <1>6, StageMoves DEF Shield!Narrow, Executing
  <2>2. caps' \in [Contexts -> SUBSET (Sensitive \cup Harmless)]
    BY <1>6 DEF Shield!Narrow, Shield!Allowed, ShieldTypes
  <2> QED
    BY <1>6, <2>1, <2>2 DEF Shield!Narrow, ShieldTypes
<1>7. ASSUME NEW r \in Runs, Shield!Detect(r) PROVE ShieldTypes'
  <2>1. PICK d \in BOOLEAN :
          /\ report' = [report EXCEPT ![r] = [injection |-> d, leaked |-> FALSE, blocked |-> d]]
          /\ output' = IF d THEN [output EXCEPT ![r] = "refused"] ELSE output
          /\ Shield!Goes(r, IF d THEN "post" ELSE "canary")
    BY <1>7 DEF Shield!Detect
  <2>2. pc' \in [Runs -> Stages]
    BY <2>1, StageMoves DEF Executing
  <2>3. [injection |-> d, leaked |-> FALSE, blocked |-> d]
          \in [injection : BOOLEAN, leaked : BOOLEAN, blocked : BOOLEAN]
    OBVIOUS
  <2>4. report' \in [Runs -> [injection : BOOLEAN, leaked : BOOLEAN, blocked : BOOLEAN]]
    BY <2>1, <2>3, Zenon DEF ShieldTypes
  <2> QED
    BY <1>7, <2>1, <2>2, <2>4 DEF Shield!Detect, ShieldTypes
<1>8. ASSUME NEW r \in Runs, Shield!AddCanary(r) PROVE ShieldTypes'
  <2>1. pc' \in [Runs -> Stages]
    BY <1>8, StageMoves DEF Shield!AddCanary, Executing
  <2> QED
    BY <1>8, <2>1 DEF Shield!AddCanary, ShieldTypes
<1>9. ASSUME NEW r \in Runs, Shield!AskModel(r) PROVE ShieldTypes'
  <2>1. pc' \in [Runs -> Stages]
    BY <1>9, StageMoves DEF Shield!AskModel, Executing
  <2> QED
    BY <1>9, <2>1 DEF Shield!AskModel, ShieldTypes
<1>10. ASSUME NEW r \in Runs, Shield!CheckLeak(r) PROVE ShieldTypes'
  <2> DEFINE leaked == output[r] = "canary"
  <2> DEFINE rep == [injection |-> report[r].injection, leaked |-> leaked,
                     blocked |-> leaked /\ BlockOnLeak]
  <2>1. pc' \in [Runs -> Stages]
    BY <1>10, StageMoves DEF Shield!CheckLeak, Executing
  <2>2. report[r].injection \in BOOLEAN
    BY DEF ShieldTypes
  <2>3. rep \in [injection : BOOLEAN, leaked : BOOLEAN, blocked : BOOLEAN]
    BY <2>2
  <2>4. report' = [report EXCEPT ![r] = rep]
    BY <1>10, Zenon DEF Shield!CheckLeak
  <2> HIDE DEF rep
  <2>5. report' \in [Runs -> [injection : BOOLEAN, leaked : BOOLEAN, blocked : BOOLEAN]]
    BY <2>3, <2>4 DEF ShieldTypes
  <2>6. output' \in [Runs -> {"none", "clean", "secret", "canary", "refused", "redacted"}]
    BY <1>10 DEF Shield!CheckLeak, ShieldTypes
  <2> QED
    BY <1>10, <2>1, <2>5, <2>6 DEF Shield!CheckLeak, ShieldTypes
<1>11. ASSUME NEW r \in Runs, Shield!Post(r) PROVE ShieldTypes'
  <2>1. pc' \in [Runs -> Stages]
    BY <1>11, StageMoves DEF Shield!Post, Executing
  <2> QED
    BY <1>11, <2>1 DEF Shield!Post, ShieldTypes
<1> QED
  BY <1>1, <1>2, <1>3, <1>4, <1>5, <1>6, <1>7, <1>8, <1>9, <1>10, <1>11 DEF Shield!Next

(* What a scan changes: the run's verdict and what it was told, and the    *)
(* mode of its context.                                                    *)
LEMMA AfterScan ==
  ASSUME ShieldTypes, NEW r \in Runs, Shield!Scanned(r)
  PROVE  /\ pc[r] = "scan"
         /\ pc'[r] = IF ~shielded[Of(r)] /\ shielded'[Of(r)] THEN "announce" ELSE "narrow"
         /\ was'[r] = shielded[Of(r)]
         /\ shielded'[Of(r)] <=> shielded[Of(r)] \/ Attack(r)'
         /\ \A c \in Contexts : c # Of(r) => shielded'[c] = shielded[c]
         /\ \A q \in Runs : q # r =>
              pc'[q] = pc[q] /\ was'[q] = was[q] /\ (Attack(q)' <=> Attack(q))
<1>1. PICK v \in [detected : BOOLEAN, risky : BOOLEAN] :
        /\ scan' = [scan EXCEPT ![r] = v] /\ was' = [was EXCEPT ![r] = shielded[Of(r)]]
        /\ shielded' = [shielded EXCEPT ![Of(r)] = @ \/ v.risky \/ v.detected]
        /\ Shield!Goes(r, IF Shield!Newly(r) /\ shielded'[Of(r)] THEN "announce" ELSE "narrow")
  BY DEF Shield!Scanned, Of
<1>2. pc[r] = "scan" /\ (Shield!Newly(r) <=> ~shielded[Of(r)])
  BY DEF Shield!Scanned, Shield!Newly, Of
<1>3. \A q \in Runs : q # r => scan'[q] = scan[q] /\ was'[q] = was[q] /\ pc'[q] = pc[q]
  BY <1>1, StageMoves DEF ShieldTypes
<1>4. scan'[r] = v /\ was'[r] = shielded[Of(r)]
  BY <1>1 DEF ShieldTypes
<1>5. pc'[r] = IF Shield!Newly(r) /\ shielded'[Of(r)] THEN "announce" ELSE "narrow"
  BY <1>1, StageMoves
<1>6. shielded'[Of(r)] <=> shielded[Of(r)] \/ v.risky \/ v.detected
  BY <1>1, RunHasContext DEF ShieldTypes
<1>7. \A c \in Contexts : c # Of(r) => shielded'[c] = shielded[c]
  BY <1>1 DEF ShieldTypes
<1>8. Attack(r)' <=> v.risky \/ v.detected
  BY <1>4 DEF Attack
<1>9. \A q \in Runs : q # r => (Attack(q)' <=> Attack(q))
  BY <1>3 DEF Attack
<1> QED
  BY <1>2, <1>3, <1>4, <1>5, <1>6, <1>7, <1>8, <1>9

-----------------------------------------------------------------------------
(* A context that is restricted stays so, and the fan-out takes the mode   *)
(* of the main context with it.                                            *)
LEMMA ModeKept ==
  ASSUME ShieldInv, ShieldTypes', Shield!Next
  PROVE  ModeHolds'
<1> USE RunHasContext DEF ShieldInv
<1>a. ASSUME NEW r \in Runs, pc[r] # "idle" \/ (r \in Branch => forked),
             UNCHANGED <<shielded, forked, was, scan>>, \A q \in Runs : q # r => pc'[q] = pc[q],
             pc'[r] \in {"idle", "scan"} => pc[r] = "idle"
      PROVE  ModeHolds'
  BY <1>a DEF ModeHolds, Attack, Of
<1>1. CASE Shield!Fork
  <2>1. shielded'["branch"] = shielded["main"]
    BY <1>1 DEF Shield!Fork, ShieldTypes, Contexts, Shield!Contexts
  <2>2. \A c \in Contexts : shielded[c] => shielded'[c]
    BY <1>1 DEF Shield!Fork, ShieldTypes, ModeHolds, Contexts, Shield!Contexts
  <2>3. forked' /\ UNCHANGED <<pc, was, scan>>
    BY <1>1 DEF Shield!Fork
  <2> QED
    BY <2>2, <2>3 DEF ModeHolds, Attack, Of
<1>2. ASSUME NEW r \in Runs, Shield!Begin(r) PROVE ModeHolds'
  BY <1>2, <1>a, StageMoves DEF Shield!Begin
<1>3. ASSUME NEW r \in Runs, Shield!Scanned(r) PROVE ModeHolds'
  <2> USE <1>3, AfterScan
  <2>1. forked' = forked /\ "branch" \in Contexts
    BY DEF Shield!Scanned, Contexts, Shield!Contexts
  <2>2. ~forked => r \notin Branch
    BY DEF ModeHolds
  <2>3. ~forked => Of(r) # "branch"
    BY <2>2 DEF Of, Shield!Of
  <2>4. \A q \in Runs : Attack(q)' \/ was'[q] => shielded'[Of(q)]
    BY DEF ModeHolds
  <2>5. \A q \in Runs : pc'[q] \in {"idle", "scan"} => ~Attack(q)' /\ ~was'[q]
    BY DEF ModeHolds
  <2>6. ~forked' => ~shielded'["branch"] /\ \A q \in Runs : q \in Branch => pc'[q] = "idle"
    BY <2>1, <2>2, <2>3 DEF ModeHolds
  <2> QED
    BY <2>4, <2>5, <2>6 DEF ModeHolds, Of
<1>4. ASSUME NEW r \in Runs, Shield!ScanFails(r) PROVE ModeHolds'
  BY <1>4, <1>a, StageMoves DEF Shield!ScanFails
<1>5. ASSUME NEW r \in Runs, Shield!Announce(r) PROVE ModeHolds'
  BY <1>5, <1>a, StageMoves DEF Shield!Announce
<1>6. ASSUME NEW r \in Runs, Shield!Narrow(r) PROVE ModeHolds'
  BY <1>6, <1>a, StageMoves DEF Shield!Narrow
<1>7. ASSUME NEW r \in Runs, Shield!Detect(r) PROVE ModeHolds'
  BY <1>7, <1>a, StageMoves DEF Shield!Detect
<1>8. ASSUME NEW r \in Runs, Shield!AddCanary(r) PROVE ModeHolds'
  BY <1>8, <1>a, StageMoves DEF Shield!AddCanary
<1>9. ASSUME NEW r \in Runs, Shield!AskModel(r) PROVE ModeHolds'
  BY <1>9, <1>a, StageMoves DEF Shield!AskModel
<1>10. ASSUME NEW r \in Runs, Shield!CheckLeak(r) PROVE ModeHolds'
  BY <1>10, <1>a, StageMoves DEF Shield!CheckLeak
<1>11. ASSUME NEW r \in Runs, Shield!Post(r) PROVE ModeHolds'
  BY <1>11, <1>a, StageMoves DEF Shield!Post
<1> QED
  BY <1>1, <1>2, <1>3, <1>4, <1>5, <1>6, <1>7, <1>8, <1>9, <1>10, <1>11 DEF Shield!Next

-----------------------------------------------------------------------------
(* Only the run that entered the mode of a context announces it.           *)
LEMMA AnnouncedKept ==
  ASSUME ShieldInv, ShieldTypes', ModeHolds', Shield!Next
  PROVE  OneAnnounces'
<1> USE RunHasContext DEF ShieldInv
<1>a. announced \in Seq(Runs)
  BY DEF ShieldTypes
<1>b. ASSUME NEW r \in Runs, pc[r] \notin {"announce", "failed"}, pc'[r] # "announce",
             UNCHANGED <<shielded, forked, announced, scan>>,
             \A q \in Runs : q # r => pc'[q] = pc[q]
      PROVE  OneAnnounces'
  <2>1. \A q \in Runs : pc'[q] = "announce" => pc[q] = "announce"
    BY <1>b
  <2>2. \A q \in Runs : pc[q] \in {"announce", "failed"} => pc'[q] = pc[q]
    BY <1>b
  <2>3. \A q \in Runs : Attack(q)' <=> Attack(q)
    BY <1>b DEF Attack
  <2> QED
    BY <1>b, <2>1, <2>2, <2>3 DEF OneAnnounces, Of, Contexts
<1>1. CASE Shield!Fork
  <2>1. \A c \in Contexts : shielded[c] => shielded'[c]
    BY <1>1 DEF Shield!Fork, ShieldTypes, ModeHolds, Contexts, Shield!Contexts
  <2>2. \A c \in Contexts : shielded'[c] => shielded[c] \/ c = "branch"
    BY <1>1 DEF Shield!Fork, ShieldTypes, Contexts, Shield!Contexts
  <2>3. forked' /\ UNCHANGED <<pc, was, scan, announced>>
    BY <1>1 DEF Shield!Fork
  <2>4. \A i \in 1 .. Len(announced) : announced[i] \in Runs
    BY <1>a
  <2> QED
    BY <2>1, <2>2, <2>3, <2>4 DEF OneAnnounces, Attack, Of, Contexts
<1>2. ASSUME NEW r \in Runs, Shield!Begin(r) PROVE OneAnnounces'
  BY <1>2, <1>b, StageMoves DEF Shield!Begin
<1>3. ASSUME NEW r \in Runs, Shield!Scanned(r) PROVE OneAnnounces'
  <2> USE <1>3, AfterScan
  <2>1. UNCHANGED <<announced, forked>>
    BY DEF Shield!Scanned
  <2>2. \A i \in 1 .. Len(announced) : announced[i] \in Runs /\ Of(announced[i]) \in Contexts
    BY <1>a
  <2>3. \A q \in Runs : pc'[q] = "announce" => Attack(q)'
    BY DEF OneAnnounces
  <2>4. pc'[r] = "announce" =>
          /\ \A q \in Runs : pc[q] = "announce" => Of(q) # Of(r)
          /\ \A i \in 1 .. Len(announced) : Of(announced[i]) # Of(r)
    BY DEF OneAnnounces, ModeHolds
  <2>5. \A p, q \in Runs : pc'[p] = "announce" /\ pc'[q] = "announce" /\ Of(p) = Of(q) => p = q
    BY <2>4 DEF OneAnnounces
  <2>6. \A i \in 1 .. Len(announced) : shielded'[Of(announced[i])]
    BY <2>2 DEF OneAnnounces
  <2>7. \A i \in 1 .. Len(announced) : \A q \in Runs :
          pc'[q] = "announce" => Of(announced[i]) # Of(q)
    BY <2>4 DEF OneAnnounces
  <2>8. ASSUME NEW c \in Contexts, shielded'[c]
        PROVE  \/ \E i \in 1 .. Len(announced) : Of(announced[i]) = c
               \/ \E q \in Runs : Of(q) = c /\ pc'[q] \in {"announce", "failed"} /\ Attack(q)'
               \/ c = "branch" /\ forked
    <3>1. CASE shielded[c]
      <4>1. \A q \in Runs : pc[q] \in {"announce", "failed"} /\ Attack(q) =>
              pc'[q] \in {"announce", "failed"} /\ Attack(q)'
        OBVIOUS
      <4> QED
        BY <3>1, <4>1 DEF OneAnnounces
    <3>2. CASE ~shielded[c]
      BY <2>3, <2>8, <3>2
    <3> QED
      BY <3>1, <3>2
  <2> QED
    BY <2>1, <2>3, <2>5, <2>6, <2>7, <2>8 DEF OneAnnounces, Of, Contexts
<1>4. ASSUME NEW r \in Runs, Shield!ScanFails(r) PROVE OneAnnounces'
  BY <1>4, <1>b, StageMoves DEF Shield!ScanFails
<1>5. ASSUME NEW r \in Runs, Shield!Announce(r) PROVE OneAnnounces'
  <2>1. /\ pc[r] = "announce" /\ pc'[r] \in {"narrow", "failed"}
        /\ \A q \in Runs : q # r => pc'[q] = pc[q]
        /\ UNCHANGED <<shielded, forked, scan>>
    BY <1>5, StageMoves DEF Shield!Announce
  <2>2. \A q \in Runs : Attack(q)' <=> Attack(q)
    BY <2>1 DEF Attack
  <2>3. CASE announced' = announced /\ Shield!Goes(r, "failed")
    <3>1. pc'[r] = "failed"
      BY <2>3, StageMoves
    <3> QED
      BY <2>1, <2>2, <2>3, <3>1 DEF OneAnnounces, Of, Contexts
  <2>4. CASE announced' = Append(announced, r)
    <3>1. /\ Len(announced') = Len(announced) + 1 /\ Len(announced) \in Nat
          /\ announced'[Len(announced) + 1] = r
          /\ \A i \in 1 .. Len(announced) : announced'[i] = announced[i]
      BY <1>a, <2>4
    <3>2. shielded'[Of(r)] /\ \A i \in 1 .. Len(announced) : Of(announced[i]) # Of(r)
      BY <2>1 DEF OneAnnounces, ModeHolds
    <3>3. \A i \in 1 .. Len(announced') : i \in 1 .. Len(announced) \/ i = Len(announced) + 1
      BY <3>1
    <3>4. \A p, q \in Runs : pc'[p] = "announce" /\ pc'[q] = "announce" /\ Of(p) = Of(q) => p = q
      BY <2>1 DEF OneAnnounces
    <3>5. \A q \in Runs : pc'[q] = "announce" => Attack(q)' /\ Of(q) # Of(r)
      BY <2>1, <2>2 DEF OneAnnounces
    <3>6. \A i \in 1 .. Len(announced') : shielded'[Of(announced'[i])]
      BY <2>1, <3>1, <3>2, <3>3 DEF OneAnnounces
    <3>7. \A i \in 1 .. Len(announced') : \A q \in Runs :
            pc'[q] = "announce" => Of(announced'[i]) # Of(q)
      BY <2>1, <3>1, <3>3, <3>5 DEF OneAnnounces
    <3>8. \A i, j \in 1 .. Len(announced') : Of(announced'[i]) = Of(announced'[j]) => i = j
      BY <3>1, <3>2, <3>3 DEF OneAnnounces
    <3>9. ASSUME NEW c \in Contexts, shielded'[c]
          PROVE  \/ \E i \in 1 .. Len(announced') : Of(announced'[i]) = c
                 \/ \E q \in Runs : Of(q) = c /\ pc'[q] \in {"announce", "failed"} /\ Attack(q)'
                 \/ c = "branch" /\ forked'
      <4>1. CASE c = Of(r)
        <5>1. Len(announced) + 1 \in 1 .. Len(announced')
          BY <3>1
        <5> QED
          BY <3>1, <4>1, <5>1
      <4>2. CASE \E i \in 1 .. Len(announced) : Of(announced[i]) = c
        <5>1. \A i \in 1 .. Len(announced) : i \in 1 .. Len(announced')
          BY <3>1
        <5> QED
          BY <3>1, <4>2, <5>1
      <4>3. CASE \E q \in Runs : Of(q) = c /\ pc[q] \in {"announce", "failed"} /\ Attack(q)
        BY <2>1, <2>2, <4>1, <4>3
      <4> QED
        BY <2>1, <3>9, <4>1, <4>2, <4>3 DEF OneAnnounces
    <3> QED
      BY <3>4, <3>5, <3>6, <3>7, <3>8, <3>9 DEF OneAnnounces, Of, Contexts
  <2> QED
    BY <1>5, <2>3, <2>4 DEF Shield!Announce
<1>6. ASSUME NEW r \in Runs, Shield!Narrow(r) PROVE OneAnnounces'
  BY <1>6, <1>b, StageMoves DEF Shield!Narrow
<1>7. ASSUME NEW r \in Runs, Shield!Detect(r) PROVE OneAnnounces'
  BY <1>7, <1>b, StageMoves DEF Shield!Detect
<1>8. ASSUME NEW r \in Runs, Shield!AddCanary(r) PROVE OneAnnounces'
  BY <1>8, <1>b, StageMoves DEF Shield!AddCanary
<1>9. ASSUME NEW r \in Runs, Shield!AskModel(r) PROVE OneAnnounces'
  BY <1>9, <1>b, StageMoves DEF Shield!AskModel
<1>10. ASSUME NEW r \in Runs, Shield!CheckLeak(r) PROVE OneAnnounces'
  BY <1>10, <1>b, StageMoves DEF Shield!CheckLeak
<1>11. ASSUME NEW r \in Runs, Shield!Post(r) PROVE OneAnnounces'
  BY <1>11, <1>b, StageMoves DEF Shield!Post
<1> QED
  BY <1>1, <1>2, <1>3, <1>4, <1>5, <1>6, <1>7, <1>8, <1>9, <1>10, <1>11 DEF Shield!Next

-----------------------------------------------------------------------------
(* Capabilities that were narrowed stay narrow, and what was an attack     *)
(* runs without the sensitive ones and has its secrets redacted.           *)
LEMMA NarrowKept ==
  ASSUME ShieldInv, ShieldTypes', ModeHolds', Shield!Next
  PROVE  StaysNarrow'
<1> USE RunHasContext DEF ShieldInv
<1>a. ASSUME NEW r \in Runs, pc[r] \in Before => pc'[r] \in Before \cup {"failed"},
             pc[r] \in Executing => pc'[r] \in Executing \cup {"failed"}, pc[r] # "failed",
             UNCHANGED <<caps, was, scan, granted>>,
             \A q \in Runs : q # r => pc'[q] = pc[q] /\ output'[q] = output[q],
             pc'[r] = "done" => (Attack(r) \/ was[r] => output'[r] # "secret")
      PROVE  StaysNarrow'
  <2>1. \A q \in Runs : Attack(q)' <=> Attack(q)
    BY <1>a DEF Attack
  <2>2. \A q \in Runs : pc'[q] \in Executing => pc[q] \in Executing
    BY <1>a DEF Before, Executing, ShieldTypes
  <2>3. \A q \in Runs : pc'[q] \in Before => pc[q] \in Before
    BY <1>a DEF Before, Executing, ShieldTypes
  <2> QED
    BY <1>a, <2>1, <2>2, <2>3 DEF StaysNarrow, Of
<1> USE DEF Before, Executing
<1>1. CASE Shield!Fork
  BY <1>1 DEF Shield!Fork, StaysNarrow, Attack, Of
<1>2. ASSUME NEW r \in Runs, Shield!Begin(r) PROVE StaysNarrow'
  BY <1>2, <1>a, StageMoves DEF Shield!Begin
<1>3. ASSUME NEW r \in Runs, Shield!Scanned(r) PROVE StaysNarrow'
  <2>1. UNCHANGED <<caps, granted, output>>
    BY <1>3 DEF Shield!Scanned
  <2> QED
    BY <1>3, AfterScan, <2>1 DEF StaysNarrow, Of
<1>4. ASSUME NEW r \in Runs, Shield!ScanFails(r) PROVE StaysNarrow'
  BY <1>4, <1>a, StageMoves DEF Shield!ScanFails
<1>5. ASSUME NEW r \in Runs, Shield!Announce(r) PROVE StaysNarrow'
  BY <1>5, <1>a, StageMoves DEF Shield!Announce
<1>6. ASSUME NEW r \in Runs, Shield!Narrow(r) PROVE StaysNarrow'
  <2>1. /\ caps'[Of(r)] = IF shielded[Of(r)] THEN base[r] \ Sensitive ELSE base[r]
        /\ \A c \in Contexts : c # Of(r) => caps'[c] = caps[c]
    BY <1>6 DEF Shield!Narrow, Shield!Allowed, ShieldTypes, Of
  <2>2. /\ granted'[r] = caps'[Of(r)]
        /\ \A q \in Runs : q # r => granted'[q] = granted[q]
    BY <1>6 DEF Shield!Narrow, ShieldTypes, Of
  <2>3. /\ pc[r] = "narrow" /\ pc'[r] \in {"detect", "model"}
        /\ \A q \in Runs : q # r => pc'[q] = pc[q]
    BY <1>6, StageMoves DEF Shield!Narrow
  <2>4. UNCHANGED <<shielded, was, scan, output>>
    BY <1>6 DEF Shield!Narrow
  <2>5. shielded[Of(r)] => caps'[Of(r)] \cap Sensitive = {}
    BY <2>1
  <2>6. \A q \in Runs : Attack(q)' <=> Attack(q)
    BY <2>4 DEF Attack
  <2>7. \A q \in Runs : was'[q] /\ pc'[q] \in Executing => caps'[Of(q)] \cap Sensitive = {}
    BY <2>1, <2>3, <2>4, <2>5 DEF StaysNarrow, ModeHolds
  <2>8. \A q \in Runs : pc'[q] \in Before => granted'[q] = {}
    BY <2>2, <2>3 DEF StaysNarrow
  <2>9. \A q \in Runs : Attack(q)' \/ was'[q] =>
          granted'[q] \cap Sensitive = {} /\ ~(pc'[q] = "done" /\ output'[q] = "secret")
    BY <2>2, <2>3, <2>4, <2>5, <2>6 DEF StaysNarrow, ModeHolds
  <2> QED
    BY <2>7, <2>8, <2>9 DEF StaysNarrow, Of
<1>7. ASSUME NEW r \in Runs, Shield!Detect(r) PROVE StaysNarrow'
  <2>1. \A q \in Runs : q # r => output'[q] = output[q]
    BY <1>7 DEF Shield!Detect, ShieldTypes
  <2> QED
    BY <1>7, <1>a, <2>1, StageMoves DEF Shield!Detect
<1>8. ASSUME NEW r \in Runs, Shield!AddCanary(r) PROVE StaysNarrow'
  BY <1>8, <1>a, StageMoves DEF Shield!AddCanary
<1>9. ASSUME NEW r \in Runs, Shield!AskModel(r) PROVE StaysNarrow'
  <2>1. \A q \in Runs : q # r => output'[q] = output[q]
    BY <1>9 DEF Shield!AskModel, ShieldTypes
  <2> QED
    BY <1>9, <1>a, <2>1, StageMoves DEF Shield!AskModel
<1>10. ASSUME NEW r \in Runs, Shield!CheckLeak(r) PROVE StaysNarrow'
  <2>1. \A q \in Runs : q # r => output'[q] = output[q]
    BY <1>10 DEF Shield!CheckLeak, ShieldTypes
  <2> QED
    BY <1>10, <1>a, <2>1, StageMoves DEF Shield!CheckLeak
<1>11. ASSUME NEW r \in Runs, Shield!Post(r) PROVE StaysNarrow'
  <2>1. \A q \in Runs : q # r => output'[q] = output[q]
    BY <1>11 DEF Shield!Post, ShieldTypes
  <2>2. shielded[Of(r)] => output'[r] # "secret"
    BY <1>11 DEF Shield!Post, ShieldTypes, Of
  <2>3. Attack(r) \/ was[r] => output'[r] # "secret"
    BY <2>2 DEF ModeHolds
  <2> QED
    BY <1>11, <1>a, <2>1, <2>3, StageMoves DEF Shield!Post
<1> QED
  BY <1>1, <1>2, <1>3, <1>4, <1>5, <1>6, <1>7, <1>8, <1>9, <1>10, <1>11 DEF Shield!Next

(* A PromptInjectionAgent's own check.                                     *)
LEMMA InjectionKept ==
  ASSUME ShieldInv, ShieldTypes', Shield!Next
  PROVE  InjectionStops'
<1> USE AccessAssumption DEF ShieldInv, Shield!ShieldAssumption
<1> DEFINE Checks(r) ==
      /\ pc[r] \in Before \cup {"detect", "canary", "model", "leak"} => ~report[r].injection
      /\ pc[r] \in Before \cup {"detect", "canary", "model"} => r \notin asked
      /\ pc[r] \in {"post", "done"} =>
           /\ report[r].injection => r \notin asked /\ output[r] = "refused"
           /\ BlockOnLeak => output[r] # "canary"
<1>a. ASSUME NEW r \in Runs, \A q \in Runs : q # r =>
               /\ pc'[q] = pc[q] /\ report'[q] = report[q] /\ output'[q] = output[q]
               /\ q \in asked' <=> q \in asked,
             r \in Checked => Checks(r)'
      PROVE  InjectionStops'
  BY <1>a DEF InjectionStops
<1>b. ASSUME NEW r \in Runs, UNCHANGED <<report, asked, output>>,
             \A q \in Runs : q # r => pc'[q] = pc[q],
             pc'[r] \in Before \cup {"detect", "canary", "model", "failed"},
             pc'[r] # "failed" => pc[r] \in Before \cup {"detect", "canary", "model"}
      PROVE  InjectionStops'
  BY <1>b DEF InjectionStops, Before
<1> USE DEF Before, Executing
<1>1. CASE Shield!Fork
  BY <1>1 DEF Shield!Fork, InjectionStops
<1>2. ASSUME NEW r \in Runs, Shield!Begin(r) PROVE InjectionStops'
  BY <1>2, <1>b, StageMoves DEF Shield!Begin
<1>3. ASSUME NEW r \in Runs, Shield!Scanned(r) PROVE InjectionStops'
  <2>1. UNCHANGED <<report, asked, output>>
    BY <1>3 DEF Shield!Scanned
  <2>2. ShieldTypes
    OBVIOUS
  <2>3. pc[r] = "scan" /\ pc'[r] \in {"announce", "narrow"}
    BY <1>3, <2>2, AfterScan
  <2>4. \A q \in Runs : q # r => pc'[q] = pc[q]
    BY <1>3, <2>2, AfterScan
  <2> QED
    BY <1>b, <2>1, <2>3, <2>4
<1>4. ASSUME NEW r \in Runs, Shield!ScanFails(r) PROVE InjectionStops'
  BY <1>4, <1>b, StageMoves DEF Shield!ScanFails
<1>5. ASSUME NEW r \in Runs, Shield!Announce(r) PROVE InjectionStops'
  BY <1>5, <1>b, StageMoves DEF Shield!Announce
<1>6. ASSUME NEW r \in Runs, Shield!Narrow(r) PROVE InjectionStops'
  BY <1>6, <1>b, StageMoves DEF Shield!Narrow
<1>7. ASSUME NEW r \in Runs, Shield!Detect(r) PROVE InjectionStops'
  <2>1. PICK d \in BOOLEAN :
          /\ report' = [report EXCEPT ![r] = [injection |-> d, leaked |-> FALSE, blocked |-> d]]
          /\ output' = IF d THEN [output EXCEPT ![r] = "refused"] ELSE output
          /\ Shield!Goes(r, IF d THEN "post" ELSE "canary")
    BY <1>7 DEF Shield!Detect
  <2>2. report'[r] = [injection |-> d, leaked |-> FALSE, blocked |-> d]
    BY <2>1, Zenon DEF ShieldTypes
  <2>3. report'[r].injection = d
    BY <2>2
  <2>4. \A q \in Runs : q # r => report'[q] = report[q]
    BY <2>1, Zenon DEF ShieldTypes
  <2>5. \A q \in Runs : q # r => output'[q] = output[q]
    BY <2>1 DEF ShieldTypes
  <2>6. d => output'[r] = "refused"
    BY <2>1 DEF ShieldTypes
  <2>7. pc'[r] = IF d THEN "post" ELSE "canary"
    BY <2>1, StageMoves
  <2>8. /\ pc[r] = "detect" /\ asked' = asked
        /\ \A q \in Runs : q # r => pc'[q] = pc[q]
    BY <1>7, <2>1, StageMoves DEF Shield!Detect
  <2>9. r \in Checked => Checks(r)'
    BY <2>3, <2>6, <2>7, <2>8 DEF InjectionStops
  <2> HIDE DEF Checks
  <2> QED
    BY <1>a, <2>4, <2>5, <2>8, <2>9
<1>8. ASSUME NEW r \in Runs, Shield!AddCanary(r) PROVE InjectionStops'
  BY <1>8, <1>b, StageMoves DEF Shield!AddCanary
<1>9. ASSUME NEW r \in Runs, Shield!AskModel(r) PROVE InjectionStops'
  <2>1. /\ pc[r] = "model" /\ asked' = asked \cup {r} /\ report' = report
        /\ \A q \in Runs : q # r => pc'[q] = pc[q]
    BY <1>9, StageMoves DEF Shield!AskModel
  <2>2. \A q \in Runs : q # r => output'[q] = output[q]
    BY <1>9 DEF Shield!AskModel, ShieldTypes
  <2>3. r \in Checked => pc'[r] \in {"failed", "leak"}
    BY <1>9, StageMoves DEF Shield!AskModel
  <2>4. r \in Checked => Checks(r)'
    BY <2>1, <2>3 DEF InjectionStops
  <2> HIDE DEF Checks
  <2> QED
    BY <1>a, <2>1, <2>2, <2>4
<1>10. ASSUME NEW r \in Runs, Shield!CheckLeak(r) PROVE InjectionStops'
  <2> DEFINE leaked == output[r] = "canary"
  <2> DEFINE rep == [injection |-> report[r].injection, leaked |-> leaked,
                     blocked |-> leaked /\ BlockOnLeak]
  <2>1. report' = [report EXCEPT ![r] = rep]
    BY <1>10, Zenon DEF Shield!CheckLeak
  <2>2. rep.injection = report[r].injection
    OBVIOUS
  <2> HIDE DEF rep
  <2>3. report'[r] = rep /\ \A q \in Runs : q # r => report'[q] = report[q]
    BY <2>1 DEF ShieldTypes
  <2>4. report'[r].injection = report[r].injection
    BY <2>2, <2>3
  <2>5. /\ pc[r] = "leak" /\ pc'[r] = "post" /\ asked' = asked
        /\ \A q \in Runs : q # r => pc'[q] = pc[q]
    BY <1>10, StageMoves DEF Shield!CheckLeak
  <2>6. /\ \A q \in Runs : q # r => output'[q] = output[q]
        /\ BlockOnLeak => output'[r] # "canary"
    BY <1>10 DEF Shield!CheckLeak, ShieldTypes
  <2>7. r \in Checked => Checks(r)'
    BY <2>4, <2>5, <2>6 DEF InjectionStops
  <2> HIDE DEF Checks
  <2> QED
    BY <1>a, <2>3, <2>5, <2>6, <2>7
<1>11. ASSUME NEW r \in Runs, Shield!Post(r) PROVE InjectionStops'
  <2>1. /\ pc[r] = "post" /\ pc'[r] = "done" /\ UNCHANGED <<asked, report>>
        /\ \A q \in Runs : q # r => pc'[q] = pc[q]
    BY <1>11, StageMoves DEF Shield!Post
  <2>2. /\ \A q \in Runs : q # r => output'[q] = output[q]
        /\ output'[r] # output[r] => output[r] = "secret" /\ output'[r] = "redacted"
    BY <1>11 DEF Shield!Post, ShieldTypes
  <2>3. r \in Checked => Checks(r)'
    BY <2>1, <2>2 DEF InjectionStops
  <2> HIDE DEF Checks
  <2> QED
    BY <1>a, <2>1, <2>2, <2>3
<1> QED
  BY <1>1, <1>2, <1>3, <1>4, <1>5, <1>6, <1>7, <1>8, <1>9, <1>10, <1>11 DEF Shield!Next

-----------------------------------------------------------------------------
(* The invariant says what sticks.                                         *)
LEMMA InvariantSticks == ShieldInv => Shield!ShieldSticks
<1> SUFFICES ASSUME ShieldInv PROVE Shield!ShieldSticks
  OBVIOUS
<1> USE DEF ShieldInv
<1>0. announced \in Seq(Runs)
  BY DEF ShieldTypes
<1>1. ASSUME NEW c \in Contexts
      PROVE  /\ Cardinality(Shield!By(c)) <= 1
             /\ shielded[c] /\ Shield!By(c) = {} =>
                  \/ \E r \in {q \in Runs : Shield!Of(q) = c} :
                       pc[r] \in {"announce", "failed"} /\ (scan[r].detected \/ scan[r].risky)
                  \/ c = "branch" /\ forked
             /\ (\E r \in {q \in Runs : Shield!Of(q) = c} :
                   pc[r] \notin {"idle", "scan", "announce", "narrow", "failed"} /\ was[r]) =>
                  caps[c] \cap Sensitive = {}
  <2>1. Shield!By(c) = {i \in 1 .. Len(announced) : Of(announced[i]) = c}
    <3>1. DOMAIN announced = 1 .. Len(announced)
      BY <1>0
    <3> QED
      BY <3>1 DEF Shield!By, Of
  <2>2. \A i, j \in Shield!By(c) : i = j
    BY <2>1 DEF OneAnnounces
  <2>3. Cardinality(Shield!By(c)) <= 1
    BY <2>2, AtMostOne
  <2>4. shielded[c] /\ Shield!By(c) = {} =>
          \/ \E r \in Runs : Of(r) = c /\ pc[r] \in {"announce", "failed"} /\ Attack(r)
          \/ c = "branch" /\ forked
    BY <2>1 DEF OneAnnounces
  <2>5. \A r \in Runs : pc[r] \notin Before \cup {"failed"} => pc[r] \in Executing
    BY DEF ShieldTypes
  <2>6. \A r \in Runs : Of(r) = c /\ pc[r] \notin Before \cup {"failed"} /\ was[r] =>
          caps[c] \cap Sensitive = {}
    BY <2>5 DEF StaysNarrow
  <2> QED
    BY <2>3, <2>4, <2>6 DEF Of, Attack, Before
<1>2. \A r \in Runs : scan[r].detected \/ scan[r].risky \/ was[r] =>
        granted[r] \cap Sensitive = {} /\ ~(pc[r] = "done" /\ output[r] = "secret")
  BY DEF StaysNarrow, Attack
<1>3. \A r \in Checked : pc[r] = "done" =>
        /\ report[r].injection => r \notin asked /\ output[r] = "refused"
        /\ BlockOnLeak => output[r] # "canary"
  BY DEF InjectionStops
<1> QED
  BY <1>1, <1>2, <1>3, SameCount DEF Shield!ShieldSticks, Contexts

(* However the runs of a context interleave, restricted mode is announced  *)
(* at most once, is never narrowed away from, and is applied to the run    *)
(* that was judged an attack: for any runs, any of them in the branch of a *)
(* fan-out and any of them PromptInjectionAgents.                          *)
THEOREM ShieldHolds == MCSpec => []ShieldSticks
<1> DEFINE Held == part = "shield" => ShieldInv
<1>1. MCInit => Held
  BY ShieldStarts DEF MCInit
<1>2. Held /\ [MCNext]_allVars => Held'
  <2> SUFFICES ASSUME Held, [MCNext]_allVars, part' = "shield" PROVE ShieldInv'
    OBVIOUS
  <2>1. part = "shield" /\ ShieldInv
    BY DEF MCNext, allVars
  <2>2. CASE Shield!Next
    <3>1. ShieldTypes'
      BY <2>1, <2>2, TypesKept DEF ShieldInv
    <3>2. ModeHolds'
      BY <2>1, <2>2, <3>1, ModeKept
    <3> QED
      BY <2>1, <2>2, <3>1, <3>2, AnnouncedKept, NarrowKept, InjectionKept DEF ShieldInv
  <2>3. CASE UNCHANGED shieldVars
    BY <2>1, <2>3, ShieldStutters
  <2> QED
    BY <2>1, <2>2, <2>3 DEF MCNext, allVars
<1>3. Held => ShieldSticks
  BY InvariantSticks DEF ShieldSticks
<1> QED
  BY <1>1, <1>2, <1>3, PTL DEF MCSpec

-----------------------------------------------------------------------------
(***************************************************************************)
(* Guardrails, for any chains, hooks and texts.  What a chain has run on   *)
(* so far (below a place n) is clean up to n: a flaw that a binding        *)
(* guardrail looked for is there again only by a later fix.                *)
(***************************************************************************)
Brings(g, flaw) == \E t \in Guards!Fixed(g, {g.finds}) : flaw \in t
CleanUpTo(chain, n, t) ==
  \A i \in 1 .. Len(chain) : i < n /\ Guards!Binding(chain[i]) /\ chain[i].finds \in t =>
    \E j \in 1 .. Len(chain) :
      i < j /\ j < n /\ Guards!Repairs(chain[j]) /\ Brings(chain[j], chain[i].finds)
(* The input of a message list is not what the chain made of it, only what *)
(* it would have stopped at, had no fix hidden it.                         *)
ListUpTo(chain, n, t) ==
  \A i \in 1 .. Len(chain) : i < n /\ Guards!Binding(chain[i]) /\ chain[i].finds \in t =>
    \E j \in 1 .. i : Guards!Repairs(chain[j])
InputOk ==
  IF asString THEN CleanUpTo(inChain, Len(inChain) + 1, input)
  ELSE ListUpTo(inChain, Len(inChain) + 1, input)

GuardStages == {"before", "input", "agent", "output", "after", "done"}
GuardInv ==
  /\ stage \in GuardStages /\ at \in Nat \ {0} /\ attempt \in Nat
  /\ inChain \in Seq(Guards!Guard) /\ outChain \in Seq(Guards!Guard) /\ asString \in BOOLEAN
  /\ stage \in {"before", "input"} => attempt = 0
  /\ stage \in {"before", "input", "agent", "output"} => result.kind = "none"
  /\ stage = "before" => at = 1 /\ text = input
  /\ stage = "input" =>
       /\ CleanUpTo(inChain, at, text) /\ ListUpTo(inChain, at, input)
       /\ (\A j \in 1 .. Len(inChain) : j < at => ~Guards!Repairs(inChain[j])) => text = input
  /\ stage = "agent" \/ attempt > 0 => InputOk
  /\ stage = "output" => CleanUpTo(outChain, at, text) /\ attempt > 0
  /\ stage = "after" => /\ result.kind \in {"served", "blocked"}
                        /\ result.kind = "served" => CleanUpTo(outChain, Len(outChain) + 1, text)
  /\ stage = "done" =>
       /\ result.kind = "served" => CleanUpTo(outChain, Len(outChain) + 1, result.text)
       /\ "empty" \notin result.text => Guards!Caught(result.text) = {}
  /\ result.kind = "blocked" /\ attempt \in 1 .. MaxRetries => Guards!FirstAction # "retry"

(* A fix takes out the flaw it looks for, and brings in only what it may.  *)
LEMMA FixBrings ==
  ASSUME NEW g \in Guards!Guard, NEW t, NEW fixed \in Guards!Fixed(g, t)
  PROVE  /\ g.finds \notin fixed
         /\ \A flaw \in fixed : flaw \in t \/ Brings(g, flaw)
<1>1. CASE g.finds = "long"
  <2>1. PICK lost \in SUBSET {"banned", "pii"}, cut \in {{}, {"malformed"}} :
          fixed = (t \ ({"long"} \cup lost)) \cup cut
    BY <1>1 DEF Guards!Fixed
  <2>2. ({"long"} \ ({"long"} \cup {})) \cup cut \in Guards!Fixed(g, {g.finds})
    BY <1>1 DEF Guards!Fixed
  <2> QED
    BY <1>1, <2>1, <2>2 DEF Brings
<1>2. CASE g.finds # "long"
  <2>1. PICK grown \in {{}, {"long"}} : fixed = (t \ {g.finds}) \cup grown
    BY <1>2 DEF Guards!Fixed
  <2>2. ({g.finds} \ {g.finds}) \cup grown \in Guards!Fixed(g, {g.finds})
    BY <1>2 DEF Guards!Fixed
  <2> QED
    BY <1>2, <2>1, <2>2 DEF Brings
<1> QED
  BY <1>1, <1>2

(* One more guardrail, that let the text pass.                             *)
LEMMA CleanPasses ==
  ASSUME NEW chain \in Seq(Guards!Guard), NEW n \in 1 .. Len(chain), NEW t,
         CleanUpTo(chain, n, t), Guards!Binding(chain[n]) => chain[n].finds \notin t
  PROVE  CleanUpTo(chain, n + 1, t)
<1> SUFFICES ASSUME NEW i \in 1 .. Len(chain), i < n + 1, Guards!Binding(chain[i]), chain[i].finds \in t
             PROVE  \E j \in 1 .. Len(chain) : i < j /\ j < n + 1 /\ Guards!Repairs(chain[j])
                                               /\ Brings(chain[j], chain[i].finds)
  BY DEF CleanUpTo
<1>1. i < n
  OBVIOUS
<1>2. PICK j \in 1 .. Len(chain) : i < j /\ j < n /\ Guards!Repairs(chain[j])
                                   /\ Brings(chain[j], chain[i].finds)
  BY <1>1 DEF CleanUpTo
<1> QED
  BY <1>2

(* One more guardrail, that fixed it.                                      *)
LEMMA CleanFixed ==
  ASSUME NEW chain \in Seq(Guards!Guard), NEW n \in 1 .. Len(chain), NEW t,
         CleanUpTo(chain, n, t), Guards!Repairs(chain[n]), NEW fixed \in Guards!Fixed(chain[n], t)
  PROVE  CleanUpTo(chain, n + 1, fixed)
<1> SUFFICES ASSUME NEW i \in 1 .. Len(chain), i < n + 1, Guards!Binding(chain[i]),
                    chain[i].finds \in fixed
             PROVE  \E j \in 1 .. Len(chain) : i < j /\ j < n + 1 /\ Guards!Repairs(chain[j])
                                               /\ Brings(chain[j], chain[i].finds)
  BY DEF CleanUpTo
<1>0. chain[n] \in Guards!Guard
  OBVIOUS
<1>1. i # n
  BY <1>0, FixBrings
<1>2. CASE Brings(chain[n], chain[i].finds)
  BY <1>1, <1>2
<1>3. CASE chain[i].finds \in t
  <2>1. PICK j \in 1 .. Len(chain) : i < j /\ j < n /\ Guards!Repairs(chain[j])
                                     /\ Brings(chain[j], chain[i].finds)
    BY <1>1, <1>3 DEF CleanUpTo
  <2> QED
    BY <2>1
<1> QED
  BY <1>0, <1>2, <1>3, FixBrings

(* Clean up to its end is what the property calls clean.                   *)
LEMMA CleanToItsEnd ==
  ASSUME NEW chain \in Seq(Guards!Guard), NEW t, CleanUpTo(chain, Len(chain) + 1, t)
  PROVE  Guards!Clean(chain, t)
<1>1. DOMAIN chain = 1 .. Len(chain) /\ Len(chain) \in Nat
  OBVIOUS
<1>2. ASSUME NEW i \in 1 .. Len(chain), Guards!Binding(chain[i]), chain[i].finds \in t
      PROVE  Guards!BroughtIn(chain, i, chain[i].finds)
  <2>1. PICK j \in 1 .. Len(chain) : i < j /\ Guards!Repairs(chain[j]) /\ Brings(chain[j], chain[i].finds)
    BY <1>1, <1>2 DEF CleanUpTo
  <2>2. j \in (i + 1) .. Len(chain)
    BY <2>1
  <2> QED
    BY <2>1, <2>2 DEF Guards!BroughtIn, Brings
<1> QED
  BY <1>1, <1>2 DEF Guards!Clean

(* The invariant gives what the guardrails promise.                        *)
LEMMA GuardInvHolds == GuardInv => Guards!GuardsHold
<1> SUFFICES ASSUME GuardInv PROVE Guards!GuardsHold
  OBVIOUS
<1> USE DEF GuardInv
<1>1. attempt > 0 => IF asString THEN Guards!Clean(inChain, input)
                     ELSE \A i \in DOMAIN inChain :
                       Guards!Binding(inChain[i]) /\ inChain[i].finds \in input => Guards!Undone(inChain, i)
  <2>1. DOMAIN inChain = 1 .. Len(inChain) /\ Len(inChain) \in Nat
    OBVIOUS
  <2>2. CASE asString
    BY <2>2, CleanToItsEnd DEF InputOk
  <2>3. CASE ~asString
    BY <2>1, <2>3 DEF InputOk, ListUpTo, Guards!Undone
  <2> QED
    BY <2>2, <2>3
<1>2. result.kind = "served" /\ stage = "done" => Guards!Clean(outChain, result.text)
  BY CleanToItsEnd
<1>3. stage = "done" /\ "empty" \notin result.text => Guards!Caught(result.text) = {}
  OBVIOUS
<1>4. result.kind = "blocked" /\ attempt \in 1 .. MaxRetries => Guards!FirstAction # "retry"
  OBVIOUS
<1> QED
  BY <1>1, <1>2, <1>3, <1>4 DEF Guards!GuardsHold

(* Nothing has run yet.                                                    *)
LEMMA GuardsStart == Guards!Init => GuardInv
<1> SUFFICES ASSUME Guards!Init PROVE GuardInv
  OBVIOUS
<1>1. result.kind = "none" /\ stage = "before" /\ attempt = 0
  BY DEF Guards!Init, Guards!NoResult
<1>2. inChain \in Seq(Guards!Guard) /\ outChain \in Seq(Guards!Guard) /\ asString \in BOOLEAN
  BY AccessAssumption DEF Guards!Init, Guards!GuardAssumption
<1>3. at = 1 /\ text = input
  BY DEF Guards!Init
<1> QED
  BY <1>1, <1>2, <1>3 DEF GuardInv, GuardStages

(* What it takes for the result of a node.                                 *)
LEMMA EndsWith ==
  ASSUME NEW kind, NEW t, Guards!Ends(kind, t)
  PROVE  stage' = "done" /\ result'.kind = kind /\ result'.text = t
BY DEF Guards!Ends

(* What the configuration settles does not change while the node runs.     *)
LEMMA ConfigKept ==
  ASSUME Guards!Next \/ UNCHANGED guardVars
  PROVE  /\ UNCHANGED <<hooks, inChain, outChain, asString>>
         /\ Guards!FirstAction' = Guards!FirstAction
         /\ input' = input => InputOk' = InputOk
<1>1. UNCHANGED <<hooks, inChain, outChain, asString>>
  BY DEF guardVars, Guards!Next, Guards!Before, Guards!After, Guards!Pass, Guards!Fix, Guards!Raise,
         Guards!Stop, Guards!InputPassed, Guards!RunAgent, Guards!OutputPassed, Guards!config,
         Guards!Moves
<1>2. Guards!FirstAction' = Guards!FirstAction
  BY <1>1 DEF Guards!FirstAction
<1>3. input' = input => InputOk' = InputOk
  BY <1>1 DEF InputOk
<1> QED
  BY <1>1, <1>2, <1>3

(* An empty text has no flaw that a hook would catch.                      *)
LEMMA NothingCaught == Guards!Caught({}) = {}
BY DEF Guards!Caught

(* Every step keeps the invariant.                                         *)
LEMMA GuardsKept ==
  ASSUME GuardInv, Guards!Next
  PROVE  GuardInv'
<1> USE ConfigKept, NothingCaught, EndsWith DEF GuardInv, GuardStages
<1>a. \A t : Guards!Caught(t)' = Guards!Caught(t)
  BY DEF Guards!Caught
<1>1. CASE Guards!Before
  <2>1. /\ stage = "before" /\ UNCHANGED <<at, input, text, attempt>>
        /\ \/ stage' = "input" /\ result' = result
           \/ stage' = "done" /\ result'.kind \in {"raised", "refused"} /\ result'.text = {}
    BY <1>1 DEF Guards!Before, Guards!Rejects
  <2>2. CleanUpTo(inChain, 1, text) /\ ListUpTo(inChain, 1, input)
    BY DEF CleanUpTo, ListUpTo
  <2> QED
    BY <1>a, <2>1, <2>2
<1>2. CASE Guards!After
  <2>1. /\ stage = "after" /\ stage' = "done" /\ UNCHANGED <<at, input, text, attempt>>
        /\ \/ result'.kind \in {"raised", "refused"} /\ result'.text = {}
           \/ /\ result'.kind = result.kind /\ result'.text = text
              /\ "empty" \notin text => Guards!Caught(text) = {}
    BY <1>2 DEF Guards!After, Guards!Rejects
  <2> QED
    BY <1>a, <2>1
<1>3. CASE Guards!Pass
  <2>1. /\ stage \in {"input", "output"} /\ at <= Len(Guards!Chain)
        /\ Guards!Binding(Guards!Chain[at]) => Guards!Chain[at].finds \notin text
        /\ ~(Guards!Fails(Guards!Chain[at]) /\ Guards!Repairs(Guards!Chain[at]))
        /\ at' = at + 1 /\ UNCHANGED <<stage, input, text, attempt, result>>
    BY <1>3 DEF Guards!Pass, Guards!Running, Guards!Moves, Guards!Binding, Guards!Fails, Guards!Stops
  <2>2. CASE stage = "input"
    <3>1. Guards!Chain = inChain /\ at \in 1 .. Len(inChain)
      BY <2>1, <2>2 DEF Guards!Chain
    <3>2. CleanUpTo(inChain, at + 1, text)
      BY <2>1, <2>2, <3>1, CleanPasses
    <3>3. ListUpTo(inChain, at + 1, input)
      <4> SUFFICES ASSUME NEW i \in 1 .. Len(inChain), i < at + 1,
                          Guards!Binding(inChain[i]), inChain[i].finds \in input
                   PROVE  \E j \in 1 .. i : Guards!Repairs(inChain[j])
        BY DEF ListUpTo
      <4>1. CASE i < at
        BY <2>2, <4>1 DEF ListUpTo
      <4>2. CASE i = at /\ \E j \in 1 .. Len(inChain) : j < at /\ Guards!Repairs(inChain[j])
        BY <4>2
      <4>3. CASE i = at /\ \A j \in 1 .. Len(inChain) : j < at => ~Guards!Repairs(inChain[j])
        BY <2>1, <2>2, <3>1, <4>3
      <4> QED
        BY <3>1, <4>1, <4>2, <4>3
    <3> QED
      BY <2>1, <2>2, <3>2, <3>3
  <2>3. CASE stage = "output"
    <3>1. Guards!Chain = outChain /\ at \in 1 .. Len(outChain)
      BY <2>1, <2>3 DEF Guards!Chain
    <3>2. CleanUpTo(outChain, at + 1, text)
      BY <2>1, <2>3, <3>1, CleanPasses
    <3> QED
      BY <2>1, <2>3, <3>2
  <2> QED
    BY <2>1, <2>2, <2>3
<1>4. CASE Guards!Fix
  <2>1. /\ stage \in {"input", "output"} /\ at <= Len(Guards!Chain)
        /\ Guards!Repairs(Guards!Chain[at]) /\ text' \in Guards!Fixed(Guards!Chain[at], text)
        /\ at' = at + 1 /\ UNCHANGED <<stage, input, attempt, result>>
    BY <1>4 DEF Guards!Fix, Guards!Running, Guards!Moves
  <2>2. CASE stage = "input"
    <3>1. Guards!Chain = inChain /\ at \in 1 .. Len(inChain)
      BY <2>1, <2>2 DEF Guards!Chain
    <3>2. CleanUpTo(inChain, at + 1, text')
      BY <2>1, <2>2, <3>1, CleanFixed
    <3>3. ListUpTo(inChain, at + 1, input)
      BY <2>1, <2>2, <3>1 DEF ListUpTo
    <3>4. ~\A j \in 1 .. Len(inChain) : j < at + 1 => ~Guards!Repairs(inChain[j])
      BY <2>1, <3>1
    <3> QED
      BY <2>1, <2>2, <3>2, <3>3, <3>4
  <2>3. CASE stage = "output"
    <3>1. Guards!Chain = outChain /\ at \in 1 .. Len(outChain)
      BY <2>1, <2>3 DEF Guards!Chain
    <3>2. CleanUpTo(outChain, at + 1, text')
      BY <2>1, <2>3, <3>1, CleanFixed
    <3> QED
      BY <2>1, <2>3, <3>2
  <2> QED
    BY <2>1, <2>2, <2>3
<1>5. CASE Guards!Raise
  <2>1. /\ stage' = "done" /\ result'.kind = "raised" /\ result'.text = {}
        /\ UNCHANGED <<at, input, attempt>> /\ stage \in {"input", "output"}
    BY <1>5 DEF Guards!Raise, Guards!Running
  <2> QED
    BY <1>a, <2>1
<1>6. CASE Guards!Stop
  <2>1. stage \in {"input", "output"} /\ UNCHANGED <<at, input, attempt>>
    BY <1>6 DEF Guards!Stop, Guards!Running
  <2>2. CASE stage = "output" /\ Guards!FirstAction = "retry" /\ attempt <= MaxRetries
    <3>1. stage' = "agent" /\ UNCHANGED <<text, result>>
      BY <1>6, <2>2 DEF Guards!Stop
    <3> QED
      BY <2>1, <2>2, <3>1
  <2>3. CASE ~(stage = "output" /\ Guards!FirstAction = "retry" /\ attempt <= MaxRetries)
    <3>1. stage' = "after" /\ result'.kind = "blocked"
      BY <1>6, <2>3 DEF Guards!Stop
    <3>2. attempt \in 1 .. MaxRetries => Guards!FirstAction # "retry"
      BY <2>1, <2>3
    <3> QED
      BY <2>1, <3>1, <3>2
  <2> QED
    BY <2>2, <2>3
<1>7. CASE Guards!InputPassed
  <2>1. /\ stage = "input" /\ at > Len(inChain) /\ stage' = "agent"
        /\ input' = IF asString THEN text ELSE input
        /\ UNCHANGED <<at, text, attempt, result>>
    BY <1>7 DEF Guards!InputPassed
  <2>2. Len(inChain) \in Nat
    OBVIOUS
  <2>3. /\ CleanUpTo(inChain, Len(inChain) + 1, text)
        /\ ListUpTo(inChain, Len(inChain) + 1, input)
    <3>1. \A i \in 1 .. Len(inChain) : i < at
      BY <2>1, <2>2
    <3>2. CleanUpTo(inChain, Len(inChain) + 1, text)
      BY <2>1, <2>2, <3>1 DEF CleanUpTo
    <3>3. ListUpTo(inChain, Len(inChain) + 1, input)
      BY <2>1, <2>2, <3>1 DEF ListUpTo
    <3> QED
      BY <3>2, <3>3
  <2>4. InputOk'
    BY <2>1, <2>3 DEF InputOk
  <2> QED
    BY <2>1, <2>4
<1>8. CASE Guards!RunAgent
  <2>1. /\ stage = "agent" /\ stage' = "output" /\ attempt' = attempt + 1 /\ at' = 1
        /\ UNCHANGED <<input, result>>
    BY <1>8 DEF Guards!RunAgent
  <2>2. CleanUpTo(outChain, 1, text')
    BY DEF CleanUpTo
  <2> QED
    BY <2>1, <2>2
<1>9. CASE Guards!OutputPassed
  <2>1. /\ stage = "output" /\ at > Len(outChain) /\ stage' = "after" /\ result'.kind = "served"
        /\ UNCHANGED <<at, input, text, attempt>>
    BY <1>9 DEF Guards!OutputPassed
  <2>2. CleanUpTo(outChain, Len(outChain) + 1, text)
    <3>1. \A i \in 1 .. Len(outChain) : i < at
      BY <2>1
    <3> QED
      BY <2>1, <3>1 DEF CleanUpTo
  <2> QED
    BY <2>1, <2>2
<1> QED
  BY <1>1, <1>2, <1>3, <1>4, <1>5, <1>6, <1>7, <1>8, <1>9 DEF Guards!Next

(* For any chains, any hooks and any texts: what the agent is given and    *)
(* what the node serves is free of what its guardrails bind, but for what  *)
(* a later fix brings in; no hook is passed by what it would catch; and no *)
(* output is blocked while its chain still asks for another attempt.       *)
THEOREM GuardsDoHold == MCSpec => []GuardsHold
<1> DEFINE Held == part = "guards" => GuardInv
<1>1. MCInit => Held
  BY GuardsStart DEF MCInit
<1>2. Held /\ [MCNext]_allVars => Held'
  <2> SUFFICES ASSUME Held, [MCNext]_allVars, part' = "guards" PROVE GuardInv'
    OBVIOUS
  <2>1. part = "guards" /\ GuardInv
    BY DEF MCNext, allVars
  <2>2. CASE Guards!Next
    BY <2>1, <2>2, GuardsKept
  <2>3. CASE UNCHANGED guardVars
    <3>1. /\ UNCHANGED <<stage, at, input, text, attempt, result>>
          /\ UNCHANGED <<hooks, inChain, outChain, asString>>
      BY <2>3 DEF guardVars
    <3>2. InputOk' = InputOk /\ Guards!FirstAction' = Guards!FirstAction
      BY <2>3, <3>1, ConfigKept
    <3>3. \A t : Guards!Caught(t)' = Guards!Caught(t)
      BY <3>1 DEF Guards!Caught
    <3> QED
      BY <2>1, <3>1, <3>2, <3>3 DEF GuardInv
  <2> QED
    BY <2>1, <2>2, <2>3 DEF MCNext, allVars
<1>3. Held => GuardsHold
  BY GuardInvHolds DEF GuardsHold
<1> QED
  BY <1>1, <1>2, <1>3, PTL DEF MCSpec

-----------------------------------------------------------------------------
(***************************************************************************)
(* Cards.  Of every identity the best card is kept first, and all below it *)
(* are older.                                                              *)
(***************************************************************************)
AnyCard == [did : Dids, version : 1 .. LastVersion, type : Types, expires : Nat,
         by : Dids \cup {"nobody"}]

(* What is kept of an identity: fewer than MaxCards cards below the best.  *)
BestFirst(kept) ==
  \A i \in 2 .. Len(kept) : kept[i].version < kept[1].version

CardInv ==
  /\ hour \in Nat
  /\ cards \in [Dids -> Seq(AnyCard)]
  /\ \A d \in Dids : BestFirst(cards[d])

LEMMA CreatedAreCards ==
  ASSUME CardInv
  PROVE  Created \subseteq AnyCard
<1>1. \A h \in 0 .. hour : h + Term \in Nat
  BY CardAssumption DEF CardInv
<1>2. {h + Term : h \in 0 .. hour} \subseteq Nat
  BY <1>1
<1> QED BY <1>2 DEF Created, AnyCard

LEMMA LesserOfTwo ==
  ASSUME NEW a \in Nat, NEW b \in Nat
  PROVE  Min({a, b}) \in {a, b} /\ Min({a, b}) <= a /\ Min({a, b}) <= b
<1>1. \E x \in {a, b} : \A y \in {a, b} : x <= y
  <2>1. CASE a <= b
    BY <2>1
  <2>2. CASE b <= a
    BY <2>2
  <2> QED BY <2>1, <2>2
<1> QED BY <1>1 DEF Min

(* A card that is not stale goes first, and all below it are older.        *)
LEMMA KeptBestFirst ==
  ASSUME NEW card \in AnyCard, NEW kept \in Seq(AnyCard), BestFirst(kept),
         ~Stale(card, kept)
  PROVE  /\ Kept(card, kept) \in Seq(AnyCard) /\ Kept(card, kept) # << >>
         /\ Kept(card, kept)[1] = card /\ Len(Kept(card, kept)) <= MaxCards
         /\ BestFirst(Kept(card, kept))
         /\ kept # << >> => kept[1].version <= card.version
<1>0. /\ card.version \in Nat /\ \A i \in 1 .. Len(kept) : kept[i] \in AnyCard /\ kept[i].version \in Nat
      /\ Len(kept) \in Nat
  <2>1. \A c \in AnyCard : c.version \in Nat
    BY CardAssumption DEF AnyCard
  <2>2. \A i \in 1 .. Len(kept) : kept[i] \in AnyCard
    BY ElementOfSeq
  <2> QED BY <2>1, <2>2
<1>1. kept # << >> => kept[1].version <= card.version
  BY <1>0 DEF Stale
<1> DEFINE rest == Replaced(card, kept)
           all == <<card>> \o rest
           n == Min({MaxCards, Len(all)})
<1>2. rest \in Seq(AnyCard) /\ \A i \in 1 .. Len(rest) : rest[i].version < card.version
  <2>1. CASE kept = << >>
    BY <2>1 DEF Replaced
  <2>2. CASE kept # << >> /\ kept[1].version = card.version
    <3>1. rest = Tail(kept)
      BY <2>2 DEF Replaced
    <3>2. rest \in Seq(AnyCard) /\ Len(rest) = Len(kept) - 1
      BY <2>2, <3>1
    <3>3. ASSUME NEW i \in 1 .. Len(rest) PROVE rest[i].version < card.version
      <4>1. rest[i] = kept[i + 1] /\ i + 1 \in 2 .. Len(kept)
        BY <1>0, <2>2, <3>1, <3>2
      <4> QED BY <2>2, <4>1 DEF BestFirst
    <3> QED BY <3>2, <3>3
  <2>3. CASE kept # << >> /\ kept[1].version # card.version
    <3>1. rest = kept
      BY <2>3 DEF Replaced
    <3>2. kept[1].version < card.version
      BY <1>0, <1>1, <2>3
    <3>3. ASSUME NEW i \in 1 .. Len(kept) PROVE kept[i].version < card.version
      <4>1. CASE i = 1
        BY <3>2, <4>1
      <4>2. CASE i # 1
        <5>1. i \in 2 .. Len(kept)
          BY <1>0, <4>2
        <5> QED BY <1>0, <3>2, <5>1 DEF BestFirst
      <4> QED BY <4>1, <4>2
    <3> QED BY <3>1, <3>3
  <2> QED BY <2>1, <2>2, <2>3
<1> HIDE DEF rest
<1>3. /\ all \in Seq(AnyCard) /\ Len(all) = Len(rest) + 1 /\ Len(rest) \in Nat
      /\ all[1] = card /\ \A i \in 2 .. Len(all) : all[i] = rest[i - 1]
  BY <1>2
<1> HIDE DEF all
<1>4. n \in Nat /\ n >= 1 /\ n <= MaxCards /\ n <= Len(all)
  BY <1>3, LesserOfTwo, CardAssumption
<1> HIDE DEF n
<1>5. /\ SubSeq(all, 1, n) \in Seq(AnyCard) /\ Len(SubSeq(all, 1, n)) = n
      /\ \A i \in 1 .. n : SubSeq(all, 1, n)[i] = all[i]
  BY <1>3, <1>4
<1>6. Kept(card, kept) = SubSeq(all, 1, n)
  BY DEF Kept, all, rest, n
<1>7. ASSUME NEW i \in 2 .. n PROVE SubSeq(all, 1, n)[i].version < SubSeq(all, 1, n)[1].version
  <2>1. i \in 1 .. n /\ i \in 2 .. Len(all) /\ i - 1 \in 1 .. Len(rest) /\ 1 \in 1 .. n
    BY <1>3, <1>4
  <2>2. SubSeq(all, 1, n)[i] = rest[i - 1] /\ SubSeq(all, 1, n)[1] = card
    BY <1>3, <1>5, <2>1
  <2> QED BY <1>2, <2>1, <2>2
<1>8. BestFirst(Kept(card, kept))
  BY <1>5, <1>6, <1>7 DEF BestFirst
<1>9. Kept(card, kept) # << >> /\ Kept(card, kept)[1] = card /\ Len(Kept(card, kept)) <= MaxCards
  <2>1. 1 \in 1 .. n
    BY <1>4
  <2>2. Len(Kept(card, kept)) = n
    BY <1>5, <1>6
  <2>3. Kept(card, kept) # << >>
    BY <1>4, <2>2
  <2> QED BY <1>3, <1>4, <1>5, <1>6, <2>1, <2>2, <2>3
<1> QED BY <1>1, <1>5, <1>6, <1>8, <1>9

(* What register does to the cards.                                        *)
Accepts(card) ==
  /\ ~Stale(card, cards[card.did]) /\ card.by = card.did /\ hour <= card.expires
  /\ cards' = [cards EXCEPT ![card.did] = Kept(card, @)]

LEMMA RegisterAccepts ==
  ASSUME CardInv, NEW card \in Created, NEW given \in {"none", card.did},
         Register(card, given)
  PROVE  hour' = hour /\ (cards' = cards \/ Accepts(card))
<1>1. card \in AnyCard /\ hour \in Nat /\ card.expires \in Nat
  BY CreatedAreCards DEF CardInv, AnyCard
<1> DEFINE key == IF given = "none" THEN card.did ELSE given
<1>2. key = card.did
  OBVIOUS
<1>3. hour' = hour
  BY DEF Register
<1>4. CASE card.by = "nobody"
  BY <1>3, <1>4 DEF Register
<1>5. CASE card.by # "nobody" /\ given = "none" /\ ~Resolves(card.did)
  BY <1>3, <1>5 DEF Register
<1>6. CASE card.by # "nobody" /\ ~(given = "none" /\ ~Resolves(card.did))
  <2>1. IF ~VerifiesWith(card, key) \/ IsExpired(card) \/ Stale(card, cards[card.did])
        THEN cards' = cards
        ELSE cards' = [cards EXCEPT ![card.did] = Kept(card, @)]
    BY <1>6 DEF Register, Answer
  <2> QED BY <1>1, <1>2, <1>3, <2>1 DEF Accepts, VerifiesWith, IsExpired
<1> QED BY <1>4, <1>5, <1>6

LEMMA CardsStart == Init => CardInv
<1>1. << >> \in Seq(AnyCard) /\ Len(<< >>) = 0
  OBVIOUS
<1> QED BY <1>1 DEF Init, CardInv, BestFirst

LEMMA CardsKept == ASSUME CardInv, [Next]_cVars PROVE CardInv'
<1>1. CASE UNCHANGED cVars
  BY <1>1 DEF cVars, CardInv
<1>2. CASE Hour
  BY <1>2 DEF Hour, CardInv
<1>3. ASSUME NEW card \in Created, NEW given \in {"none", card.did}, Register(card, given)
      PROVE  CardInv'
  <2>1. CASE cards' = cards
    BY <1>3, <2>1, RegisterAccepts DEF CardInv
  <2>2. CASE Accepts(card)
    <3>1. card \in AnyCard /\ card.did \in Dids
      BY CreatedAreCards DEF AnyCard
    <3>2. cards[card.did] \in Seq(AnyCard) /\ BestFirst(cards[card.did])
      BY <3>1 DEF CardInv
    <3>3. Kept(card, cards[card.did]) \in Seq(AnyCard) /\ BestFirst(Kept(card, cards[card.did]))
      BY <2>2, <3>1, <3>2, KeptBestFirst DEF Accepts
    <3>4. hour' = hour
      BY <1>3, RegisterAccepts
    <3> QED BY <2>2, <3>1, <3>3, <3>4 DEF Accepts, CardInv
  <2> QED BY <1>3, <2>1, <2>2, RegisterAccepts
<1>4. ASSUME NEW card \in Created, NEW key \in Dids, Validate(card, key) PROVE CardInv'
  BY <1>4 DEF Validate, CardInv
<1>5. ASSUME NEW d \in Dids, RemoveDid(d) PROVE CardInv'
  <2>1. << >> \in Seq(AnyCard) /\ BestFirst(<< >>)
    BY DEF BestFirst
  <2> QED BY <1>5, <2>1 DEF RemoveDid, CardInv
<1>6. ASSUME NEW d \in Dids, Bar(d) \/ Unbar(d) PROVE CardInv'
  BY <1>6 DEF Bar, Unbar, CardInv
<1> QED BY <1>1, <1>2, <1>3, <1>4, <1>5, <1>6 DEF Next

(* Where no card changes, and where an accepted one does.                  *)
ListedByType ==
  \A type \in Types, card \in UNION {LookupByType(u) : u \in Types} :
    card \in LookupByType(type) <=> card.type = type

Ahead(d) ==
  /\ cards[d] # <<>> /\ cards'[d] # <<>> => cards'[d][1].version >= cards[d][1].version
  /\ cards'[d] # cards[d] /\ cards'[d] # <<>> =>
       /\ Len(cards'[d]) <= MaxCards
       /\ \A i \in 2 .. Len(cards'[d]) : cards'[d][i].version < cards'[d][1].version
       /\ cards'[d][1].by = d /\ hour <= cards'[d][1].expires

LEMMA Listing == ListedByType
BY DEF ListedByType, LookupByType, Lookup

LEMMA SameIsAhead ==
  ASSUME CardInv, NEW d \in Dids, cards'[d] = cards[d] \/ cards'[d] = << >>
  PROVE  Ahead(d)
<1>1. cards[d] # << >> => cards[d][1].version \in Nat
  <2>1. cards[d] \in Seq(AnyCard)
    BY DEF CardInv
  <2>2. ASSUME cards[d] # << >> PROVE cards[d][1] \in AnyCard
    BY <2>1, <2>2, ElementOfSeq
  <2> QED BY <2>2, CardAssumption DEF AnyCard
<1> QED BY <1>1 DEF Ahead

LEMMA AcceptedIsAhead ==
  ASSUME CardInv, NEW card \in Created, Accepts(card), NEW d \in Dids
  PROVE  Ahead(d)
<1>1. card \in AnyCard /\ card.did \in Dids
  BY CreatedAreCards DEF AnyCard
<1>2. CASE d # card.did
  BY <1>2, SameIsAhead DEF Accepts, CardInv
<1>3. CASE d = card.did
  <2>1. cards[d] \in Seq(AnyCard) /\ BestFirst(cards[d]) /\ ~Stale(card, cards[d])
    BY <1>1, <1>3 DEF CardInv, Accepts
  <2>2. cards'[d] = Kept(card, cards[d])
    BY <1>1, <1>3 DEF Accepts, CardInv
  <2>3. /\ cards'[d][1] = card /\ Len(cards'[d]) <= MaxCards /\ BestFirst(cards'[d])
        /\ cards[d] # << >> => cards[d][1].version <= card.version
    BY <1>1, <2>1, <2>2, KeptBestFirst
  <2>4. card.version \in Nat /\ (cards[d] # << >> => cards[d][1].version \in Nat)
    <3>1. ASSUME cards[d] # << >> PROVE cards[d][1] \in AnyCard
      BY <2>1, <3>1, ElementOfSeq
    <3> QED BY <1>1, <3>1, CardAssumption DEF AnyCard
  <2>5. cards[d] # << >> => cards'[d][1].version >= cards[d][1].version
    BY <2>3, <2>4
  <2>6. cards'[d][1].by = d /\ hour <= cards'[d][1].expires
    BY <1>3, <2>3 DEF Accepts
  <2> QED BY <2>3, <2>5, <2>6 DEF Ahead, BestFirst
<1> QED BY <1>2, <1>3

LEMMA StepAdvances == ASSUME CardInv, [Next]_cVars PROVE [Advances]_cVars
<1> SUFFICES ASSUME Next PROVE Advances
  OBVIOUS
<1> SUFFICES ASSUME NEW d \in Dids PROVE Ahead(d)
  BY Listing DEF Advances, Ahead, ListedByType
<1>1. CASE cards' = cards
  BY <1>1, SameIsAhead
<1>2. ASSUME NEW card \in Created, NEW given \in {"none", card.did}, Register(card, given)
      PROVE  Ahead(d)
  BY <1>1, <1>2, RegisterAccepts, AcceptedIsAhead
<1>3. ASSUME NEW e \in Dids, RemoveDid(e) PROVE Ahead(d)
  BY <1>3, SameIsAhead DEF RemoveDid, CardInv
<1>4. ASSUME NEW card \in Created, NEW key \in Dids, Validate(card, key) PROVE Ahead(d)
  BY <1>1, <1>4 DEF Validate
<1>5. ASSUME NEW e \in Dids, Bar(e) \/ Unbar(e) PROVE Ahead(d)
  BY <1>1, <1>5 DEF Bar, Unbar
<1>6. CASE Hour
  BY <1>1, <1>6 DEF Hour
<1> QED BY <1>2, <1>3, <1>4, <1>5, <1>6 DEF Next

(* discovery.py: whatever cards arrive in whatever order, the card that is *)
(* looked up never goes back to an older version, was signed by its        *)
(* identity and had not expired when it was registered.                    *)
THEOREM CardsAdvance == Spec => CardsOnlyAdvance
<1>1. Spec => []CardInv
  BY CardsStart, CardsKept, PTL DEF Spec
<1> QED BY <1>1, StepAdvances, PTL DEF Spec, CardsOnlyAdvance

-----------------------------------------------------------------------------
(***************************************************************************)
(* Delegated authority.  Covering is transitive because a wildcard is only *)
(* ever the last part of a path, so that each token of a chain of proofs   *)
(* narrows every one before it.                                            *)
(***************************************************************************)
Claimed == Tokens!Caps
Token == [iss : Agents, aud : Agents, att : SUBSET Claimed, nbf : Int, exp : Int,
          form : {"jwt", "json"}, proofs : Seq(Nat)]
TokenInv ==
  /\ now \in Int /\ tokens \in Seq(Token)
  /\ \A t \in 1 .. Len(tokens) : tokens[t].form = "json" =>
       /\ Len(tokens[t].proofs) \in {1, 2}
       /\ \A i \in 1 .. Len(tokens[t].proofs) : tokens[t].proofs[i] \in 1 .. Len(tokens)

Words == STRING \cup Tools \cup {"tools"}
LEMMA PathParts ==
  ASSUME NEW r, Tokens!IsPath(r)
  PROVE  /\ r \in Seq(Words) /\ r # <<>> /\ Len(r) \in Nat /\ Len(r) >= 1
         /\ \A i \in 1 .. (Len(r) - 1) : r[i] # "*"
<1>1. r \in Seq(STRING) /\ r # <<>> /\ \A i \in 1 .. (Len(r) - 1) : r[i] # "*"
  BY DEF Tokens!IsPath
<1>2. \A R, S : R \subseteq S => Seq(R) \subseteq Seq(S)
  OBVIOUS
<1>3. STRING \subseteq Words
  BY DEF Words
<1>4. r \in Seq(Words)
  BY <1>1, <1>2, <1>3
<1>5. \A s \in Seq(Words) : s # <<>> => Len(s) \in Nat /\ Len(s) >= 1
  OBVIOUS
<1> QED
  BY <1>1, <1>4, <1>5

LEMMA PrefixIs ==
  ASSUME NEW r \in Seq(Words), NEW s \in Seq(Words)
  PROVE  Tokens!IsPrefix(r, s) <=> Len(r) <= Len(s) /\ \A i \in 1 .. Len(r) : r[i] = s[i]
<1> USE DEF Tokens!IsPrefix
<1>0. Len(r) \in Nat /\ Len(s) \in Nat
  OBVIOUS
<1>1. ASSUME Len(r) <= Len(s)
      PROVE  SubSeq(r, 1, Len(r)) = SubSeq(s, 1, Len(r)) <=> \A i \in 1 .. Len(r) : r[i] = s[i]
  <2>1. /\ SubSeq(s, 1, Len(r)) \in Seq(Words) /\ Len(SubSeq(s, 1, Len(r))) = Len(r)
        /\ \A i \in 1 .. Len(r) : SubSeq(s, 1, Len(r))[i] = s[i]
    BY <1>0, <1>1
  <2>2. /\ SubSeq(r, 1, Len(r)) \in Seq(Words) /\ Len(SubSeq(r, 1, Len(r))) = Len(r)
        /\ \A i \in 1 .. Len(r) : SubSeq(r, 1, Len(r))[i] = r[i]
    BY <1>0
  <2>3. ASSUME NEW p \in Seq(Words), NEW q \in Seq(Words), Len(p) = Len(q),
               \A i \in 1 .. Len(p) : p[i] = q[i]
        PROVE  p = q
    BY <2>3
  <2> QED
    BY <2>1, <2>2, <2>3
<1> QED
  BY <1>0, <1>1

(* A wildcard, and what is below it, by the parts of their paths.          *)
LEMMA WithinIs ==
  ASSUME NEW p \in Seq(Words), p # <<>>, NEW r \in Seq(Words)
  PROVE  Tokens!Within(r, p) <=> Len(p) - 1 <= Len(r) /\ \A i \in 1 .. (Len(p) - 1) : p[i] = r[i]
<1>1. /\ Tokens!Front(p) \in Seq(Words) /\ Len(Tokens!Front(p)) = Len(p) - 1
      /\ \A i \in 1 .. (Len(p) - 1) : Tokens!Front(p)[i] = p[i]
  <2>1. Len(p) \in Nat /\ Len(p) >= 1
    OBVIOUS
  <2>2. Tokens!Front(p) = SubSeq(p, 1, Len(p) - 1)
    BY DEF Tokens!Front
  <2>3. /\ SubSeq(p, 1, Len(p) - 1) \in Seq(Words)
        /\ Len(SubSeq(p, 1, Len(p) - 1)) = Len(p) - 1
        /\ \A i \in 1 .. (Len(p) - 1) : SubSeq(p, 1, Len(p) - 1)[i] = p[i]
    <3>1. \A i \in 1 .. (Len(p) - 1) : p[i] \in Words
      BY <2>1
    <3>2. \A k \in Int : (\A i \in 1 .. k : p[i] \in Words) /\ k >= 0 =>
             /\ SubSeq(p, 1, k) \in Seq(Words) /\ Len(SubSeq(p, 1, k)) = k
             /\ \A i \in 1 .. k : SubSeq(p, 1, k)[i] = p[i]
      BY SubSeqProperties
    <3>3. Len(p) - 1 \in Int /\ Len(p) - 1 >= 0
      BY <2>1
    <3> DEFINE k == Len(p) - 1
    <3> HIDE DEF k
    <3>4. k \in Int /\ k >= 0 /\ \A i \in 1 .. k : p[i] \in Words
      BY <3>1, <3>3 DEF k
    <3>5. /\ SubSeq(p, 1, k) \in Seq(Words) /\ Len(SubSeq(p, 1, k)) = k
          /\ \A i \in 1 .. k : SubSeq(p, 1, k)[i] = p[i]
      BY <3>2, <3>4
    <3> QED
      BY <3>5 DEF k
  <2> QED
    BY <2>2, <2>3
<1> QED
  BY <1>1, PrefixIs DEF Tokens!Within

LEMMA CoversAll ==
  ASSUME NEW p, NEW q, NEW c, Tokens!IsPath(p.resource), Tokens!IsPath(q.resource),
         c.resource \in Seq(Words), Tokens!Covers(p, q), Tokens!Covers(q, c)
  PROVE  Tokens!Covers(p, c)
<1> DEFINE P == p.resource
           Q == q.resource
           C == c.resource
<1>1. /\ P \in Seq(Words) /\ P # <<>> /\ Len(P) \in Nat /\ Len(P) >= 1
      /\ \A i \in 1 .. (Len(P) - 1) : P[i] # "*"
      /\ Q \in Seq(Words) /\ Q # <<>> /\ Len(Q) \in Nat /\ Len(Q) >= 1
      /\ C \in Seq(Words) /\ Len(C) \in Nat
  BY PathParts
<1>2. Tokens!AbilityOk(p.ability, c.ability)
  BY DEF Tokens!Covers, Tokens!AbilityOk
<1>3. ASSUME P # Tokens!AllTools PROVE P = C \/ (Tokens!IsWild(P) /\ Tokens!Within(C, P))
  <2>1. CASE P = Q
    BY <1>3, <2>1 DEF Tokens!Covers
  <2>2. CASE P # Q
    <3>1. Tokens!IsWild(P) /\ Tokens!Within(Q, P)
      BY <1>3, <2>2 DEF Tokens!Covers
    <3>2. /\ P[Len(P)] = "*" /\ Len(P) - 1 <= Len(Q)
          /\ \A i \in 1 .. (Len(P) - 1) : P[i] = Q[i]
      BY <1>1, <3>1, WithinIs DEF Tokens!IsWild, Tokens!Last
    <3>3. CASE Q = C
      BY <3>1, <3>3
    <3>4. CASE Q = Tokens!AllTools
      <4>1. Len(Q) = 2 /\ Q[1] = "tools" /\ Q[2] = "*" /\ "tools" # "*"
        BY <3>4 DEF Tokens!AllTools
      <4>2. Len(P) \in {1, 2, 3}
        <5> HIDE DEF P, Q, C
        <5>1. Len(P) \in Nat /\ Len(P) >= 1 /\ Len(P) - 1 <= 2
          BY <1>1, <3>2, <4>1
        <5>2. \A n \in Nat : n >= 1 /\ n - 1 <= 2 => n \in {1, 2, 3}
          OBVIOUS
        <5> QED
          BY <5>1, <5>2
      <4>3. Len(P) # 3
        <5>1. ASSUME Len(P) = 3 PROVE FALSE
          <6>1. 2 \in 1 .. (Len(P) - 1)
            BY <5>1
          <6>2. P[2] = "*" /\ P[2] # "*"
            BY <1>1, <3>2, <4>1, <6>1
          <6> QED
            BY <6>2
        <5> QED
          BY <5>1
      <4>4. Len(P) # 2
        <5>1. ASSUME Len(P) = 2 PROVE P = Tokens!AllTools
          <6>1. P[1] = "tools" /\ P[2] = "*"
            BY <3>2, <4>1, <5>1
          <6>2. \A s \in Seq(Words) : Len(s) = 2 => s = <<s[1], s[2]>>
            OBVIOUS
          <6> QED
            BY <1>1, <5>1, <6>1, <6>2 DEF Tokens!AllTools
        <5> QED
          BY <1>3, <5>1
      <4>5. Len(P) = 1
        BY <4>2, <4>3, <4>4
      <4>6. Tokens!Within(C, P)
        <5>1. Len(P) - 1 <= Len(C) /\ \A i \in 1 .. (Len(P) - 1) : P[i] = C[i]
          BY <1>1, <4>5
        <5> HIDE DEF P, C
        <5> QED
          BY <1>1, <5>1, WithinIs
      <4> QED
        BY <3>1, <4>6
    <3>5. CASE Q # C /\ Q # Tokens!AllTools
      <4>1. Tokens!IsWild(Q) /\ Tokens!Within(C, Q)
        BY <3>5 DEF Tokens!Covers
      <4>2. /\ Q[Len(Q)] = "*" /\ Len(Q) - 1 <= Len(C)
            /\ \A i \in 1 .. (Len(Q) - 1) : Q[i] = C[i]
        BY <1>1, <4>1, WithinIs DEF Tokens!IsWild, Tokens!Last
      <4>3. Len(P) - 1 # Len(Q)
        BY <1>1, <3>2, <4>2
      <4>4. Len(P) - 1 <= Len(C) /\ \A i \in 1 .. (Len(P) - 1) : P[i] = C[i]
        BY <1>1, <3>2, <4>2, <4>3
      <4> QED
        BY <1>1, <3>1, <4>4, WithinIs
    <3> QED
      BY <3>3, <3>4, <3>5
  <2> QED
    BY <2>1, <2>2
<1> QED
  BY <1>2, <1>3 DEF Tokens!Covers

LEMMA ClaimedPaths == \A c \in Claimed : Tokens!IsPath(c.resource)
BY AccessAssumption DEF Tokens!ToolAccessAssumption, Claimed, Tokens!Caps

LEMMA NarrowsAll ==
  ASSUME NEW S \in SUBSET Claimed, NEW T \in SUBSET Claimed, NEW U \in SUBSET Claimed,
         Tokens!Narrows(S, T), Tokens!Narrows(T, U)
  PROVE  Tokens!Narrows(S, U)
<1> SUFFICES ASSUME NEW c \in U PROVE \E p \in S : Tokens!Covers(p, c)
  BY DEF Tokens!Narrows
<1>1. PICK q \in T : Tokens!Covers(q, c)
  BY DEF Tokens!Narrows
<1>2. PICK p \in S : Tokens!Covers(p, q)
  BY DEF Tokens!Narrows
<1>3. Tokens!IsPath(p.resource) /\ Tokens!IsPath(q.resource) /\ c.resource \in Seq(Words)
  BY ClaimedPaths, PathParts
<1> QED
  BY <1>1, <1>2, <1>3, CoversAll

LEMMA NarrowsItself == ASSUME NEW S PROVE Tokens!Narrows(S, S)
BY DEF Tokens!Narrows, Tokens!Covers, Tokens!AbilityOk

-----------------------------------------------------------------------------
LEMMA TokenParts ==
  ASSUME TokenInv, NEW t \in DOMAIN tokens
  PROVE  /\ t \in 1 .. Len(tokens) /\ tokens[t] \in Token /\ tokens[t].att \in SUBSET Claimed
         /\ tokens[t].proofs \in Seq(Nat)
<1>1. \A R, s : s \in Seq(R) /\ t \in DOMAIN s => s[t] \in R /\ t \in 1 .. Len(s)
  OBVIOUS
<1>2. tokens[t] \in Token /\ t \in 1 .. Len(tokens)
  BY <1>1 DEF TokenInv
<1> QED
  BY <1>2 DEF Token

(* Every proof of a token is narrowed by it, when its chain widens nowhere.*)
LEMMA ChainNarrows ==
  ASSUME TokenInv, NEW t \in DOMAIN tokens, ~Tokens!Widens(Tokens!Chain(t)),
         NEW p \in Tokens!ToSet(Tokens!Chain(t))
  PROVE  p \in DOMAIN tokens /\ Tokens!Narrows(tokens[p].att, tokens[t].att)
<1> DEFINE ps == tokens[t].proofs
           chain == Tokens!Chain(t)
<1>0. DOMAIN tokens = 1 .. Len(tokens)
  BY DEF TokenInv
<1>1. t \in 1 .. Len(tokens) /\ tokens[t].att \in SUBSET Claimed /\ ps \in Seq(Nat)
  BY TokenParts
<1>2. PICK i \in DOMAIN chain : p = chain[i]
  BY DEF Tokens!ToSet
<1>3. CASE tokens[t].form # "json"
  <2>1. chain = <<t>>
    BY <1>3 DEF Tokens!Chain
  <2>2. p = t
    BY <1>2, <2>1
  <2> QED
    BY <2>2, NarrowsItself
<1>4. CASE tokens[t].form = "json"
  <2>1. /\ Len(ps) \in {1, 2} /\ \A k \in 1 .. Len(ps) : ps[k] \in 1 .. Len(tokens)
        /\ chain = Append(ps, t)
    BY <1>1, <1>4 DEF TokenInv, Tokens!Chain
  <2> HIDE DEF ps
  <2>2. /\ Len(chain) = Len(ps) + 1 /\ chain[Len(ps) + 1] = t /\ DOMAIN chain = 1 .. (Len(ps) + 1)
        /\ \A k \in 1 .. Len(ps) : chain[k] = ps[k]
    <3> HIDE DEF chain
    <3> QED
      BY <1>1, <2>1
  <2>3. \A k \in 1 .. (Len(chain) - 1) : Tokens!Narrows(tokens[chain[k]].att, tokens[chain[k + 1]].att)
    BY DEF Tokens!Widens
  <2> HIDE DEF chain
  <2>4. \A k \in DOMAIN chain : chain[k] \in DOMAIN tokens
    BY <1>0, <1>1, <2>1, <2>2
  <2>5. \A k \in DOMAIN chain : tokens[chain[k]].att \in SUBSET Claimed
    BY <2>4, TokenParts
  <2>6. CASE i = Len(ps) + 1
    BY <1>0, <1>1, <1>2, <2>2, <2>6, NarrowsItself
  <2>7. CASE i = Len(ps)
    <3>1. Tokens!Narrows(tokens[chain[i]].att, tokens[chain[i + 1]].att) /\ chain[i + 1] = t
      BY <2>1, <2>2, <2>3, <2>7
    <3> QED
      BY <1>2, <2>4, <3>1
  <2>8. CASE i = 1 /\ Len(ps) = 2
    <3>1. Tokens!Narrows(tokens[chain[1]].att, tokens[chain[2]].att)
          /\ Tokens!Narrows(tokens[chain[2]].att, tokens[chain[3]].att) /\ chain[3] = t
      BY <2>2, <2>3, <2>8
    <3>2. 1 \in DOMAIN chain /\ 2 \in DOMAIN chain /\ 3 \in DOMAIN chain
      BY <2>2, <2>8
    <3>3. Tokens!Narrows(tokens[chain[1]].att, tokens[chain[3]].att)
      BY <2>5, <3>1, <3>2, NarrowsAll
    <3> QED
      BY <1>2, <2>4, <2>8, <3>1, <3>3
  <2> QED
    BY <1>2, <2>1, <2>2, <2>6, <2>7, <2>8
<1> QED
  BY <1>3, <1>4

LEMMA AuthorityHolds == TokenInv => Tokens!AuthorityNarrows
<1> SUFFICES ASSUME TokenInv, NEW t \in DOMAIN tokens, NEW tool \in Tools,
                    Tokens!IsAuthorized(tool, t, tokens[t].aud) = "yes", tokens[t].form = "json",
                    NEW p \in Tokens!ToSet(tokens[t].proofs)
             PROVE  /\ Tokens!Narrows(tokens[p].att, tokens[t].att)
                    /\ \E c \in tokens[p].att :
                         Tokens!Covers(c, [resource |-> <<"tools", tool>>, ability |-> "tool/invoke"])
  BY DEF Tokens!AuthorityNarrows
<1> DEFINE wanted == [resource |-> <<"tools", tool>>, ability |-> "tool/invoke"]
<1>1. PICK c \in tokens[t].att : Tokens!Names(c, tool)
  BY DEF Tokens!IsAuthorized
<1>2. ~Tokens!Widens(Tokens!Chain(t))
  BY DEF Tokens!IsAuthorized
<1>0. p \in Tokens!ToSet(Tokens!Chain(t))
  <2>1. tokens[t].proofs \in Seq(Nat) /\ t \in Nat
    BY TokenParts
  <2>2. \A s \in Seq(Nat), n \in Nat : \A k \in DOMAIN s : k \in DOMAIN Append(s, n) /\ Append(s, n)[k] = s[k]
    OBVIOUS
  <2>3. Tokens!Chain(t) = Append(tokens[t].proofs, t)
    BY DEF Tokens!Chain
  <2> QED
    BY <2>1, <2>2, <2>3 DEF Tokens!ToSet
<1>3. p \in DOMAIN tokens /\ Tokens!Narrows(tokens[p].att, tokens[t].att)
  BY <1>0, <1>2, ChainNarrows
<1>4. Tokens!Covers(c, wanted)
  <2>1. wanted.resource = <<"tools", tool>> /\ wanted.ability = "tool/invoke"
    OBVIOUS
  <2> HIDE DEF wanted
  <2> QED
    BY <1>1, <2>1 DEF Tokens!Names, Tokens!Covers
<1>5. PICK q \in tokens[p].att : Tokens!Covers(q, c)
  BY <1>1, <1>3 DEF Tokens!Narrows
<1>6. Tokens!IsPath(q.resource) /\ Tokens!IsPath(c.resource)
  <2>1. tokens[p].att \in SUBSET Claimed /\ tokens[t].att \in SUBSET Claimed
    BY <1>3, TokenParts
  <2> QED
    BY <1>1, <1>5, <2>1, ClaimedPaths
<1>7. wanted.resource \in Seq(Words)
  <2>1. tool \in Words /\ "tools" \in Words
    BY DEF Words
  <2>2. \A a, b \in Words : <<a, b>> \in Seq(Words)
    OBVIOUS
  <2> QED
    BY <2>1, <2>2
<1> HIDE DEF wanted
<1>8. Tokens!Covers(q, wanted)
  BY <1>4, <1>5, <1>6, <1>7, CoversAll
<1> QED
  BY <1>3, <1>5, <1>8 DEF wanted

(* A token is issued, of capabilities that are claimed.                    *)
LEMMA IssueKeeps ==
  ASSUME TokenInv, NEW pair \in Issuances, NEW att \in SUBSET Claimed, NEW ttl \in Int,
         NEW form \in {"jwt", "json"}, NEW ps \in Seq(DOMAIN tokens),
         form = "json" => Len(ps) \in {1, 2},
         Tokens!Issues(pair[1], pair[2], att, ttl, form, ps)
  PROVE  TokenInv'
<1> DEFINE new == [iss |-> pair[1], aud |-> pair[2], att |-> att, nbf |-> now, exp |-> now + ttl,
                   form |-> form, proofs |-> ps]
<1>0. tokens \in Seq(Token) /\ now \in Int /\ Len(tokens) \in Nat /\ DOMAIN tokens = 1 .. Len(tokens)
  BY DEF TokenInv
<1>1. tokens' = Append(tokens, new) /\ now' = now
  BY DEF Tokens!Issues
<1>2. new \in Token
  <2>1. pair[1] \in Agents /\ pair[2] \in Agents
    BY AccessAssumption DEF Tokens!ToolAccessAssumption
  <2>2. ps \in Seq(Nat)
    BY <1>0
  <2>3. now + ttl \in Int
    BY <1>0
  <2> QED
    BY <1>0, <2>1, <2>2, <2>3 DEF Token
<1>3. new.form = form /\ new.proofs = ps
  OBVIOUS
<1>4. \A i \in 1 .. Len(ps) : ps[i] \in 1 .. Len(tokens)
  BY <1>0
<1> HIDE DEF new
<1>5. /\ tokens' \in Seq(Token) /\ Len(tokens') = Len(tokens) + 1 /\ tokens'[Len(tokens) + 1] = new
      /\ \A i \in 1 .. Len(tokens) : tokens'[i] = tokens[i]
  BY <1>0, <1>1, <1>2
<1>6. ASSUME NEW t \in 1 .. Len(tokens'), tokens'[t].form = "json"
      PROVE  /\ Len(tokens'[t].proofs) \in {1, 2}
             /\ \A i \in 1 .. Len(tokens'[t].proofs) : tokens'[t].proofs[i] \in 1 .. Len(tokens')
  <2>1. CASE t = Len(tokens) + 1
    BY <1>0, <1>3, <1>4, <1>5, <1>6, <2>1
  <2>2. CASE t # Len(tokens) + 1
    <3>1. t \in 1 .. Len(tokens) /\ tokens'[t] = tokens[t]
      BY <1>0, <1>5, <2>2
    <3> QED
      BY <1>0, <1>5, <1>6, <3>1 DEF TokenInv
  <2> QED
    BY <2>1, <2>2
<1> QED
  BY <1>0, <1>1, <1>5, <1>6 DEF TokenInv

LEMMA TokensKept == TokenInv /\ Tokens!Next => TokenInv'
<1> SUFFICES ASSUME TokenInv, Tokens!Next PROVE TokenInv'
  OBVIOUS
<1>1. \A att \in Claims : att \in SUBSET Claimed
  BY DEF Claimed, Tokens!Caps
<1>2. Ttl \in Int /\ ShortTtl \in Int /\ now \in Int /\ Len(tokens) \in Nat /\ DOMAIN tokens = 1 .. Len(tokens)
  BY AccessAssumption DEF Tokens!ToolAccessAssumption, TokenInv
<1>3. CASE Tokens!Issue
  <2>1. PICK pair \in Issuances, att \in Claims, form \in {"jwt", "json"},
             ps \in {<<>>} \cup {<<i>> : i \in DOMAIN tokens} \cup {<<i, i + 1>> : i \in 1 .. (Len(tokens) - 1)} :
          /\ (ps = <<>> => form = "jwt") /\ Tokens!Issues(pair[1], pair[2], att, Ttl, form, ps)
    BY <1>3 DEF Tokens!Issue
  <2>2. ps \in Seq(DOMAIN tokens) /\ (form = "json" => Len(ps) \in {1, 2})
    <3>1. CASE ps = <<>>
      BY <2>1, <3>1
    <3>2. ASSUME NEW i \in DOMAIN tokens, ps = <<i>> PROVE ps \in Seq(DOMAIN tokens) /\ Len(ps) = 1
      BY <3>2
    <3>3. ASSUME NEW i \in 1 .. (Len(tokens) - 1), ps = <<i, i + 1>>
          PROVE  ps \in Seq(DOMAIN tokens) /\ Len(ps) = 2
      <4>1. i \in DOMAIN tokens /\ i + 1 \in DOMAIN tokens
        BY <1>2
      <4> QED
        BY <3>3, <4>1
    <3> QED
      BY <3>1, <3>2, <3>3
  <2> QED
    BY <1>1, <1>2, <2>1, <2>2, IssueKeeps
<1>4. CASE Tokens!AttenuateToken
  <2>1. PICK p \in DOMAIN tokens, pair \in Issuances, att \in Claims :
          Tokens!Issues(pair[1], pair[2], Tokens!Attenuated(att), ShortTtl, "jwt", <<p>>)
    BY <1>4 DEF Tokens!AttenuateToken
  <2>2. Tokens!Attenuated(att) \in SUBSET Claimed /\ <<p>> \in Seq(DOMAIN tokens)
    BY <1>1 DEF Tokens!Attenuated
  <2> QED
    BY <1>2, <2>1, <2>2, IssueKeeps
<1>5. CASE \/ Tokens!RiskScore \/ Tokens!Fetch
           \/ \E a \in Revocable : Tokens!Revoke(a) \/ Tokens!Unrevoke(a)
           \/ \E a \in Agents : Tokens!Call(a)
  BY <1>5 DEF Tokens!RiskScore, Tokens!Fetch, Tokens!Revoke, Tokens!Unrevoke, Tokens!Call, TokenInv
<1>6. CASE Tokens!Tick
  BY <1>2, <1>6 DEF Tokens!Tick, TokenInv
<1> QED
  BY <1>3, <1>4, <1>5, <1>6 DEF Tokens!Next

(* security/acl.py, for any agents, claims, access lists and tools: when   *)
(* the proofs of the token of an authorized call are in the form that      *)
(* ToolACL reads, every one of them covers all that the token claims, and  *)
(* the call itself.  (Proofs that are JWTs are not compared, and of them   *)
(* the theorem says nothing.)                                              *)
THEOREM AuthorityOnlyNarrows == MCSpec => []AuthorityNarrows
<1> DEFINE Held == part = "tokens" => TokenInv
<1>1. MCInit => Held
  BY DEF MCInit, Tokens!Init, TokenInv
<1>2. Held /\ [MCNext]_allVars => Held'
  <2> SUFFICES ASSUME Held, [MCNext]_allVars, part' = "tokens" PROVE TokenInv'
    OBVIOUS
  <2>1. part = "tokens" /\ TokenInv
    BY DEF MCNext, allVars
  <2>2. CASE Tokens!Next
    BY <2>1, <2>2, TokensKept
  <2>3. CASE UNCHANGED tokenVars
    BY <2>1, <2>3 DEF tokenVars, TokenInv
  <2> QED
    BY <2>1, <2>2, <2>3 DEF MCNext, allVars
<1>3. Held => AuthorityNarrows
  BY AuthorityHolds DEF AuthorityNarrows
<1> QED
  BY <1>1, <1>2, <1>3, PTL DEF MCSpec

-----------------------------------------------------------------------------
(***************************************************************************)
(* Hot reload.  What is served was made from a text no younger than the    *)
(* last edit, so that an edited workflow is not taken for the one served,  *)
(* and every workflow that is served is known to the watcher, so that a    *)
(* reloaded agent reaches it.                                              *)
(***************************************************************************)
Files == Reload!Files
ReloadInv ==
  /\ edits \in Nat /\ DOMAIN texts = Files /\ texts = [f \in Files |-> texts[f]]
  /\ \A f \in Files : texts[f].edit \in Nat /\ texts[f].edit <= edits
  /\ agents = [n \in AgentFiles |-> agents[n]]
  /\ graphs = [w \in WorkflowFiles |-> graphs[w]]
  /\ \A w \in WorkflowFiles : graphs[w].text.edit \in Nat /\ graphs[w].text.edit <= edits
  /\ \A w \in WorkflowFiles : graphs[w].text.kind = "good" => w \in known
  /\ known \subseteq WorkflowFiles
  /\ \A w \in WorkflowFiles : texts[w].refs \subseteq AgentFiles
  /\ Reload!ServesCurrent

LEMMA ReloadStarts == Reload!Init => ReloadInv
<1> SUFFICES ASSUME Reload!Init PROVE ReloadInv
  OBVIOUS
<1>1. PICK refs \in [WorkflowFiles -> SUBSET AgentFiles], some \in SUBSET WorkflowFiles,
           first \in SUBSET AgentFiles :
        texts = [f \in Files |->
          IF f \in first THEN Reload!AgentText(f, 1)
          ELSE IF f \in some THEN Reload!WorkflowText("good", refs[f], 1) ELSE Reload!Absent]
  BY DEF Reload!Init, Files
<1>2. /\ graphs = [w \in WorkflowFiles |->
           IF Reload!Loads(texts[w], agents) THEN Reload!Graph(texts[w], agents) ELSE Reload!NotServed]
      /\ agents = [f \in AgentFiles |-> texts[f].edit]
      /\ known = {w \in WorkflowFiles : texts[w] # Reload!Absent} /\ edits = 1
  BY DEF Reload!Init
<1>3. ASSUME NEW f \in Files PROVE texts[f].edit \in {0, 1}
  BY <1>1 DEF Reload!AgentText, Reload!WorkflowText, Reload!Absent
<1>4. \A w \in WorkflowFiles : w \in Files
  BY DEF Files, Reload!Files
<1>5. ASSUME NEW w \in WorkflowFiles PROVE texts[w].refs \subseteq AgentFiles
  BY <1>1, <1>4, AccessAssumption
     DEF Reload!AgentText, Reload!WorkflowText, Reload!Absent, Reload!HotReloadAssumption
<1>6. ASSUME NEW w \in WorkflowFiles
      PROVE  \/ graphs[w] = [text |-> texts[w], made |-> [r \in texts[w].refs |-> agents[r]]]
             \/ graphs[w].text.kind = "absent" /\ graphs[w].text.edit = 0
  BY <1>2 DEF Reload!Graph, Reload!NotServed, Reload!Absent
<1>7. ASSUME NEW w \in WorkflowFiles
      PROVE  /\ graphs[w].text.edit \in {0, 1}
             /\ graphs[w].text.kind = "good" => w \in known
             /\ Reload!Current(w)
  <2>1. CASE graphs[w] = [text |-> texts[w], made |-> [r \in texts[w].refs |-> agents[r]]]
    <3>1. graphs[w].text = texts[w] /\ \A r \in texts[w].refs : graphs[w].made[r] = agents[r]
      BY <2>1
    <3>2. texts[w].kind = "good" => texts[w] # Reload!Absent
      <4>1. Reload!Absent.kind = "absent"
        BY DEF Reload!Absent
      <4> QED
        BY <4>1
    <3> QED
      BY <1>2, <1>3, <1>4, <3>1, <3>2 DEF Reload!Current
  <2>2. CASE graphs[w].text.kind = "absent" /\ graphs[w].text.edit = 0
    BY <2>2 DEF Reload!Current
  <2> QED
    BY <1>6, <2>1, <2>2
<1>8. Reload!ServesCurrent
  BY <1>7 DEF Reload!ServesCurrent
<1>9. /\ \A f \in Files : texts[f].edit \in Nat /\ texts[f].edit <= edits
      /\ \A w \in WorkflowFiles : graphs[w].text.edit \in Nat /\ graphs[w].text.edit <= edits
  BY <1>2, <1>3, <1>7
<1>10. DOMAIN texts = Files /\ texts = [f \in Files |-> texts[f]]
  BY <1>1
<1> QED
  BY <1>2, <1>5, <1>7, <1>8, <1>9, <1>10 DEF ReloadInv

(* An edited workflow says what no served graph says.                      *)
LEMMA EditKeeps == ASSUME ReloadInv, NEW f \in Files, Reload!Edit(f) PROVE ReloadInv'
<1> USE DEF ReloadInv
<1>1. PICK t : /\ texts' = [texts EXCEPT ![f] = t]
               /\ \/ t = Reload!Absent
                  \/ f \in AgentFiles /\ \E n \in AgentFiles : t = Reload!AgentText(n, edits + 1)
                  \/ f \notin AgentFiles /\ \E k, r : r \subseteq AgentFiles /\ t = Reload!WorkflowText(k, r, edits + 1)
  BY DEF Reload!Edit
<1>2. /\ t.edit \in {0, edits + 1} /\ t.refs \subseteq AgentFiles
      /\ t.kind = "good" => t.edit = edits + 1
  <2>1. CASE t = Reload!Absent
    BY <2>1 DEF Reload!Absent
  <2>2. ASSUME NEW n, t = Reload!AgentText(n, edits + 1)
        PROVE  t.edit = edits + 1 /\ t.refs = {}
    BY <2>2 DEF Reload!AgentText
  <2>3. ASSUME NEW k, NEW r, t = Reload!WorkflowText(k, r, edits + 1)
        PROVE  t.edit = edits + 1 /\ t.refs = r
    BY <2>3 DEF Reload!WorkflowText
  <2> QED
    BY <1>1, <2>1, <2>2, <2>3
<1>3. edits' = edits + 1 /\ UNCHANGED <<agents, known, graphs, aborted, aliases>>
  BY DEF Reload!Edit
<1>4. \A w \in WorkflowFiles : w \in Files
  BY DEF Files, Reload!Files
<1>5. /\ \A g \in Files : texts'[g] = IF g = f THEN t ELSE texts[g]
      /\ DOMAIN texts' = Files /\ texts' = [g \in Files |-> texts'[g]]
  BY <1>1
<1>6. ASSUME NEW w \in WorkflowFiles PROVE Reload!Current(w)'
  <2>1. CASE w = f
    <3>1. texts'[w] = t
      BY <1>4, <1>5, <2>1
    <3>2. graphs'[w].text = t => t.kind # "good"
      BY <1>2, <1>3
    <3> QED
      BY <3>1, <3>2 DEF Reload!Current
  <2>2. CASE w # f
    <3>1. texts'[w] = texts[w]
      BY <1>4, <1>5, <2>2
    <3> QED
      BY <1>3, <3>1 DEF Reload!ServesCurrent, Reload!Current
  <2> QED
    BY <2>1, <2>2
<1>7. \A g \in Files : texts'[g].edit \in Nat /\ texts'[g].edit <= edits'
  BY <1>2, <1>3, <1>5
<1>8. /\ \A w \in WorkflowFiles : texts'[w].refs \subseteq AgentFiles
      /\ \A w \in WorkflowFiles : graphs'[w].text.edit \in Nat /\ graphs'[w].text.edit <= edits'
  <2>1. \A w \in WorkflowFiles : texts'[w].refs \subseteq AgentFiles
    BY <1>2, <1>4, <1>5
  <2>2. \A w \in WorkflowFiles : graphs'[w] = graphs[w]
    BY <1>3
  <2>3. \A n \in Nat : n <= edits => n <= edits'
    BY <1>3
  <2> QED
    BY <2>1, <2>2, <2>3
<1>9. Reload!ServesCurrent'
  BY <1>6 DEF Reload!ServesCurrent
<1> QED
  BY <1>3, <1>5, <1>7, <1>8, <1>9

(* A change is handled: the graphs that are registered are made of the     *)
(* texts and the agents of now.                                            *)
LEMMA RegisterKeeps ==
  ASSUME ReloadInv, NEW ws \in SUBSET WorkflowFiles, UNCHANGED <<texts, edits>>,
         agents' = [n \in AgentFiles |-> agents'[n]],
         Reload!Register(agents', ws), known' = known \cup ws,
         \A w \in WorkflowFiles \ ws : Reload!Current(w)'
  PROVE  ReloadInv'
<1> USE DEF ReloadInv
<1>1. /\ graphs' = [w \in WorkflowFiles |-> graphs'[w]]
      /\ \A w \in WorkflowFiles : graphs'[w] = IF w \in ws THEN Reload!Graph(texts[w], agents') ELSE graphs[w]
  BY DEF Reload!Register
<1>2. \A w \in WorkflowFiles : w \in Files
  BY DEF Files, Reload!Files
<1>3. ASSUME NEW w \in ws
      PROVE  graphs'[w].text = texts[w] /\ \A r \in texts[w].refs : graphs'[w].made[r] = agents'[r]
  <2>1. graphs'[w] = [text |-> texts[w], made |-> [r \in texts[w].refs |-> agents'[r]]]
    BY <1>1 DEF Reload!Graph
  <2> QED
    BY <2>1
<1>4. ASSUME NEW w \in WorkflowFiles
      PROVE  /\ graphs'[w].text.edit \in Nat /\ graphs'[w].text.edit <= edits'
             /\ graphs'[w].text.kind = "good" => w \in known'
             /\ Reload!Current(w)'
  <2>1. CASE w \in ws
    BY <1>2, <1>3, <2>1 DEF Reload!Current
  <2>2. CASE w \notin ws
    BY <1>1, <2>2
  <2> QED
    BY <2>1, <2>2
<1> QED
  BY <1>1, <1>4 DEF Reload!ServesCurrent

LEMMA HandleKeeps == ASSUME ReloadInv, NEW f \in Files, Reload!HandleChange(f) PROVE ReloadInv'
<1> USE DEF ReloadInv
<1>0. UNCHANGED <<texts, edits>>
  BY DEF Reload!HandleChange
<1>1. CASE Reload!ReloadAgent(f)
  <2> DEFINE name == texts[f].name
             ws == Reload!Committed(agents', Reload!Affected(name))
  <2>1. /\ agents' = [n \in AgentFiles |-> IF n \in {name, f} THEN texts[f].edit ELSE agents[n]]
        /\ aliases' = aliases \cup ({f} \ {name}) /\ Reload!Register(agents', ws)
        /\ aborted' = (aborted \cup Reload!Affected(name)) \ ws /\ known' = known
    BY <1>1 DEF Reload!ReloadAgent
  <2>2. ws \subseteq Reload!Affected(name)
    BY DEF Reload!Committed
  <2>3. Reload!Affected(name) \subseteq known
    BY DEF Reload!Affected
  <2>4. ASSUME NEW w \in WorkflowFiles, w \notin ws PROVE Reload!Current(w)'
    <3>1. graphs'[w] = graphs[w]
      BY <2>1, <2>4 DEF Reload!Register
    <3> SUFFICES ASSUME graphs[w].text = texts[w], texts[w].kind = "good", w \notin aborted',
                        NEW r \in texts[w].refs, r \notin aliases'
                 PROVE  graphs[w].made[r] = agents'[r]
      BY <1>0, <3>1 DEF Reload!Current
    <3>2. w \notin aborted /\ w \notin Reload!Affected(name) /\ w \in known
      BY <2>1, <2>4
    <3>3. name \notin texts[w].refs
      BY <3>2 DEF Reload!Affected
    <3>4. r \in AgentFiles /\ r # name /\ r # f /\ r \notin aliases
      BY <2>1, <3>3
    <3>5. agents'[r] = agents[r]
      BY <2>1, <3>4
    <3> QED
      BY <3>2, <3>4, <3>5 DEF Reload!ServesCurrent, Reload!Current
  <2>5. agents' = [n \in AgentFiles |-> agents'[n]]
    BY <2>1
  <2> HIDE DEF ws
  <2>6. ws \in SUBSET WorkflowFiles
    BY <2>2, <2>3
  <2> QED
    BY <1>0, <2>1, <2>2, <2>3, <2>4, <2>5, <2>6, RegisterKeeps
<1>2. CASE f \in WorkflowFiles /\ Reload!ReloadWorkflow(f)
  <2>1. /\ Reload!Register(agents, {f}) /\ known' = known \cup {f} /\ aborted' = aborted \ {f}
        /\ UNCHANGED <<agents, aliases>>
    BY <1>2 DEF Reload!ReloadWorkflow
  <2>2. ASSUME NEW w \in WorkflowFiles, w # f PROVE Reload!Current(w)'
    <3>1. graphs'[w] = graphs[w]
      BY <2>1, <2>2 DEF Reload!Register
    <3> QED
      BY <1>0, <2>1, <2>2, <3>1 DEF Reload!ServesCurrent, Reload!Current
  <2>3. Reload!Register(agents', {f})
    BY <2>1 DEF Reload!Register, Reload!Graph
  <2> QED
    BY <1>0, <1>2, <2>1, <2>2, <2>3, RegisterKeeps
<1>3. CASE Reload!Fails(f)
  BY <1>0, <1>3 DEF Reload!Fails, Reload!ServesCurrent, Reload!Current
<1> QED
  BY <1>1, <1>2, <1>3 DEF Reload!HandleChange

(* Every workflow that refers to a reloaded agent gets it, or no graph     *)
(* changes.                                                                *)
LEMMA AllOrNoneHolds == ReloadInv /\ Reload!Next => Reload!AllOrNone
<1> SUFFICES ASSUME ReloadInv, Reload!Next, NEW g \in AgentFiles, g \in changed, g \notin changed',
                    graphs' # graphs
             PROVE  \A w \in Reload!Affected(texts[g].name) : graphs'[w] = Reload!Graph(texts[w], agents')
  BY DEF Reload!AllOrNone
<1>1. PICK f \in Files : Reload!Edit(f) \/ Reload!HandleChange(f)
  BY DEF Reload!Next, Files
<1>2. ~Reload!Edit(f)
  BY DEF Reload!Edit
<1>3. f = g /\ f \notin WorkflowFiles
  BY <1>1, <1>2, AccessAssumption DEF Reload!HandleChange, Reload!HotReloadAssumption
<1>4. Reload!ReloadAgent(f)
  BY <1>1, <1>2, <1>3 DEF Reload!HandleChange, Reload!Fails
<1> DEFINE all == Reload!Affected(texts[f].name)
           ws == Reload!Committed(agents', all)
<1>5. Reload!Register(agents', ws)
  BY <1>4 DEF Reload!ReloadAgent
<1>6. ws = all \/ ws = {}
  BY DEF Reload!Committed
<1>7. ws # {}
  <2>1. ASSUME ws = {} PROVE graphs' = [w \in WorkflowFiles |-> graphs[w]]
    BY <1>5, <2>1 DEF Reload!Register
  <2> QED
    BY <2>1 DEF ReloadInv
<1>8. all \subseteq WorkflowFiles
  <2>1. known \subseteq WorkflowFiles
    BY DEF ReloadInv
  <2> QED
    BY <2>1 DEF Reload!Affected
<1> QED
  BY <1>3, <1>5, <1>6, <1>7, <1>8 DEF Reload!Register

(* discovery/hotreload.py, "stage-then-commit", for any agents and         *)
(* workflows: what is served is made of the agents registered now, unless  *)
(* its file says something else by now, a failed recompilation left it or  *)
(* it goes by the stem of a file; and a reloaded agent gets into every     *)
(* workflow that refers to it or into none.                                *)
THEOREM ServedStaysWhole == MCSpec => ServedIsWhole
<1> DEFINE Held == part = "reload" => ReloadInv
<1>1. MCInit => Held
  BY ReloadStarts DEF MCInit
<1>2. Held /\ [MCNext]_allVars => Held'
  <2> SUFFICES ASSUME Held, [MCNext]_allVars, part' = "reload" PROVE ReloadInv'
    OBVIOUS
  <2>1. part = "reload" /\ ReloadInv
    BY DEF MCNext, allVars
  <2>2. CASE Reload!Next
    BY <2>1, <2>2, EditKeeps, HandleKeeps DEF Reload!Next, Files
  <2>3. CASE UNCHANGED reloadVars
    BY <2>1, <2>3 DEF reloadVars, ReloadInv, Reload!ServesCurrent, Reload!Current
  <2> QED
    BY <2>1, <2>2, <2>3 DEF MCNext, allVars
<1>3. Held => (part = "reload" => Reload!ServesCurrent)
  BY DEF ReloadInv
<1>4. Held /\ [MCNext]_allVars => [part = "reload" => Reload!AllOrNone]_reloadVars
  <2> SUFFICES ASSUME Held, MCNext, part = "reload", ~UNCHANGED reloadVars PROVE Reload!AllOrNone
    BY DEF allVars, reloadVars
  <2>1. Reload!Next
    BY DEF MCNext
  <2> QED
    BY <2>1, AllOrNoneHolds
<1> QED
  BY <1>1, <1>2, <1>3, <1>4, PTL DEF MCSpec, ServedIsWhole

-----------------------------------------------------------------------------
(***************************************************************************)
(* The token bucket.  What a bucket holds is bounded from both sides by    *)
(* what its identity was admitted since any moment: with what was counted  *)
(* it is never more than a full bucket and the refill since, and never     *)
(* less than the smaller of the two.                                       *)
(***************************************************************************)
Full == Rates!Full
Earned(n) == n * MaxTokens
Spent(n) == n * Window
Counts == {"admitted", "counted, too large"}
Entry == [id : Identities, at : Nat, answer : Counts \cup {"too large", "limited", "probe"}]
CountedIn(h, id, from, to) ==
  {i \in DOMAIN h : h[i].id = id /\ h[i].at \in from .. to /\ h[i].answer \in Counts}
Often(h, id, from, to) == Cardinality(CountedIn(h, id, from, to))

(* What a bucket b of id may be at its last refill, after the requests h.  *)
NotTooMuch(h, id, b) ==
  \A s \in 0 .. b.last : Spent(Often(h, id, s, b.last)) + b.tokens <= Full + Earned(b.last - s)
NotTooLittle(h, id, b) ==
  \A u \in Int : u <= b.last =>
    \/ Full <= b.tokens + Spent(Often(h, id, u + 1, b.last))
    \/ Earned(b.last - u) <= b.tokens + Spent(Often(h, id, u + 1, b.last))
Fair(h, id, b) ==
  /\ b.last \in Nat /\ b.tokens \in Nat /\ b.tokens <= Full
  /\ \A i \in DOMAIN h : h[i].id = id /\ h[i].answer \in Counts => h[i].at <= b.last
  /\ NotTooMuch(h, id, b) /\ NotTooLittle(h, id, b)

RateTypes ==
  /\ clock \in Nat /\ history \in Seq(Entry)
  /\ buckets = [id \in DOMAIN buckets |-> buckets[id]]
  /\ \A i \in DOMAIN history : history[i].at <= clock
BucketsFair ==
  /\ \A id \in DOMAIN buckets : Fair(history, id, buckets[id]) /\ buckets[id].last <= clock
  /\ \A i \in DOMAIN history : history[i].answer \in Counts => history[i].id \in DOMAIN buckets
NeverTooOften(h, to) ==
  \A id \in Identities, s \in 0 .. to : \A t \in s .. to :
    Spent(Often(h, id, s, t)) <= Full + Earned(t - s)
LimitedAfterBurst(h) ==
  \A i \in DOMAIN h : h[i].answer = "limited" =>
    Cardinality(CountedIn(h, h[i].id, h[i].at - Window + 1, h[i].at) \cap (1 .. i)) >= MaxTokens
RateInv == RateTypes /\ BucketsFair /\ NeverTooOften(history, clock) /\ LimitedAfterBurst(history)

LEMMA RateParameters == MaxTokens \in Nat \ {0} /\ Window \in Nat \ {0}
BY AccessAssumption DEF Rates!RateAssumption

(* The amounts are linear: what the steps below need of multiplication.    *)
LEMMA Amounts ==
  /\ Full \in Nat /\ Full = Earned(Window) /\ Earned(0) = 0 /\ Spent(0) = 0
  /\ \A n \in Int : Earned(n) \in Int /\ Spent(n) \in Int /\ Spent(n + 1) = Spent(n) + Window
  /\ \A m, n \in Int : Earned(m + n) = Earned(m) + Earned(n)
  /\ \A n \in Nat : Earned(n) \in Nat /\ Spent(n) \in Nat
  /\ \A n \in Nat : Full < Spent(n) + Window => MaxTokens <= n
<1> DEFINE m == MaxTokens
           w == Window
<1>1. m \in Nat /\ w \in Nat /\ m > 0 /\ w > 0
  BY RateParameters
<1> HIDE DEF m, w
<1>2. \A n \in Nat : n * m \in Nat /\ n * w \in Nat
  BY <1>1
<1>3. \A n \in Nat : m * w < n * w + w => m <= n
  <2> SUFFICES ASSUME NEW n \in Nat, n < m PROVE ~(m * w < n * w + w)
    BY <1>1
  <2>1. PICK d \in Nat : m = n + 1 + d
    <3>1. m - n - 1 \in Nat /\ m = n + 1 + (m - n - 1)
      BY <1>1
    <3> QED BY <3>1
  <2>2. m * w = n * w + w + d * w
    BY <1>1, <2>1
  <2>3. d * w \in Nat /\ n * w \in Nat
    BY <1>2
  <2> QED BY <1>1, <2>2, <2>3
<1>4. \A n \in Int : n * m \in Int /\ n * w \in Int /\ (n + 1) * w = n * w + w
  BY <1>1
<1>5. \A k, n \in Int : (k + n) * m = k * m + n * m
  BY <1>1
<1>6. m * w \in Nat /\ m * w = w * m /\ 0 * m = 0 /\ 0 * w = 0
  BY <1>1
<1>7. Full = m * w /\ \A n : Earned(n) = n * m /\ Spent(n) = n * w
  BY DEF m, w, Full, Rates!Full, Earned, Spent
<1> QED BY <1>1, <1>2, <1>3, <1>4, <1>5, <1>6, <1>7 DEF m, w

LEMMA SpentIs == \A n \in Nat : Spent(n) \in Nat
BY Amounts

LEMMA SpentStep == \A n \in Nat : Spent(n + 1) = Spent(n) + Window
<1>1. \A n \in Nat : n \in Int
  OBVIOUS
<1>2. \A n \in Int : Spent(n + 1) = Spent(n) + Window
  BY Amounts
<1> QED BY <1>1, <1>2

LEMMA NothingYet == Earned(0) = 0 /\ Spent(0) = 0 /\ Full \in Nat
BY Amounts

LEMMA EarnedIs == \A n \in Nat : Earned(n) \in Nat
BY Amounts

LEMMA OftenIs ==
  ASSUME NEW h, NEW R, h \in Seq(R), NEW id, NEW from, NEW to
  PROVE  IsFiniteSet(CountedIn(h, id, from, to)) /\ Often(h, id, from, to) \in Nat
<1>1. IsFiniteSet(1 .. Len(h)) /\ DOMAIN h = 1 .. Len(h)
  BY FS_Interval
<1>2. CountedIn(h, id, from, to) \subseteq DOMAIN h
  BY DEF CountedIn
<1>3. IsFiniteSet(CountedIn(h, id, from, to))
  BY <1>1, <1>2, FS_Subset
<1> QED BY <1>3, FS_CardinalityType DEF Often

(* A request that is answered counts where it is in the stretch of time.   *)
LEMMA Answered ==
  ASSUME NEW h \in Seq(Entry), NEW r \in Entry, NEW id, NEW from, NEW to
  PROVE  LET g == Append(h, r) IN
         /\ Often(g, id, from, to) =
              IF r.id = id /\ r.at \in from .. to /\ r.answer \in Counts
                THEN Often(h, id, from, to) + 1 ELSE Often(h, id, from, to)
         /\ \A i \in DOMAIN h : CountedIn(g, id, from, to) \cap (1 .. i) = CountedIn(h, id, from, to) \cap (1 .. i)
         /\ CountedIn(g, id, from, to) \cap (1 .. Len(h) + 1) = CountedIn(g, id, from, to)
<1> DEFINE g == Append(h, r)
           n == Len(h) + 1
<1>1. /\ g \in Seq(Entry) /\ Len(h) \in Nat /\ DOMAIN h = 1 .. Len(h) /\ DOMAIN g = 1 .. n /\ g[n] = r
      /\ \A i \in DOMAIN h : g[i] = h[i]
  OBVIOUS
<1>2. DOMAIN g = DOMAIN h \cup {n} /\ n \notin DOMAIN h
  BY <1>1
<1>3. CountedIn(g, id, from, to) =
        IF r.id = id /\ r.at \in from .. to /\ r.answer \in Counts
          THEN CountedIn(h, id, from, to) \cup {n} ELSE CountedIn(h, id, from, to)
  <2> HIDE DEF g, n
  <2> QED BY <1>1, <1>2 DEF CountedIn
<1>4. n \notin CountedIn(h, id, from, to)
  BY <1>2 DEF CountedIn
<1>5. Cardinality(CountedIn(h, id, from, to) \cup {n}) = Cardinality(CountedIn(h, id, from, to)) + 1
  BY <1>4, OftenIs, FS_AddElement
<1>6. \A i \in DOMAIN h : CountedIn(g, id, from, to) \cap (1 .. i) = CountedIn(h, id, from, to) \cap (1 .. i)
  <2>1. \A i \in DOMAIN h : n \notin 1 .. i
    BY <1>1
  <2> QED BY <1>3, <2>1
<1>7. CountedIn(g, id, from, to) \subseteq 1 .. n
  BY <1>1 DEF CountedIn
<1> HIDE DEF g
<1> QED BY <1>3, <1>5, <1>6, <1>7 DEF Often, g

(* Nothing counts where nothing was answered.                              *)
LEMMA NoneSince ==
  ASSUME NEW h \in Seq(Entry), NEW id, NEW last \in Int,
         \A i \in DOMAIN h : h[i].id = id /\ h[i].answer \in Counts => h[i].at <= last
  PROVE  /\ \A s, t \in Int : last <= t => Often(h, id, s, t) = Often(h, id, s, last)
         /\ \A s, t \in Int : last < s => Often(h, id, s, t) = 0
<1>0. \A i \in DOMAIN h : h[i].at \in Nat
  <2>1. \A i \in DOMAIN h : h[i] \in Entry
    OBVIOUS
  <2> QED BY <2>1 DEF Entry
<1>1. ASSUME NEW s \in Int, NEW t \in Int, last <= t
      PROVE  CountedIn(h, id, s, t) = CountedIn(h, id, s, last)
  <2>1. \A i \in DOMAIN h : h[i].id = id /\ h[i].answer \in Counts =>
                              (h[i].at \in s .. t <=> h[i].at \in s .. last)
    BY <1>0, <1>1
  <2> QED BY <2>1 DEF CountedIn
<1>2. ASSUME NEW s \in Int, NEW t \in Int, last < s
      PROVE  CountedIn(h, id, s, t) = {}
  <2>1. \A i \in DOMAIN h : h[i].id = id /\ h[i].answer \in Counts => h[i].at \notin s .. t
    BY <1>0, <1>2
  <2> QED BY <2>1 DEF CountedIn
<1> QED BY <1>1, <1>2, FS_EmptySet DEF Often

(* A refill leaves a bucket fair, whenever it comes.                       *)
LEMMA RefillIsFair ==
  ASSUME NEW h \in Seq(Entry), NEW id, NEW b, Fair(h, id, b), NEW c \in Nat, b.last <= c
  PROVE  Fair(h, id, [tokens |-> Rates!Lesser(Full, b.tokens + (c - b.last) * MaxTokens), last |-> c])
<1> DEFINE l == b.last
           k == b.tokens
           n == Rates!Lesser(Full, b.tokens + (c - b.last) * MaxTokens)
<1>1. l \in Nat /\ k \in Nat /\ k <= Full /\ l <= c /\ c - l \in Nat
  BY DEF Fair
<1>2. n \in Nat /\ n <= Full /\ n <= k + Earned(c - l) /\ (n = Full \/ n = k + Earned(c - l))
  <2>1. Full \in Nat /\ Earned(c - l) \in Nat
    BY <1>1, Amounts
  <2>2. n = Rates!Lesser(Full, k + Earned(c - l))
    BY DEF Earned
  <2> HIDE DEF n, k, l
  <2> QED BY <1>1, <2>1, <2>2 DEF Rates!Lesser
<1>3. /\ \A s, t \in Int : l <= t => Often(h, id, s, t) = Often(h, id, s, l)
      /\ \A s, t \in Int : l < s => Often(h, id, s, t) = 0
  <2>1. l \in Int /\ \A i \in DOMAIN h : h[i].id = id /\ h[i].answer \in Counts => h[i].at <= l
    BY <1>1 DEF Fair
  <2> HIDE DEF l
  <2> QED BY <2>1, NoneSince
<1>4. \A s, t \in Int : Spent(Often(h, id, s, t)) \in Nat
  <2>1. \A s, t \in Int : Often(h, id, s, t) \in Nat
    BY OftenIs
  <2> QED BY <2>1, SpentIs
<1> HIDE DEF l, k, n
<1>5. ASSUME NEW s \in 0 .. c PROVE Spent(Often(h, id, s, c)) + n <= Full + Earned(c - s)
  <2>1. CASE s <= l
    <3>1. Spent(Often(h, id, s, l)) + k <= Full + Earned(l - s)
      BY <1>1, <2>1 DEF Fair, NotTooMuch, l, k
    <3>2. Earned(c - s) = Earned(c - l) + Earned(l - s)
      <4>1. c - s = (c - l) + (l - s) /\ c - l \in Int /\ l - s \in Int
        BY <1>1
      <4> QED BY <4>1, Amounts
    <3>3. Often(h, id, s, c) = Often(h, id, s, l)
      BY <1>1, <1>3
    <3>4. Earned(c - l) \in Nat /\ Earned(l - s) \in Nat /\ Full \in Nat
      <4>1. c - l \in Nat /\ l - s \in Nat
        BY <1>1, <2>1
      <4> QED BY <4>1, EarnedIs, Amounts
    <3>5. Spent(Often(h, id, s, l)) \in Nat
      <4>1. s \in Int /\ l \in Int
        BY <1>1
      <4> QED BY <1>4, <4>1
    <3>6. \A x, y, z, a, e, f \in Nat :
            x + a <= f + e /\ y <= a + z => x + y <= f + (z + e)
      OBVIOUS
    <3> QED BY <1>1, <1>2, <3>1, <3>2, <3>3, <3>4, <3>5, <3>6
  <2>2. CASE l < s
    <3>1. Often(h, id, s, c) = 0
      BY <1>1, <1>3, <2>2
    <3>2. Earned(c - s) \in Nat /\ Spent(0) = 0 /\ Full \in Nat
      <4>1. c - s \in Nat
        OBVIOUS
      <4> QED BY <4>1, EarnedIs, Amounts
    <3> QED BY <1>2, <3>1, <3>2
  <2> QED BY <1>1, <2>1, <2>2
<1>6. ASSUME NEW u \in Int, u <= c
      PROVE  \/ Full <= n + Spent(Often(h, id, u + 1, c))
             \/ Earned(c - u) <= n + Spent(Often(h, id, u + 1, c))
  <2>0. Spent(Often(h, id, u + 1, c)) \in Nat /\ Full \in Nat
    <3>1. u + 1 \in Int /\ c \in Int
      OBVIOUS
    <3> QED BY <1>4, <3>1, Amounts
  <2>1. CASE n = Full
    BY <2>0, <2>1
  <2>2. CASE n = k + Earned(c - l) /\ u <= l
    <3>1. \/ Full <= k + Spent(Often(h, id, u + 1, l))
          \/ Earned(l - u) <= k + Spent(Often(h, id, u + 1, l))
      BY <2>2 DEF Fair, NotTooLittle, l, k
    <3>2. Earned(c - u) = Earned(c - l) + Earned(l - u)
      <4>1. c - u = (c - l) + (l - u) /\ c - l \in Int /\ l - u \in Int
        BY <1>1
      <4> QED BY <4>1, Amounts
    <3>3. Often(h, id, u + 1, c) = Often(h, id, u + 1, l)
      BY <1>1, <1>3
    <3>4. Earned(c - l) \in Nat /\ Earned(l - u) \in Nat
      <4>1. c - l \in Nat /\ l - u \in Nat
        BY <1>1, <2>2
      <4> QED BY <4>1, Amounts
    <3>5. \A f, x, y, a, e \in Nat :
            /\ f <= a + x => f <= (a + e) + x
            /\ y <= a + x => e + y <= (a + e) + x
      OBVIOUS
    <3>6. Spent(Often(h, id, u + 1, l)) \in Nat
      BY <2>0, <3>3
    <3>7. \/ Full <= (k + Earned(c - l)) + Spent(Often(h, id, u + 1, l))
          \/ Earned(c - l) + Earned(l - u) <= (k + Earned(c - l)) + Spent(Often(h, id, u + 1, l))
      <4>1. CASE Full <= k + Spent(Often(h, id, u + 1, l))
        BY <1>1, <2>0, <3>4, <3>5, <3>6, <4>1
      <4>2. CASE Earned(l - u) <= k + Spent(Often(h, id, u + 1, l))
        BY <1>1, <3>4, <3>5, <3>6, <4>2
      <4> QED BY <3>1, <4>1, <4>2
    <3> QED BY <2>2, <3>2, <3>3, <3>7
  <2>3. CASE n = k + Earned(c - l) /\ l < u
    <3>1. Earned(c - l) = Earned(c - u) + Earned(u - l)
      <4>1. c - l = (c - u) + (u - l) /\ c - u \in Int /\ u - l \in Int
        BY <1>1
      <4> QED BY <4>1, Amounts
    <3>2. Earned(c - u) \in Nat /\ Earned(u - l) \in Nat
      <4>1. c - u \in Nat /\ u - l \in Nat
        BY <1>1, <1>6, <2>3
      <4> QED BY <4>1, Amounts
    <3> QED BY <1>1, <2>0, <2>3, <3>1, <3>2
  <2> QED BY <1>1, <1>2, <2>1, <2>2, <2>3
<1>7. \A i \in DOMAIN h : h[i].id = id /\ h[i].answer \in Counts => h[i].at <= c
  <2>1. \A i \in DOMAIN h : h[i] \in Entry
    OBVIOUS
  <2>2. \A i \in DOMAIN h : h[i].at \in Nat
    BY <2>1 DEF Entry
  <2>3. \A i \in DOMAIN h : h[i].id = id /\ h[i].answer \in Counts => h[i].at <= l
    BY DEF Fair, l
  <2> QED BY <1>1, <2>2, <2>3
<1> DEFINE r == [tokens |-> n, last |-> c]
<1>8. r.tokens = n /\ r.last = c
  OBVIOUS
<1> HIDE DEF r
<1>9. Fair(h, id, r)
  <2>1. NotTooMuch(h, id, r)
    BY <1>5, <1>8 DEF NotTooMuch
  <2>2. NotTooLittle(h, id, r)
    BY <1>6, <1>8 DEF NotTooLittle
  <2> QED BY <1>2, <1>7, <1>8, <2>1, <2>2 DEF Fair
<1> QED BY <1>9 DEF r, n

(* A request that does not count against an identity changes nothing.      *)
LEMMA OtherIsFair ==
  ASSUME NEW h \in Seq(Entry), NEW r \in Entry, NEW id, NEW b, Fair(h, id, b),
         r.id # id \/ r.answer \notin Counts
  PROVE  Fair(Append(h, r), id, b)
<1> DEFINE g == Append(h, r)
<1>1. \A s, t : Often(g, id, s, t) = Often(h, id, s, t)
  BY Answered
<1>2. \A i \in DOMAIN g : g[i].id = id /\ g[i].answer \in Counts => g[i].at <= b.last
  <2>1. \A i \in DOMAIN g : (i \in DOMAIN h /\ g[i] = h[i]) \/ g[i] = r
    OBVIOUS
  <2> HIDE DEF g
  <2> QED BY <2>1 DEF Fair
<1> HIDE DEF g
<1>3. NotTooMuch(g, id, b)
  BY <1>1 DEF Fair, NotTooMuch
<1>4. NotTooLittle(g, id, b)
  BY <1>1 DEF Fair, NotTooLittle
<1> QED BY <1>2, <1>3, <1>4 DEF Fair, g

(* One that counts takes a whole request out of the bucket.                *)
LEMMA AdmitIsFair ==
  ASSUME NEW h \in Seq(Entry), NEW r \in Entry, r.answer \in Counts, NEW b, Fair(h, r.id, b),
         r.at = b.last, Window <= b.tokens,
         NEW c, c.tokens = b.tokens - Window, c.last = b.last
  PROVE  Fair(Append(h, r), r.id, c)
<1> DEFINE g == Append(h, r)
           l == b.last
           k == b.tokens
<1>1. /\ l \in Nat /\ k \in Nat /\ k <= Full /\ Window \in Nat /\ Full \in Nat
      /\ c.last = l /\ c.tokens = k - Window /\ Window <= k
  BY RateParameters, Amounts DEF Fair
<1>2. ASSUME NEW s \in Int
      PROVE  /\ s <= l => Often(g, r.id, s, l) = Often(h, r.id, s, l) + 1
             /\ l < s => Often(g, r.id, s, l) = 0
             /\ Often(h, r.id, s, l) \in Nat
  <2>1. l \in s .. l <=> s <= l
    BY <1>1, <1>2
  <2>2. Often(g, r.id, s, l) = IF r.at \in s .. l THEN Often(h, r.id, s, l) + 1 ELSE Often(h, r.id, s, l)
    BY Answered
  <2>3. l < s => Often(h, r.id, s, l) = 0
    <3>1. l \in Int /\ \A i \in DOMAIN h : h[i].id = r.id /\ h[i].answer \in Counts => h[i].at <= l
      BY <1>1 DEF Fair
    <3> HIDE DEF l
    <3> QED BY <3>1, NoneSince
  <2>4. Often(h, r.id, s, l) \in Nat
    BY OftenIs
  <2> QED BY <1>1, <2>1, <2>2, <2>3, <2>4
<1>3. ASSUME NEW s \in Int, s <= l
      PROVE  /\ Spent(Often(g, r.id, s, l)) = Spent(Often(h, r.id, s, l)) + Window
             /\ Spent(Often(h, r.id, s, l)) \in Nat
  <2>1. \A n \in Nat : Spent(n + 1) = Spent(n) + Window /\ Spent(n) \in Nat
    BY SpentStep, SpentIs
  <2> QED BY <1>2, <1>3, <2>1
<1>4. \A i \in DOMAIN g : g[i].id = r.id /\ g[i].answer \in Counts => g[i].at <= l
  <2>1. \A i \in DOMAIN g : (i \in DOMAIN h /\ g[i] = h[i]) \/ g[i] = r
    OBVIOUS
  <2> HIDE DEF g
  <2> QED BY <1>1, <2>1 DEF Fair
<1> HIDE DEF g
<1>5. NotTooMuch(g, r.id, c)
  <2> SUFFICES ASSUME NEW s \in 0 .. l
               PROVE  Spent(Often(g, r.id, s, l)) + (k - Window) <= Full + Earned(l - s)
    BY <1>1 DEF NotTooMuch
  <2>1. Spent(Often(h, r.id, s, l)) + k <= Full + Earned(l - s)
    BY DEF Fair, NotTooMuch
  <2>2. l - s \in Nat /\ s \in Int /\ s <= l
    BY <1>1
  <2>3. Earned(l - s) \in Nat
    BY <2>2, EarnedIs
  <2> HIDE DEF l, k
  <2> QED BY <1>1, <1>3, <2>1, <2>2, <2>3
<1>6. NotTooLittle(g, r.id, c)
  <2> SUFFICES ASSUME NEW u \in Int, u <= l
               PROVE  \/ Full <= (k - Window) + Spent(Often(g, r.id, u + 1, l))
                      \/ Earned(l - u) <= (k - Window) + Spent(Often(g, r.id, u + 1, l))
    BY <1>1 DEF NotTooLittle
  <2>1. CASE u + 1 <= l
    <3>1. \/ Full <= k + Spent(Often(h, r.id, u + 1, l))
          \/ Earned(l - u) <= k + Spent(Often(h, r.id, u + 1, l))
      BY DEF Fair, NotTooLittle
    <3>2. Earned(l - u) \in Nat
      <4>1. l - u \in Nat
        BY <1>1
      <4> QED BY <4>1, EarnedIs
    <3> HIDE DEF l, k
    <3> QED BY <1>1, <1>3, <2>1, <3>1, <3>2
  <2>2. CASE l < u + 1
    <3>1. u = l
      BY <1>1, <2>2
    <3>2. Earned(l - u) = 0
      <4>1. l - u = 0
        BY <1>1, <3>1
      <4> QED BY <4>1, NothingYet
    <3>3. Spent(Often(g, r.id, u + 1, l)) = 0
      <4>1. u + 1 \in Int
        OBVIOUS
      <4>2. Often(g, r.id, u + 1, l) = 0
        BY <1>2, <2>2, <4>1
      <4> QED BY <4>2, NothingYet
    <3> HIDE DEF l, k
    <3> QED BY <1>1, <3>2, <3>3
  <2> QED BY <1>1, <2>1, <2>2
<1>7. c.tokens \in Nat /\ c.tokens <= Full
  <2> HIDE DEF k, l
  <2> QED BY <1>1
<1> QED BY <1>1, <1>4, <1>5, <1>6, <1>7 DEF Fair, g

(* The bucket a request finds, a full one if it is the first.              *)
LEMMA FoundIsFair ==
  ASSUME RateInv, NEW id
  PROVE  /\ Fair(history, id, Rates!Refilled(Rates!Bucket(id)))
         /\ Rates!Refilled(Rates!Bucket(id)).last = clock
<1> DEFINE b == Rates!Bucket(id)
<1>1. clock \in Nat /\ history \in Seq(Entry)
  BY DEF RateInv, RateTypes
<1>2. Fair(history, id, b) /\ b.last <= clock
  <2>1. CASE id \in DOMAIN buckets
    BY <2>1 DEF RateInv, BucketsFair, Rates!Bucket
  <2>2. CASE id \notin DOMAIN buckets
    <3>1. b.tokens = Full /\ b.last = clock
      BY <2>2 DEF Rates!Bucket, Full
    <3>2. \A i \in DOMAIN history : ~(history[i].id = id /\ history[i].answer \in Counts)
      BY <2>2 DEF RateInv, BucketsFair
    <3>3. \A s, t : Often(history, id, s, t) = 0
      <4>1. \A s, t : CountedIn(history, id, s, t) = {}
        BY <3>2 DEF CountedIn
      <4> QED BY <4>1, FS_EmptySet DEF Often
    <3> HIDE DEF b
    <3>4. Full \in Nat /\ Spent(0) = 0
      BY Amounts
    <3>5. NotTooMuch(history, id, b)
      <4> SUFFICES ASSUME NEW s \in 0 .. clock PROVE Spent(0) + Full <= Full + Earned(clock - s)
        BY <3>1, <3>3 DEF NotTooMuch
      <4>1. clock - s \in Nat
        BY <1>1
      <4>2. Earned(clock - s) \in Nat
        BY <4>1, EarnedIs
      <4> QED BY <3>4, <4>2
    <3>6. NotTooLittle(history, id, b)
      BY <3>1, <3>3, <3>4 DEF NotTooLittle
    <3>7. b.last <= clock /\ b.tokens <= Full
      BY <1>1, <3>1, <3>4
    <3> QED BY <1>1, <3>1, <3>2, <3>4, <3>5, <3>6, <3>7 DEF Fair
  <2> QED BY <2>1, <2>2
<1>3. Rates!Refilled(b) = [tokens |-> Rates!Lesser(Full, b.tokens + (clock - b.last) * MaxTokens), last |-> clock]
  BY DEF Rates!Refilled, Full
<1> HIDE DEF b
<1>4. Fair(history, id, Rates!Refilled(b))
  BY <1>1, <1>2, <1>3, RefillIsFair
<1> QED BY <1>3, <1>4 DEF b

(* What a request that finds the bucket b and leaves the bucket c with the *)
(* answer of r makes of the invariant.                                     *)
LEMMA AnswerKeeps ==
  ASSUME RateInv, NEW r \in Entry, r.at = clock,
         history' = Append(history, r), clock' = clock,
         buckets' = [i \in DOMAIN buckets' |-> buckets'[i]],
         DOMAIN buckets \subseteq DOMAIN buckets',
         \A i \in DOMAIN buckets' : i # r.id => i \in DOMAIN buckets /\ buckets'[i] = buckets[i],
         r.id \in DOMAIN buckets' => Fair(history', r.id, buckets'[r.id]) /\ buckets'[r.id].last <= clock,
         r.answer \in Counts => r.id \in DOMAIN buckets' /\ buckets'[r.id].last = clock,
         r.answer = "limited" => \E b : Fair(history, r.id, b) /\ b.last = clock /\ b.tokens < Window
  PROVE  RateInv'
<1> DEFINE g == Append(history, r)
           n == Len(history) + 1
<1>1. /\ clock \in Nat /\ history \in Seq(Entry) /\ \A i \in DOMAIN history : history[i].at <= clock
  BY DEF RateInv, RateTypes
<1>2. /\ g \in Seq(Entry) /\ DOMAIN g = 1 .. n /\ g[n] = r /\ n \in Nat /\ DOMAIN history = 1 .. (n - 1)
      /\ \A i \in DOMAIN g : (i \in DOMAIN history /\ g[i] = history[i]) \/ (i = n /\ g[i] = r)
  BY <1>1
<1>3. /\ \A id, s, t : Often(g, id, s, t) =
           IF r.id = id /\ r.at \in s .. t /\ r.answer \in Counts
             THEN Often(history, id, s, t) + 1 ELSE Often(history, id, s, t)
      /\ \A id, s, t : \A i \in DOMAIN history :
           CountedIn(g, id, s, t) \cap (1 .. i) = CountedIn(history, id, s, t) \cap (1 .. i)
      /\ \A id, s, t : CountedIn(g, id, s, t) \cap (1 .. n) = CountedIn(g, id, s, t)
  BY <1>1, Answered
<1> HIDE DEF g, n
<1>4. history' = g
  BY DEF g
<1>5. RateTypes'
  BY <1>1, <1>2, <1>4 DEF RateTypes
<1>6. BucketsFair'
  <2>1. ASSUME NEW id \in DOMAIN buckets' PROVE Fair(g, id, buckets'[id]) /\ buckets'[id].last <= clock
    <3>1. CASE id # r.id
      <4>1. Fair(history, id, buckets[id]) /\ buckets[id].last <= clock /\ buckets'[id] = buckets[id]
        BY <3>1 DEF RateInv, BucketsFair
      <4> QED BY <1>1, <3>1, <4>1, OtherIsFair DEF g
    <3>2. CASE id = r.id
      BY <1>4, <3>2
    <3> QED BY <3>1, <3>2
  <2>2. \A i \in DOMAIN g : g[i].answer \in Counts => g[i].id \in DOMAIN buckets'
    BY <1>2 DEF RateInv, BucketsFair
  <2> QED BY <1>4, <2>1, <2>2 DEF BucketsFair
<1>7. NeverTooOften(g, clock)
  <2> SUFFICES ASSUME NEW id \in Identities, NEW s \in 0 .. clock, NEW t \in s .. clock
               PROVE  Spent(Often(g, id, s, t)) <= Full + Earned(t - s)
    BY DEF NeverTooOften
  <2>1. CASE ~(r.id = id /\ r.at \in s .. t /\ r.answer \in Counts)
    <3>1. Often(g, id, s, t) = Often(history, id, s, t)
      BY <1>3, <2>1
    <3> QED BY <3>1 DEF RateInv, NeverTooOften
  <2>2. CASE r.id = id /\ r.at \in s .. t /\ r.answer \in Counts
    <3> DEFINE c == buckets'[id]
    <3>1. Fair(g, id, c) /\ c.last = clock
      BY <1>4, <2>2
    <3>2. t = clock
      BY <1>1, <2>2
    <3> HIDE DEF c
    <3>3. Spent(Often(g, id, s, t)) + c.tokens <= Full + Earned(t - s) /\ c.tokens \in Nat
      BY <3>1, <3>2 DEF Fair, NotTooMuch
    <3>4. Spent(Often(g, id, s, t)) \in Nat /\ Full \in Nat /\ Earned(t - s) \in Nat
      <4>1. t - s \in Nat
        BY <1>1
      <4>2. Often(g, id, s, t) \in Nat
        BY <1>2, OftenIs
      <4> QED BY <4>1, <4>2, SpentIs, EarnedIs, NothingYet
    <3> QED BY <3>3, <3>4
  <2> QED BY <2>1, <2>2
<1>8. LimitedAfterBurst(g)
  <2> SUFFICES ASSUME NEW i \in DOMAIN g, g[i].answer = "limited"
               PROVE  Cardinality(CountedIn(g, g[i].id, g[i].at - Window + 1, g[i].at) \cap (1 .. i)) >= MaxTokens
    BY DEF LimitedAfterBurst
  <2>1. CASE i \in DOMAIN history /\ g[i] = history[i]
    BY <1>3, <2>1 DEF RateInv, LimitedAfterBurst
  <2>2. CASE i = n /\ g[i] = r
    <3>1. PICK b : Fair(history, r.id, b) /\ b.last = clock /\ b.tokens < Window
      BY <2>2
    <3> DEFINE u == clock - Window
               k == Often(history, r.id, u + 1, clock)
    <3>2. u \in Int /\ u <= clock /\ clock - u = Window /\ Window \in Nat
      BY <1>1, RateParameters
    <3>3. Full <= b.tokens + Spent(k)
      <4>1. Earned(clock - u) = Full
        BY <3>2, Amounts
      <4> QED BY <3>1, <3>2, <4>1 DEF Fair, NotTooLittle
    <3>4. k \in Nat /\ Spent(k) \in Nat /\ b.tokens \in Nat /\ Full \in Nat
      <4>1. k \in Nat
        BY <1>1, OftenIs
      <4> QED BY <3>1, <4>1, SpentIs, NothingYet DEF Fair
    <3>5. MaxTokens <= k
      <4> HIDE DEF k, u
      <4>1. Full < Spent(k) + Window
        BY <3>1, <3>2, <3>3, <3>4
      <4>2. \A m \in Nat : Full < Spent(m) + Window => MaxTokens <= m
        BY Amounts
      <4> QED BY <3>4, <4>1, <4>2
    <3>6. Often(g, r.id, u + 1, clock) = k
      <4>1. r.answer \notin Counts
        BY <2>2 DEF Counts
      <4> QED BY <1>3, <4>1
    <3>7. CountedIn(g, r.id, u + 1, clock) \cap (1 .. i) = CountedIn(g, r.id, u + 1, clock)
      BY <1>3, <2>2
    <3> HIDE DEF k
    <3> QED BY <2>2, <3>4, <3>5, <3>6, <3>7, RateParameters DEF Often
  <2> QED BY <1>2, <2>1, <2>2
<1> QED BY <1>4, <1>5, <1>6, <1>7, <1>8 DEF RateInv

LEMMA RequestKeeps == ASSUME RateInv, NEW id \in Identities, Rates!Request(id) PROVE RateInv'
<1> DEFINE b == Rates!Refilled(Rates!Bucket(id))
<1>1. Fair(history, id, b) /\ b.last = clock
  BY FoundIsFair
<1>2. /\ clock \in Nat /\ history \in Seq(Entry) /\ clock' = clock
      /\ buckets = [i \in DOMAIN buckets |-> buckets[i]]
  BY DEF RateInv, RateTypes, Rates!Request
<1>3. b = [tokens |-> b.tokens, last |-> b.last]
  BY DEF Rates!Refilled
<1>4. PICK declared \in {"small", "large", "chunked"}, streamed \in {"small", "large"} :
        IF declared = "large" THEN Rates!Answers(id, "too large") /\ UNCHANGED buckets
        ELSE /\ buckets' = [i \in DOMAIN buckets \cup {id} |->
                  IF i # id THEN buckets[i]
                  ELSE IF b.tokens >= Window THEN [b EXCEPT !.tokens = @ - Window] ELSE b]
             /\ Rates!Answers(id, IF b.tokens < Window THEN "limited"
                             ELSE IF declared = "chunked" /\ streamed = "large" THEN "counted, too large"
                             ELSE "admitted")
  BY DEF Rates!Request
<1> HIDE DEF b
<1>5. CASE declared = "large"
  <2> DEFINE r == [id |-> id, at |-> clock, answer |-> "too large"]
  <2>1. r \in Entry /\ r.answer \notin Counts /\ r.at = clock /\ r.id = id /\ r.answer # "limited"
    BY <1>2 DEF Entry, Counts
  <2>2. history' = Append(history, r) /\ buckets' = buckets
    BY <1>4, <1>5 DEF Rates!Answers
  <2> HIDE DEF r
  <2>3. id \in DOMAIN buckets => Fair(history', id, buckets[id]) /\ buckets[id].last <= clock
    BY <1>2, <2>1, <2>2, OtherIsFair DEF RateInv, BucketsFair
  <2> QED BY <1>2, <2>1, <2>2, <2>3, AnswerKeeps
<1>6. CASE declared # "large" /\ b.tokens < Window
  <2> DEFINE r == [id |-> id, at |-> clock, answer |-> "limited"]
  <2>1. r \in Entry /\ r.answer \notin Counts /\ r.at = clock /\ r.id = id /\ r.answer = "limited"
    BY <1>2 DEF Entry, Counts
  <2>2. ~(b.tokens >= Window)
    BY <1>1, <1>6, RateParameters DEF Fair
  <2>3. history' = Append(history, r) /\ buckets' = [i \in DOMAIN buckets \cup {id} |-> IF i # id THEN buckets[i] ELSE b]
    BY <1>4, <1>6, <2>2 DEF Rates!Answers
  <2> HIDE DEF r
  <2>4. /\ DOMAIN buckets' = DOMAIN buckets \cup {id} /\ buckets'[id] = b
        /\ \A i \in DOMAIN buckets' : i # id => i \in DOMAIN buckets /\ buckets'[i] = buckets[i]
        /\ buckets' = [i \in DOMAIN buckets' |-> buckets'[i]]
    BY <2>3
  <2>5. Fair(history', id, b)
    BY <1>1, <1>2, <2>1, <2>3, OtherIsFair
  <2>6. b.last <= clock
    BY <1>1, <1>2
  <2> QED BY <1>1, <1>2, <1>6, <2>1, <2>3, <2>4, <2>5, <2>6, AnswerKeeps
<1>7. CASE declared # "large" /\ ~(b.tokens < Window)
  <2> DEFINE a == IF declared = "chunked" /\ streamed = "large" THEN "counted, too large" ELSE "admitted"
             r == [id |-> id, at |-> clock, answer |-> a]
             c == [b EXCEPT !.tokens = @ - Window]
  <2>1. r \in Entry /\ r.answer \in Counts /\ r.at = clock /\ r.id = id /\ r.answer # "limited"
    BY <1>2 DEF Entry, Counts
  <2>2. b.tokens >= Window /\ b.tokens \in Nat
    BY <1>1, <1>7, RateParameters DEF Fair
  <2>3. history' = Append(history, r) /\ buckets' = [i \in DOMAIN buckets \cup {id} |-> IF i # id THEN buckets[i] ELSE c]
    BY <1>4, <1>7, <2>2 DEF Rates!Answers
  <2>4. c.tokens = b.tokens - Window /\ c.last = b.last
    BY <1>3
  <2> HIDE DEF r, c
  <2>5. /\ DOMAIN buckets' = DOMAIN buckets \cup {id} /\ buckets'[id] = c
        /\ \A i \in DOMAIN buckets' : i # id => i \in DOMAIN buckets /\ buckets'[i] = buckets[i]
        /\ buckets' = [i \in DOMAIN buckets' |-> buckets'[i]]
    BY <2>3
  <2>6. Fair(history', id, c)
    <3>1. Window <= b.tokens
      BY <2>2, RateParameters
    <3> QED BY <1>1, <1>2, <2>1, <2>3, <2>4, <3>1, AdmitIsFair
  <2>7. c.last = clock /\ c.last <= clock
    BY <1>1, <1>2, <2>4
  <2> QED BY <1>2, <2>1, <2>3, <2>5, <2>6, <2>7, AnswerKeeps
<1> QED BY <1>5, <1>6, <1>7

LEMMA ProbeKeeps == ASSUME RateInv, NEW id \in Identities, Rates!Probe(id) PROVE RateInv'
<1> DEFINE r == [id |-> id, at |-> clock, answer |-> "probe"]
<1>1. /\ clock \in Nat /\ history \in Seq(Entry) /\ clock' = clock /\ buckets' = buckets
      /\ buckets = [i \in DOMAIN buckets |-> buckets[i]] /\ history' = Append(history, r)
  BY DEF RateInv, RateTypes, Rates!Probe, Rates!Answers
<1>2. r \in Entry /\ r.answer \notin Counts /\ r.at = clock /\ r.id = id /\ r.answer # "limited"
  BY <1>1 DEF Entry, Counts
<1> HIDE DEF r
<1>3. id \in DOMAIN buckets => Fair(history', id, buckets[id]) /\ buckets[id].last <= clock
  BY <1>1, <1>2, OtherIsFair DEF RateInv, BucketsFair
<1> QED BY <1>1, <1>2, <1>3, AnswerKeeps

LEMMA TickKeeps == ASSUME RateInv, Rates!Tick PROVE RateInv'
<1>1. /\ clock \in Nat /\ history \in Seq(Entry) /\ clock' = clock + 1 /\ buckets' = buckets /\ history' = history
      /\ \A i \in DOMAIN history : history[i].at <= clock
  BY DEF RateInv, RateTypes, Rates!Tick
<1>2. \A i \in DOMAIN history : history[i].at \in Nat
  <2>1. \A i \in DOMAIN history : history[i] \in Entry
    BY <1>1
  <2> QED BY <2>1 DEF Entry
<1>3. RateTypes'
  BY <1>1, <1>2 DEF RateInv, RateTypes
<1>4. BucketsFair'
  <2>1. \A id \in DOMAIN buckets : buckets[id].last \in Nat /\ buckets[id].last <= clock
    BY DEF RateInv, BucketsFair, Fair
  <2>2. \A id \in DOMAIN buckets : buckets[id].last <= clock + 1
    BY <1>1, <2>1
  <2> QED BY <1>1, <2>2 DEF RateInv, BucketsFair
<1>5. NeverTooOften(history, clock + 1)
  <2> SUFFICES ASSUME NEW id \in Identities, NEW s \in 0 .. (clock + 1), NEW t \in s .. (clock + 1)
               PROVE  Spent(Often(history, id, s, t)) <= Full + Earned(t - s)
    BY DEF NeverTooOften
  <2>1. /\ \A x, y \in Int : clock <= y => Often(history, id, x, y) = Often(history, id, x, clock)
        /\ \A x, y \in Int : clock < x => Often(history, id, x, y) = 0
    BY <1>1, NoneSince
  <2>2. t - s \in Nat /\ s \in Int /\ t \in Int
    BY <1>1
  <2>3. Earned(t - s) \in Nat /\ Full \in Nat
    BY <2>2, EarnedIs, NothingYet
  <2>4. CASE t <= clock
    <3>1. s \in 0 .. clock /\ t \in s .. clock
      BY <1>1, <2>4
    <3> QED BY <3>1 DEF RateInv, NeverTooOften
  <2>5. CASE t = clock + 1 /\ s <= clock
    <3>1. Often(history, id, s, t) = Often(history, id, s, clock)
      BY <1>1, <2>1, <2>2, <2>5
    <3>2. s \in 0 .. clock /\ clock \in s .. clock
      BY <1>1, <2>5
    <3>3. Spent(Often(history, id, s, clock)) <= Full + Earned(clock - s)
      BY <3>2 DEF RateInv, NeverTooOften
    <3>4. Earned(t - s) = Earned(clock - s) + Earned(1)
      <4>1. t - s = (clock - s) + 1 /\ clock - s \in Int /\ 1 \in Int
        BY <1>1, <2>5
      <4> QED BY <4>1, Amounts
    <3>5. Earned(clock - s) \in Nat /\ Earned(1) \in Nat /\ Spent(Often(history, id, s, clock)) \in Nat
      <4>1. clock - s \in Nat /\ 1 \in Nat /\ Often(history, id, s, clock) \in Nat
        BY <1>1, <3>2, OftenIs
      <4> QED BY <4>1, EarnedIs, SpentIs
    <3> QED BY <2>3, <3>1, <3>3, <3>4, <3>5
  <2>6. CASE t = clock + 1 /\ clock < s
    <3>1. Often(history, id, s, t) = 0
      BY <2>1, <2>2, <2>6
    <3> QED BY <2>3, <3>1, NothingYet
  <2> QED BY <1>1, <2>2, <2>4, <2>5, <2>6
<1> QED BY <1>1, <1>3, <1>4, <1>5 DEF RateInv

LEMMA RateInvHolds == RateInv => Rates!RateHolds
<1> SUFFICES ASSUME RateInv PROVE Rates!RateHolds
  OBVIOUS
<1>1. \A S : Rates!Cardinality(S) = Cardinality(S)
  BY DEF Rates!Cardinality, Cardinality
<1>2. \A id, s, t : Rates!Counted(id, s, t) = CountedIn(history, id, s, t)
  BY DEF Rates!Counted, CountedIn, Counts
<1>3. \A id \in Identities, s \in 0 .. clock : \A t \in s .. clock :
        Rates!Cardinality(Rates!Counted(id, s, t)) * Window <= Rates!Full + (t - s) * MaxTokens
  BY <1>1, <1>2 DEF RateInv, NeverTooOften, Spent, Earned, Often, Full
<1>4. \A i \in DOMAIN history : history[i].answer = "limited" =>
        Rates!Cardinality(Rates!Counted(history[i].id, history[i].at - Window + 1, history[i].at) \cap (1 .. i)) >= MaxTokens
  BY <1>1, <1>2 DEF RateInv, LimitedAfterBurst
<1> QED BY <1>3, <1>4 DEF Rates!RateHolds

LEMMA RateStarts == Rates!Init => RateInv
<1> SUFFICES ASSUME Rates!Init PROVE RateInv
  OBVIOUS
<1>1. /\ clock = 0 /\ buckets = <<>> /\ history = <<>> /\ history \in Seq(Entry)
      /\ DOMAIN history = {} /\ DOMAIN buckets = {}
  BY DEF Rates!Init
<1>2. NeverTooOften(history, clock)
  <2>1. \A id, s, t : Often(history, id, s, t) = 0
    <3>1. \A id, s, t : CountedIn(history, id, s, t) = {}
      BY <1>1 DEF CountedIn
    <3> QED BY <3>1, FS_EmptySet DEF Often
  <2> SUFFICES ASSUME NEW s \in 0 .. clock, NEW t \in s .. clock PROVE Spent(0) <= Full + Earned(t - s)
    BY <2>1 DEF NeverTooOften
  <2>2. t - s = 0
    BY <1>1
  <2> QED BY <2>2, NothingYet
<1> QED BY <1>1, <1>2 DEF RateInv, RateTypes, BucketsFair, LimitedAfterBurst

(* Over any stretch of time an identity is admitted at most as often as a  *)
(* full bucket and the refill of that time allow, and it is refused only   *)
(* after it used a whole bucket within the last window: for any identities,*)
(* any size of bucket and any window (rate_limit.py).                      *)
THEOREM RateIsLimited == MCSpec => []RateHolds
<1> DEFINE Held == part = "rates" => RateInv
<1>1. MCInit => Held
  BY RateStarts DEF MCInit
<1>2. Held /\ [MCNext]_allVars => Held'
  <2> SUFFICES ASSUME Held, [MCNext]_allVars, part' = "rates" PROVE RateInv'
    OBVIOUS
  <2>1. part = "rates" /\ RateInv
    BY DEF MCNext, allVars
  <2>2. CASE Rates!Next
    BY <2>1, <2>2, TickKeeps, RequestKeeps, ProbeKeeps DEF Rates!Next
  <2>3. CASE UNCHANGED rateVars
    <3>1. clock' = clock /\ buckets' = buckets /\ history' = history
      BY <2>3 DEF rateVars
    <3> QED BY <2>1, <3>1 DEF RateInv, RateTypes, BucketsFair
  <2> QED
    BY <2>1, <2>2, <2>3 DEF MCNext, allVars
<1>3. Held => RateHolds
  BY RateInvHolds DEF RateHolds
<1> QED
  BY <1>1, <1>2, <1>3, PTL DEF MCSpec
==============================================================================
