----------------------------- MODULE PromptShield ------------------------------
(***************************************************************************)
(* PromptShieldGuard around agents that share an execution context, some   *)
(* of them PromptInjectionAgents: a scan may put the context in restricted *)
(* mode, which narrows the capabilities of the runs after it, is announced *)
(* once, and has leaking outputs redacted.  Scans take time and two scans  *)
(* of one text may differ.                                                 *)
(***************************************************************************)
EXTENDS Integers, Sequences, FiniteSets

CONSTANTS
  Runs,         \* calls of the middleware
  Branch,       \* those in the branch of a fan-out, which has a context of its own
  Checked,      \* those whose agent is a PromptInjectionAgent
  BlockOnLeak,  \* its block_on_canary_leak
  Sensitive, Harmless   \* capabilities of the main context

ShieldAssumption == Checked \subseteq Runs /\ BlockOnLeak \in BOOLEAN

VARIABLES
  pc,
  restricted, caps,  \* of each context: "main", and "branch" from the fan-out on
  forked,
  base,         \* the capabilities a run read before its scan
  was, scan,    \* of a run: whether its context was restricted as its scan ended, and the verdict
  announced,    \* RestrictedModeEntered events: the runs that emitted them
  granted,      \* the capabilities a run began to execute with
  report,       \* state_updates["rebuff"]: [injection, leaked, blocked]
  asked,        \* runs whose agent called the model
  output        \* what a run returns: "none", "clean", "secret", "canary", "refused", "redacted"

sVars == <<pc, restricted, caps, forked, base, was, scan, announced, granted, report, asked, output>>

Contexts == {"main", "branch"}
Of(r) == IF r \in Branch THEN "branch" ELSE "main"
NoReport == [injection |-> FALSE, leaked |-> FALSE, blocked |-> FALSE]
NoScan == [detected |-> FALSE, risky |-> FALSE]
Init ==
  /\ pc = [r \in Runs |-> "idle"]
  /\ restricted = [c \in Contexts |-> FALSE]
  /\ caps = [c \in Contexts |-> IF c = "main" THEN Sensitive \cup Harmless ELSE {}]
  /\ forked = FALSE
  /\ base = [r \in Runs |-> {}] /\ was = [r \in Runs |-> FALSE] /\ scan = [r \in Runs |-> NoScan]
  /\ announced = <<>> /\ granted = [r \in Runs |-> {}]
  /\ report = [r \in Runs |-> NoReport] /\ asked = {} /\ output = [r \in Runs |-> "none"]

Goes(r, to) == pc' = [pc EXCEPT ![r] = to]

(* clone_for_branch copies the mode; the capabilities are not copied, and  *)
(* what a branch enters does not come back.                                *)
Fork ==
  /\ ~forked /\ forked' = TRUE
  /\ restricted' = [restricted EXCEPT !["branch"] = restricted["main"]]
  /\ UNCHANGED <<pc, caps, base, was, scan, announced, granted, report, asked, output>>

-----------------------------------------------------------------------------
(* pre_execute_scan.                                                       *)
Begin(r) ==
  /\ pc[r] = "idle" /\ (r \in Branch => forked)
  /\ base' = [base EXCEPT ![r] = caps[Of(r)]]
  /\ Goes(r, "scan")
  /\ UNCHANGED <<restricted, caps, forked, was, scan, announced, granted, report, asked, output>>
(* The whole of this runs without an await.                                *)
Slip_Newly(r) == TRUE
Newly(r) == ~restricted[Of(r)]
Scanned(r) ==
  /\ pc[r] = "scan"
  /\ \E verdict \in [detected : BOOLEAN, risky : BOOLEAN] :
       /\ scan' = [scan EXCEPT ![r] = verdict]
       /\ was' = [was EXCEPT ![r] = restricted[Of(r)]]
       /\ restricted' = [restricted EXCEPT ![Of(r)] = @ \/ verdict.risky \/ verdict.detected]
       /\ Goes(r, IF Newly(r) /\ restricted'[Of(r)] THEN "announce" ELSE "narrow")
  /\ UNCHANGED <<caps, forked, base, announced, granted, report, asked, output>>
ScanFails(r) ==
  /\ pc[r] \in {"scan", "detect", "canary", "leak"} /\ Goes(r, "failed")
  /\ UNCHANGED <<restricted, caps, forked, base, was, scan, announced, granted, report, asked, output>>
Announce(r) ==
  /\ pc[r] = "announce"
  /\ \/ announced' = Append(announced, r) /\ Goes(r, "narrow")
     \/ announced' = announced /\ Goes(r, "failed")
  /\ UNCHANGED <<restricted, caps, forked, base, was, scan, granted, report, asked, output>>

(* CapabilityAttenuator.get_allowed_capabilities, by the mode of now.      *)
Allowed(c, given) == IF restricted[c] THEN given \ Sensitive ELSE given
Narrow(r) ==
  /\ pc[r] = "narrow"
  /\ caps' = [caps EXCEPT ![Of(r)] = Allowed(Of(r), base[r])]
  /\ granted' = [granted EXCEPT ![r] = caps'[Of(r)]]
  /\ Goes(r, IF r \in Checked THEN "detect" ELSE "model")
  /\ UNCHANGED <<restricted, forked, base, was, scan, announced, report, asked, output>>

-----------------------------------------------------------------------------
(* PromptInjectionAgent.run: its own scan, the canary in a copy of the     *)
(* agent, the model, and the look for the canary in its answer.            *)
Detect(r) ==
  /\ pc[r] = "detect"
  /\ \E detected \in BOOLEAN :
       /\ report' = [report EXCEPT ![r] =
                       [injection |-> detected, leaked |-> FALSE, blocked |-> detected]]
       /\ output' = IF detected THEN [output EXCEPT ![r] = "refused"] ELSE output
       /\ Goes(r, IF detected THEN "post" ELSE "canary")
  /\ UNCHANGED <<restricted, caps, forked, base, was, scan, announced, granted, asked>>
AddCanary(r) ==
  /\ pc[r] = "canary" /\ Goes(r, "model")
  /\ UNCHANGED <<restricted, caps, forked, base, was, scan, announced, granted, report, asked, output>>
AskModel(r) ==
  /\ pc[r] = "model" /\ asked' = asked \cup {r}
  /\ \/ Goes(r, "failed") /\ UNCHANGED output
     \/ /\ \E o \in {"clean", "secret"} \cup (IF r \in Checked THEN {"canary"} ELSE {}) : output' = [output EXCEPT ![r] = o]
        /\ Goes(r, IF r \in Checked THEN "leak" ELSE "post")
  /\ UNCHANGED <<restricted, caps, forked, base, was, scan, announced, granted, report>>
CheckLeak(r) ==
  /\ pc[r] = "leak"
  /\ LET leaked == output[r] = "canary" IN
     /\ report' = [report EXCEPT ![r] =
          [injection |-> report[r].injection, leaked |-> leaked, blocked |-> leaked /\ BlockOnLeak]]
     /\ output' = IF leaked /\ BlockOnLeak THEN [output EXCEPT ![r] = "refused"] ELSE output
  /\ Goes(r, "post")
  /\ UNCHANGED <<restricted, caps, forked, base, was, scan, announced, granted, asked>>

(* post_execute_scan: by the mode of now, not that of the run's own scan.  *)
Post(r) ==
  /\ pc[r] = "post"
  /\ output' = IF restricted[Of(r)] /\ output[r] = "secret" THEN [output EXCEPT ![r] = "redacted"] ELSE output
  /\ Goes(r, "done")
  /\ UNCHANGED <<restricted, caps, forked, base, was, scan, announced, granted, report, asked>>

Next == Fork \/ \E r \in Runs :
  \/ Begin(r) \/ Scanned(r) \/ ScanFails(r) \/ Announce(r) \/ Narrow(r)
  \/ Detect(r) \/ AddCanary(r) \/ AskModel(r) \/ CheckLeak(r) \/ Post(r)
Spec == Init /\ [][Next]_sVars

-----------------------------------------------------------------------------
(* Restricted mode sticks, however the runs of a context interleave: it is *)
(* announced at most once per context, and not at all only while the run   *)
(* that entered it is about to, or failed to, or before the fan-out; once  *)
(* a run of a restricted context has narrowed its capabilities no late run *)
(* widens them again; and a run that was judged an attack never executes   *)
(* with sensitive capabilities, nor returns a secret.                      *)
By(c) == {i \in DOMAIN announced : Of(announced[i]) = c}
ShieldSticks ==
  /\ \A c \in Contexts :
       LET here == {r \in Runs : Of(r) = c} IN
       /\ Cardinality(By(c)) <= 1
       /\ restricted[c] /\ By(c) = {} =>
            \/ \E r \in here : pc[r] \in {"announce", "failed"} /\ (scan[r].detected \/ scan[r].risky)
            \/ c = "branch" /\ forked
       /\ (\E r \in here : pc[r] \notin {"idle", "scan", "announce", "narrow", "failed"} /\ was[r]) =>
            caps[c] \cap Sensitive = {}
  /\ \A r \in Runs : scan[r].detected \/ scan[r].risky \/ was[r] =>
       granted[r] \cap Sensitive = {} /\ ~(pc[r] = "done" /\ output[r] = "secret")
  /\ \A r \in Checked : pc[r] = "done" =>
       /\ report[r].injection => r \notin asked /\ output[r] = "refused"
       /\ BlockOnLeak => output[r] # "canary"
=============================================================================
