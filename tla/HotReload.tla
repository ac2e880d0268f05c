----------------------------- MODULE HotReload ------------------------------
(***************************************************************************)
(* Discovery and hot reload: a project is scanned, and then a watcher      *)
(* takes the changes of its files one by one (discovery/hotreload.py).     *)
(* Handling a change has no await that waits, but files may change again   *)
(* before and after it, and it reads them as they are then.                *)
(*                                                                         *)
(* An agent is the name in its file and the edit that made it, a workflow  *)
(* is the names of agents its text refers to; a workflow is called after   *)
(* its file.                                                               *)
(***************************************************************************)
EXTENDS Integers, FiniteSets

CONSTANTS
  AgentFiles,     \* file stems under agents/
  WorkflowFiles,  \* file stems under workflows/
  LastEdit        \* bound: how often files are edited

(* Files are told apart by their directory.                                *)
HotReloadAssumption == AgentFiles \cap WorkflowFiles = {} /\ LastEdit \in Nat

VARIABLES
  texts,      \* what the files say
  changed,    \* changes the watcher has not yet been given
  agents,     \* the agent registry: what a name stands for, 0 for nothing
  known,      \* _workflow_files
  graphs,     \* the graph registry: a workflow's text and the agents in it
  edits,      \* edits so far
  aborted,    \* workflows that a failed recompilation left (not in the code)
  aliases     \* stems that an agent of another name is known by (not in the code)

hVars == <<texts, changed, agents, known, graphs, edits, aborted, aliases>>

Files == AgentFiles \cup WorkflowFiles
Absent == [kind |-> "absent", name |-> "", refs |-> {}, edit |-> 0]
AgentText(name, edit) == [kind |-> "good", name |-> name, refs |-> {}, edit |-> edit]
WorkflowText(kind, refs, edit) == [kind |-> kind, name |-> "", refs |-> refs, edit |-> edit]

(* load_workflow: every agent must be in the registry.                     *)
NotServed == [text |-> Absent, made |-> <<>>]
Loads(text, registry) == text.kind = "good" /\ \A r \in text.refs : registry[r] # 0
Graph(text, registry) == [text |-> text, made |-> [r \in text.refs |-> registry[r]]]

(* ProjectScanner.scan(), and start(), which knows every file there is.    *)
Init ==
  /\ \E refs \in [WorkflowFiles -> SUBSET AgentFiles], some \in SUBSET WorkflowFiles, first \in SUBSET AgentFiles :
       texts = [f \in Files |->
         IF f \in first THEN AgentText(f, 1)
         ELSE IF f \in some THEN WorkflowText("good", refs[f], 1) ELSE Absent]
  /\ agents = [f \in AgentFiles |-> texts[f].edit]
  /\ known = {w \in WorkflowFiles : texts[w] # Absent}
  /\ graphs = [w \in WorkflowFiles |->
                 IF Loads(texts[w], agents) THEN Graph(texts[w], agents) ELSE NotServed]
  /\ changed = {} /\ edits = 1 /\ aborted = {} /\ aliases = {}

(* Somebody edits or deletes a file.                                       *)
Edit(f) ==
  /\ edits < LastEdit
  /\ texts' \in {[texts EXCEPT ![f] = t] :
       t \in {Absent} \cup (IF f \in AgentFiles THEN {AgentText(n, edits + 1) : n \in AgentFiles}
                            ELSE {WorkflowText(k, r, edits + 1) : k \in {"good", "broken"}, r \in SUBSET AgentFiles})}
  /\ texts' # texts
  /\ changed' = changed \cup {f} /\ edits' = edits + 1
  /\ UNCHANGED <<agents, known, graphs, aborted, aliases>>

-----------------------------------------------------------------------------
(* _recompile_affected_workflows: all of them are compiled before any is   *)
(* registered; one that does not compile leaves all as they are.           *)
Affected(name) == {w \in known : texts[w].kind # "absent" /\ name \in texts[w].refs}
Compiled(registry, ws) == {w \in ws : Loads(texts[w], registry)}
Slip_Committed(registry, ws) == Compiled(registry, ws)
Committed(registry, ws) == IF Compiled(registry, ws) = ws THEN ws ELSE {}
Register(registry, ws) ==
  graphs' = [w \in WorkflowFiles |-> IF w \in ws THEN Graph(texts[w], registry) ELSE graphs[w]]

(* _reload_agent: the agent is registered under its name and the stem of   *)
(* its file, and stays so if the workflows do not compile.  A file that is *)
(* gone does not load.                                                     *)
ReloadAgent(f) ==
  LET name == texts[f].name
      registry == [n \in AgentFiles |-> IF n \in {name, f} THEN texts[f].edit ELSE agents[n]]
      committed == Committed(registry, Affected(name))
  IN  /\ texts[f].kind = "good"
      /\ agents' = registry
      /\ aliases' = aliases \cup ({f} \ {name})
      /\ Register(registry, committed)
      /\ aborted' = (aborted \cup Affected(name)) \ committed
      /\ UNCHANGED known

ReloadWorkflow(w) ==
  /\ Loads(texts[w], agents)
  /\ Register(agents, {w})
  /\ known' = known \cup {w} /\ aborted' = aborted \ {w}
  /\ UNCHANGED <<agents, aliases>>

(* What does not load is logged and leaves everything as it is.            *)
Fails(f) ==
  /\ f \in AgentFiles => texts[f].kind # "good"
  /\ f \in WorkflowFiles => ~Loads(texts[f], agents)
  /\ UNCHANGED <<agents, known, graphs, aborted, aliases>>

(* _handle_change: the changes of a batch are a set, in any order.         *)
HandleChange(f) ==
  /\ f \in changed
  /\ \/ f \in AgentFiles /\ ReloadAgent(f)
     \/ f \in WorkflowFiles /\ ReloadWorkflow(f)
     \/ Fails(f)
  /\ changed' = changed \ {f}
  /\ UNCHANGED <<texts, edits>>

Next == \E f \in Files : Edit(f) \/ HandleChange(f)
Spec == Init /\ [][Next]_hVars

-----------------------------------------------------------------------------
(* A graph that is served is made of the agents that are registered now,   *)
(* all of them, unless its file says something else by now, a failed       *)
(* recompilation has left it, or it refers to an agent by the stem of its  *)
(* file only; and a reloaded agent gets into every workflow that refers to *)
(* it or into none (discovery/hotreload.py, "stage-then-commit").          *)
Current(w) ==
  graphs[w].text = texts[w] /\ texts[w].kind = "good" /\ w \notin aborted =>
    \A r \in texts[w].refs : r \in aliases \/ graphs[w].made[r] = agents[r]
ServesCurrent == \A w \in WorkflowFiles : Current(w)
AllOrNone ==
  \A f \in AgentFiles \cap (changed \ changed') :
    \/ graphs' = graphs
    \/ \A w \in Affected(texts[f].name) : graphs'[w] = Graph(texts[w], agents')

(* What is served does not depend on the order of the changes in a batch:  *)
(* does not hold, a new workflow whose agent is loaded after it fails, is  *)
(* not known, and is not tried again.                                      *)
OrderIsIrrelevant ==
  changed = {} => \A w \in WorkflowFiles : Loads(texts[w], agents) => graphs[w] = Graph(texts[w], agents)
=============================================================================
