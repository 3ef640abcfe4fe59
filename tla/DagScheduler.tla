---------------------------- MODULE DagScheduler ----------------------------
(***************************************************************************)
(* One execution of a compiled DAG playbook by DAGScheduler                *)
(* (services/playbook/playbook_dag_scheduler.py).                          *)
(*                                                                         *)
(* The scheduler runs on one asyncio event loop, so a coroutine is atomic  *)
(* between two suspension points.  Only two kinds of coroutine suspend:    *)
(* the execute() coroutine, which sleeps between two looks at the sets of  *)
(* finished nodes, and a node task, which awaits the database when the     *)
(* secrets are not cached yet, and then its plugin.  A node task is        *)
(* therefore created but not yet begun, or loading the secrets, or inside  *)
(* its plugin.  Two tasks of one node in the same phase cannot be told     *)
(* apart, so they are counted.  The order in which ready tasks, secrets    *)
(* and plugin answers are resumed is left open.                            *)
(***************************************************************************)
EXTENDS Naturals, FiniteSets

CONSTANTS
  Nodes,            \* the node ids of the compiled DAG
  Edges,            \* its edges: records source, target, condition
  Mocked,           \* nodes whose type has no plugin
  FailFast,         \* failure_strategy: TRUE "fail_fast", FALSE "continue"
  HangingPlugins    \* TRUE: a plugin may outlast the 3600 s of the run

Conditions ==
  {"none", "always", "never", "result == true", "result == false",
   "status == success", "field >= number"}

(***************************************************************************)
(* What DAGCompiler.validate_and_compile lets through: edges between known *)
(* nodes and no cycle, a DAG without nodes included.  Acyclicity is stated *)
(* as: every non-empty set of nodes has a member that no edge enters from  *)
(* inside the set.                                                         *)
(***************************************************************************)
Acyclic ==
  \A S \in (SUBSET Nodes) \ {{}} :
     \E n \in S : \A e \in Edges : e.target = n => e.source \notin S

ASSUME DagAssumption ==
  /\ IsFiniteSet(Nodes)
  /\ Edges \subseteq [source : Nodes, target : Nodes, condition : Conditions]
  /\ IsFiniteSet(Edges)
  /\ Acyclic
  /\ Mocked \subseteq Nodes
  /\ FailFast \in BOOLEAN
  /\ HangingPlugins \in BOOLEAN

VARIABLES
  main,        \* the execute() coroutine: "new", "waiting" (registered), "ended"
  created,     \* per node, tasks created and not yet begun
  inflight,    \* per node, tasks suspended inside _execute_node_plugin
  loading,     \* per node, those of them that await _load_secrets
  loaded,      \* _secrets_cache is set
  completed,   \* completed_nodes
  failed,      \* failed_nodes
  cancelled,   \* the cancelled flag
  entered,     \* per node, tasks that have passed the guards (history)
  invoked,     \* per node, plugin calls made so far (history)
  result       \* what execute() returned: flag and finished sets at that time

secretVars == <<loading, loaded>>
vars == <<main, created, inflight, secretVars, completed, failed, cancelled, entered, invoked, result>>

-----------------------------------------------------------------------------

InEdges(n) == {e \in Edges : e.target = n}
Sources(n) == {e.source : e \in InEdges(n)}

(* Mutant: counts a node with a single dependency as a root.               *)
LooseRoots == {n \in Nodes : Cardinality(Sources(n)) <= 1}

Roots == {n \in Nodes : Sources(n) = {}}

(* The part of a plugin's output dict the scheduler looks at: "result" may *)
(* be no boolean at all; "field" is whether the numeric field named by a   *)
(* comparison satisfies it (or cannot be compared, which counts as yes).   *)
Outputs == [status : {"success", "skipped", "error"},
            result : {"true", "false", "other"}, field : BOOLEAN]

Succeeds(out) == out.status \in {"success", "skipped"}

(* Mutant: an edge without a condition lets nothing through.               *)
StrictCondition(condition, out) ==
  condition = "always" \/ (condition = "status == success" /\ out.status = "success")

(* A condition the evaluator does not recognise counts as "always".        *)
EvaluateCondition(condition, out) ==
  \/ condition \in {"none", "always"}
  \/ condition = "result == true" /\ out.result = "true"
  \/ condition = "result == false" /\ out.result = "false"
  \/ condition = "status == success" /\ out.status = "success"
  \/ condition = "field >= number" /\ out.field

(* Tasks created for n by the edges out of p that out lets through.        *)
Triggered(p, n, out) ==
  {e \in Edges : e.source = p /\ e.target = n
                 /\ EvaluateCondition(e.condition, out)}

(* Mutant: leaves the loop over the outgoing edges after one of them.      *)
StartOneDependent(p, out, before) ==
  LET triggered == {n \in Nodes : Triggered(p, n, out) # {}}
      chosen == CHOOSE n \in triggered : TRUE
  IN  created' = [n \in Nodes |-> before[n] + IF n \in triggered /\ n = chosen THEN 1 ELSE 0]

(* before: the tasks created so far and not begun.                         *)
StartDependentNodes(p, out, before) ==
  created' = [n \in Nodes |-> before[n] + Cardinality(Triggered(p, n, out))]

Finished == completed \union failed

(* Mutant: one node short.                                                 *)
AlmostFinished ==
  /\ Cardinality(completed) + Cardinality(failed) + 1 >= Cardinality(Nodes)
  /\ Nodes # {}

(* The loop asks for total > 0 as well: no count ends a DAG without nodes. *)
AllFinished ==
  /\ Cardinality(completed) + Cardinality(failed) >= Cardinality(Nodes)
  /\ Nodes # {}

Quiescent == \A n \in Nodes : created[n] = 0 /\ inflight[n] = 0

(* Mutant: forgets the cancelled flag.                                     *)
RunnableAnyway(n) == n \notin Finished /\ Sources(n) \subseteq completed

Runnable(n) ==
  /\ ~cancelled
  /\ n \notin Finished
  /\ Sources(n) \subseteq completed

NoResult == [cancelled |-> FALSE, completed |-> {}, failed |-> {}]

-----------------------------------------------------------------------------

Init ==
  /\ main = "new"
  /\ created = [n \in Nodes |-> 0]
  /\ inflight = [n \in Nodes |-> 0]
  /\ loading = [n \in Nodes |-> 0]
  /\ loaded = FALSE
  /\ completed = {}
  /\ failed = {}
  /\ cancelled = FALSE
  /\ entered = [n \in Nodes |-> 0]
  /\ invoked = [n \in Nodes |-> 0]
  /\ result = NoResult

(* execute(): register, create one task per root, take the first look.     *)
Execute ==
  /\ main = "new"
  /\ main' = "waiting"
  /\ created' = [n \in Nodes |-> IF n \in Roots THEN 1 ELSE 0]
  /\ UNCHANGED <<inflight, secretVars, completed, failed, cancelled, entered, invoked, result>>

(* Mutant: enters the plugin although no task of the node was created.     *)
EnterUncreated(n) ==
  /\ Runnable(n)
  /\ created' = [created EXCEPT ![n] = @ - 1]
  /\ entered' = [entered EXCEPT ![n] = @ + 1]

(* A node task passes the guards of _execute_node.                         *)
Enter(n) ==
  /\ created[n] > 0
  /\ Runnable(n)
  /\ created' = [created EXCEPT ![n] = @ - 1]
  /\ entered' = [entered EXCEPT ![n] = @ + 1]

(* It calls its plugin, or first awaits the secrets of the run.            *)
StartNode(n) ==
  /\ n \notin Mocked
  /\ Enter(n)
  /\ inflight' = [inflight EXCEPT ![n] = @ + 1]
  /\ \/ loaded /\ invoked' = [invoked EXCEPT ![n] = @ + 1] /\ UNCHANGED loading
     \/ ~loaded /\ loading' = [loading EXCEPT ![n] = @ + 1] /\ UNCHANGED invoked
  /\ UNCHANGED <<main, loaded, completed, failed, cancelled, result>>

(* Mutant: loads the secrets for every node anew.                          *)
CallPluginUncached(n) ==
  /\ loading[n] > 0
  /\ loading' = [loading EXCEPT ![n] = @ - 1]
  /\ invoked' = [invoked EXCEPT ![n] = @ + 1]
  /\ UNCHANGED <<main, created, inflight, loaded, completed, failed, cancelled, entered, result>>

(* The secrets, or none, are there; the plugin is called without another   *)
(* look at the cancelled flag.                                             *)
CallPlugin(n) ==
  /\ loading[n] > 0
  /\ loading' = [loading EXCEPT ![n] = @ - 1]
  /\ loaded' = TRUE
  /\ invoked' = [invoked EXCEPT ![n] = @ + 1]
  /\ UNCHANGED <<main, created, inflight, completed, failed, cancelled, entered, result>>

(* A node task returns at one of the guards.                               *)
DropTask(n) ==
  /\ created[n] > 0
  /\ ~Runnable(n)
  /\ created' = [created EXCEPT ![n] = @ - 1]
  /\ UNCHANGED <<main, inflight, secretVars, completed, failed, cancelled, entered, invoked, result>>

(* What _execute_node does with the output of a node: "success" or         *)
(* "skipped" ...                                                           *)
Accept(n, out, before) ==
  /\ Succeeds(out)
  /\ completed' = completed \union {n}
  /\ StartDependentNodes(n, out, before)
  /\ UNCHANGED <<failed, cancelled>>

(* Mutant: a failed node ends a fail-fast run's progress, not the run.     *)
RejectSilently(n, out, before) ==
  /\ ~Succeeds(out)
  /\ failed' = failed \union {n}
  /\ \/ FailFast /\ created' = before
     \/ ~FailFast /\ StartDependentNodes(n, out, before)
  /\ UNCHANGED <<completed, cancelled>>

(* ... or anything else.                                                   *)
Reject(n, out, before) ==
  /\ ~Succeeds(out)
  /\ failed' = failed \union {n}
  /\ \/ FailFast /\ cancelled' = TRUE /\ created' = before
     \/ ~FailFast /\ UNCHANGED cancelled /\ StartDependentNodes(n, out, before)
  /\ UNCHANGED completed

(* The plugin answers, or raises and is turned into an "error".            *)
Answer(n) ==
  /\ inflight[n] > loading[n]
  /\ inflight' = [inflight EXCEPT ![n] = @ - 1]
  /\ UNCHANGED <<main, secretVars, entered, invoked, result>>

NodeSucceeds(n, out) == Answer(n) /\ Accept(n, out, created)
NodeFails(n, out) == Answer(n) /\ Reject(n, out, created)

(* The plugin returns something that is not a dict: the outer except.      *)
NodeRaises(n) ==
  /\ Answer(n)
  /\ failed' = failed \union {n}
  /\ cancelled' = (cancelled \/ FailFast)
  /\ UNCHANGED <<created, completed>>

(* Outputs made without a plugin have neither result nor compared field:   *)
(* the evaluator reads False and 0.  No suspension comes before them.      *)
WithoutPlugin(out) == out.result = "false"
OneLess(n) == [created EXCEPT ![n] = @ - 1]
AtOnce(n) ==
  /\ created[n] > 0
  /\ Runnable(n)
  /\ entered' = [entered EXCEPT ![n] = @ + 1]
  /\ UNCHANGED <<main, inflight, secretVars, invoked, result>>

(* No plugin for the type of the node: mock execution.                     *)
MockNode(n, out) ==
  /\ n \in Mocked
  /\ AtOnce(n)
  /\ out.status = "success" /\ WithoutPlugin(out)
  /\ Accept(n, out, OneLess(n))

(* The registry or validate_input raises.                                  *)
RefuseInput(n, out) ==
  /\ n \notin Mocked
  /\ AtOnce(n)
  /\ out.status = "error" /\ WithoutPlugin(out)
  /\ Reject(n, out, OneLess(n))

(* cancel() through the _running_schedulers registry.                      *)
Cancel ==
  /\ main = "waiting"
  /\ ~cancelled
  /\ cancelled' = TRUE
  /\ UNCHANGED <<main, created, inflight, secretVars, completed, failed, entered, invoked, result>>

Return ==
  /\ main' = "ended"
  /\ result' = [cancelled |-> cancelled', completed |-> completed, failed |-> failed]
  /\ UNCHANGED <<created, inflight, secretVars, completed, failed, entered, invoked>>

(* Mutant: the loop looks at the counts only, not at the cancelled flag.   *)
CompleteWhenCounted ==
  /\ main = "waiting"
  /\ AllFinished
  /\ UNCHANGED cancelled
  /\ Return

(* _wait_for_completion leaves its loop, execute() unregisters and returns. *)
Complete ==
  /\ main = "waiting"
  /\ cancelled \/ AllFinished
  /\ UNCHANGED cancelled
  /\ Return

(* _wait_for_completion gives up after 3600 s.                             *)
Timeout ==
  /\ main = "waiting"
  /\ ~cancelled
  /\ ~AllFinished
  /\ HangingPlugins \/ Quiescent
  /\ cancelled' = TRUE
  /\ Return

(* Nothing left to resume: the run is over.                                *)
Idle ==
  /\ main = "ended"
  /\ Quiescent
  /\ UNCHANGED vars

Next ==
  \/ Execute
  \/ \E n \in Nodes : StartNode(n) \/ CallPlugin(n) \/ DropTask(n)
  \/ \E n \in Nodes, out \in Outputs : \/ NodeSucceeds(n, out) \/ NodeFails(n, out)
                                       \/ MockNode(n, out) \/ RefuseInput(n, out)
  \/ \E n \in Nodes : NodeRaises(n)
  \/ Cancel
  \/ Complete
  \/ Timeout
  \/ Idle

Spec == Init /\ [][Next]_vars

(* The event loop resumes a sleeping execute() and its clock advances; no  *)
(* plugin is assumed to answer.                                            *)
FairSpec == Spec /\ WF_vars(Execute) /\ WF_vars(Complete) /\ WF_vars(Timeout)

-----------------------------------------------------------------------------
(* Types of the variables.                                                 *)
TypeOK ==
  /\ main \in {"new", "waiting", "ended"}
  /\ created \in [Nodes -> Nat]
  /\ inflight \in [Nodes -> Nat]
  /\ loading \in [Nodes -> Nat]
  /\ loaded \in BOOLEAN
  /\ completed \in SUBSET Nodes
  /\ failed \in SUBSET Nodes
  /\ cancelled \in BOOLEAN
  /\ entered \in [Nodes -> Nat]
  /\ invoked \in [Nodes -> Nat]
  /\ result \in [cancelled : BOOLEAN, completed : SUBSET Nodes, failed : SUBSET Nodes]

Unconditional(n) ==
  \A e \in Edges : e.target = n => e.condition \in {"none", "always"}

(* While the run goes on, a node whose dependencies have all completed is   *)
(* finished or has a task: whichever dependency completed last created it, *)
(* and no earlier task of the node used that chance up (_execute_node      *)
(* returns silently when a dependency is missing).                         *)
NoLostDependent ==
  main = "waiting" /\ ~cancelled =>
    \A n \in Nodes :
      Unconditional(n) /\ Sources(n) \subseteq completed /\ n \notin Finished
        => created[n] + inflight[n] > 0

(* A waiting run always has a task to resume or is about to be noticed as  *)
(* finished: it never sleeps out its 3600 s with nothing left to run.      *)
NoStall ==
  main = "waiting" /\ ~cancelled => AllFinished \/ ~Quiescent

(* What may keep the unfinished nodes U from getting a task: a dependency  *)
(* that failed, or a condition that was not met.                           *)
Blocked(U) ==
  \E e \in Edges :
    /\ e.target \in U
    /\ e.source \in Finished
    /\ e.source \in failed \/ e.condition \notin {"none", "always"}

(* Where nothing is left to run, some node did fail or some condition was  *)
(* not met, and that for every part of the DAG left over: a set of         *)
(* unfinished nodes that no unfinished node outside leads into is blocked  *)
(* by an edge of its own, never by an answer that was lost.                *)
StallExplained ==
  main = "waiting" /\ ~cancelled /\ Quiescent =>
    \A U \in (SUBSET (Nodes \ Finished)) \ {{}} :
      (\A n \in U : Sources(n) \subseteq U \union Finished) => Blocked(U)

(* A fail-fast run that execute() returns uncancelled (recorded "success") *)
(* has completed every node, although the loop only compares counts.       *)
SuccessIsTotal ==
  FailFast /\ main = "ended" /\ ~result.cancelled
    => result.completed = Nodes /\ result.failed = {}

(* Each node's plugin is called at most once.                              *)
AtMostOnce == \A n \in Nodes : invoked[n] <= 1

(* Joins are the only source of repeated calls: a node whose dependencies  *)
(* were executed once each is executed, and its plugin called, at most     *)
(* once per edge into it, and a root at most once, whatever the order in   *)
(* which secrets, answers and tasks meet.                                  *)
CallsPerEdge ==
  \A n \in Nodes :
    /\ invoked[n] <= entered[n]
    /\ (\A p \in Sources(n) : entered[p] <= 1)
         => entered[n] <= IF Sources(n) = {} THEN 1 ELSE Cardinality(InEdges(n))

(* When execute() returns uncancelled nothing of the run is left running   *)
(* behind it.                                                              *)
QuietSuccess == main = "ended" /\ ~result.cancelled => Quiescent

(* A run that execute() returns uncancelled waited for every node: "Wait   *)
(* for all nodes to complete or fail" (docstring of _wait_for_completion). *)
WaitsForAll ==
  main = "ended" /\ ~result.cancelled
    => result.completed \union result.failed = Nodes

(* After cancelled is set, whoever set it, a plugin is called only for a   *)
(* node that was loading the secrets by then (the flag is not read again   *)
(* after that await), and such a node comes before all other plugins of    *)
(* the run: what it depends on, if anything, has no plugin.                *)
OnlyFirstCallsLate ==
  [][\A n \in Nodes : cancelled /\ invoked'[n] > invoked[n]
       => loading[n] > 0 /\ Sources(n) \subseteq Mocked]_vars

(* Every run ends, however its plugins behave.                             *)
Terminates == <>(main = "ended")

-----------------------------------------------------------------------------
(* The scheduler seen as a DagRun.                                         *)

NodeState(n) ==
  CASE n \in failed -> "failed"
    [] n \in completed \ failed -> "completed"
    [] n \notin Finished /\ inflight[n] > 0 -> "running"
    [] OTHER -> "idle"

Phase ==
  CASE main = "new" -> "pending"
    [] main = "waiting" -> "running"
    [] main = "ended" /\ result.cancelled -> "cancelled"
    [] OTHER -> "success"

(* No two edges enter one node: the DAG branches but never joins.          *)
JoinFree == \A d, e \in Edges : d.target = e.target => d = e

Abstract == INSTANCE DagRun WITH
  Deps <- [n \in Nodes |-> Sources(n)],
  phase <- Phase,
  state <- [n \in Nodes |-> NodeState(n)]

(* On a DAG that never joins, the scheduler behaves as a DagRun under the  *)
(* same failure strategy: _execute_node's guards, the sets of finished     *)
(* nodes and _wait_for_completion's counting together keep the author's    *)
(* promise.                                                                *)
ImplementsDagRun == Abstract!Spec
=============================================================================
