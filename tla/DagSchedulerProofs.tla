------------------------- MODULE DagSchedulerProofs -------------------------
(***************************************************************************)
(* Theorems about DagScheduler, for every DAG, both failure strategies and *)
(* plugins that may hang.                                                  *)
(***************************************************************************)
EXTENDS DagScheduler, FiniteSetTheorems, TLAPS

(* The tasks an answer creates for a node are finitely many.               *)
LEMMA TriggeredCount ==
  ASSUME NEW p \in Nodes, NEW n \in Nodes, NEW out \in Outputs
  PROVE  /\ IsFiniteSet(Triggered(p, n, out))
         /\ Cardinality(Triggered(p, n, out)) \in Nat
  <1>1. Triggered(p, n, out) \subseteq Edges
    BY DEF Triggered
  <1>2. IsFiniteSet(Triggered(p, n, out))
    BY <1>1, DagAssumption, FS_Subset
  <1> QED
    BY <1>2, FS_CardinalityType

(* A task less is no negative number of them.                              *)
LEMMA OneLessType ==
  ASSUME TypeOK, NEW p \in Nodes, created[p] > 0
  PROVE  /\ OneLess(p) \in [Nodes -> Nat]
         /\ \A n \in Nodes : OneLess(p)[n] = IF n = p THEN created[p] - 1 ELSE created[n]
  BY DEF TypeOK, OneLess

-----------------------------------------------------------------------------
(* Every variable keeps its type.                                          *)
THEOREM TypeCorrect == Spec => []TypeOK
  <1>1. Init => TypeOK
    <2>1. NoResult \in [cancelled : BOOLEAN, completed : SUBSET Nodes,
                        failed : SUBSET Nodes]
      BY DEF NoResult
    <2>2. Init => result \in [cancelled : BOOLEAN, completed : SUBSET Nodes,
                               failed : SUBSET Nodes]
      BY <2>1 DEF Init
    <2>3. Init => /\ created \in [Nodes -> Nat]
                  /\ inflight \in [Nodes -> Nat]
                  /\ loading \in [Nodes -> Nat]
                  /\ entered \in [Nodes -> Nat]
                  /\ invoked \in [Nodes -> Nat]
      BY DEF Init
    <2> QED
      BY <2>2, <2>3 DEF Init, TypeOK
  <1>2. TypeOK /\ [Next]_vars => TypeOK'
    <2> SUFFICES ASSUME TypeOK, [Next]_vars
                 PROVE  TypeOK'
      OBVIOUS
    <2>0. ASSUME NEW p \in Nodes, NEW out \in Outputs, NEW before \in [Nodes -> Nat],
                 Accept(p, out, before) \/ Reject(p, out, before)
          PROVE  /\ created' \in [Nodes -> Nat]
                 /\ completed' \in SUBSET Nodes /\ failed' \in SUBSET Nodes
                 /\ cancelled' \in BOOLEAN
      <3>1. ASSUME StartDependentNodes(p, out, before)
            PROVE  created' \in [Nodes -> Nat]
        BY <3>1, TriggeredCount DEF StartDependentNodes
      <3>2. created' \in [Nodes -> Nat]
        BY <2>0, <3>1 DEF Accept, Reject
      <3>3. completed' \in SUBSET Nodes /\ failed' \in SUBSET Nodes /\ cancelled' \in BOOLEAN
        BY <2>0 DEF Accept, Reject, TypeOK
      <3> QED
        BY <3>2, <3>3
    <2>1. CASE Execute
      BY <2>1 DEF Execute, TypeOK, secretVars
    <2>2. ASSUME NEW n \in Nodes, StartNode(n)
          PROVE  TypeOK'
      BY <2>2 DEF StartNode, Enter, TypeOK
    <2>3. ASSUME NEW n \in Nodes, DropTask(n)
          PROVE  TypeOK'
      BY <2>3 DEF DropTask, TypeOK, secretVars
    <2>13. ASSUME NEW n \in Nodes, CallPlugin(n)
           PROVE  TypeOK'
      BY <2>13 DEF CallPlugin, TypeOK
    <2>4. ASSUME NEW n \in Nodes, Answer(n),
                 created' \in [Nodes -> Nat], completed' \in SUBSET Nodes,
                 failed' \in SUBSET Nodes, cancelled' \in BOOLEAN
          PROVE  TypeOK'
      BY <2>4 DEF Answer, TypeOK, secretVars
    <2>5. ASSUME NEW n \in Nodes, NEW out \in Outputs, NodeSucceeds(n, out) \/ NodeFails(n, out)
          PROVE  TypeOK'
      BY <2>0, <2>4, <2>5 DEF NodeSucceeds, NodeFails, TypeOK
    <2>6. ASSUME NEW n \in Nodes, NodeRaises(n)
          PROVE  TypeOK'
      <3>1. created' \in [Nodes -> Nat] /\ completed' \in SUBSET Nodes
            /\ failed' \in SUBSET Nodes /\ cancelled' \in BOOLEAN
        BY <2>6, DagAssumption DEF NodeRaises, TypeOK
      <3> QED
        BY <2>4, <2>6, <3>1 DEF NodeRaises
    <2>12. ASSUME NEW n \in Nodes, NEW out \in Outputs, MockNode(n, out) \/ RefuseInput(n, out)
           PROVE  TypeOK'
      <3>1. AtOnce(n) /\ (Accept(n, out, OneLess(n)) \/ Reject(n, out, OneLess(n)))
        BY <2>12 DEF MockNode, RefuseInput
      <3>2. OneLess(n) \in [Nodes -> Nat]
        BY <3>1, OneLessType DEF AtOnce
      <3>3. /\ created' \in [Nodes -> Nat]
            /\ completed' \in SUBSET Nodes /\ failed' \in SUBSET Nodes
            /\ cancelled' \in BOOLEAN
        BY <2>0, <3>1, <3>2
      <3>4. entered' \in [Nodes -> Nat] /\ UNCHANGED <<main, inflight, loading, loaded, invoked, result>>
        BY <3>1 DEF AtOnce, TypeOK, secretVars
      <3> QED
        BY <3>3, <3>4 DEF TypeOK
    <2>7. CASE Cancel
      BY <2>7 DEF Cancel, TypeOK, secretVars
    <2>8. CASE Complete
      BY <2>8 DEF Complete, Return, TypeOK, secretVars
    <2>9. CASE Timeout
      BY <2>9 DEF Timeout, Return, TypeOK, secretVars
    <2>10. CASE Idle \/ UNCHANGED vars
      BY <2>10 DEF Idle, vars, TypeOK, secretVars
    <2> QED
      BY <2>1, <2>2, <2>3, <2>5, <2>6, <2>7, <2>8, <2>9, <2>10, <2>12, <2>13
      DEF Next
  <1> QED
    BY <1>1, <1>2, PTL DEF Spec

-----------------------------------------------------------------------------
(* The dependencies of a node, and the edges behind them.                  *)
LEMMA SourceEdge ==
  ASSUME NEW n \in Nodes, NEW p \in Sources(n)
  PROVE  \E e \in Edges : e.source = p /\ e.target = n
  BY DEF Sources, InEdges

(* An answer of a dependency of n creates a task for n when no edge into n *)
(* carries a condition.                                                    *)
LEMMA TriggersDependent ==
  ASSUME NEW n \in Nodes, NEW p \in Nodes, NEW out \in Outputs,
         p \in Sources(n), Unconditional(n)
  PROVE  Cardinality(Triggered(p, n, out)) > 0
  <1>1. PICK e \in Edges : e.source = p /\ e.target = n
    BY SourceEdge
  <1>2. e \in Triggered(p, n, out)
    BY <1>1 DEF Triggered, Unconditional, EvaluateCondition
  <1>3. Triggered(p, n, out) # {} /\ IsFiniteSet(Triggered(p, n, out))
    BY <1>2, TriggeredCount
  <1> QED
    BY <1>3, TriggeredCount, FS_EmptySet

(* Before execute() registers the run nothing of it exists.                *)
Fresh ==
  main = "new" =>
    /\ \A n \in Nodes : /\ created[n] = 0 /\ inflight[n] = 0 /\ loading[n] = 0
                       /\ entered[n] = 0 /\ invoked[n] = 0
    /\ completed = {} /\ failed = {} /\ ~cancelled

LEMMA FreshUntilExecuted == Spec => []Fresh
  <1>1. Init => Fresh
    BY DEF Init, Fresh
  <1>2. Fresh /\ [Next]_vars => Fresh'
    <2> SUFFICES ASSUME Fresh, [Next]_vars, main' = "new"
                 PROVE  UNCHANGED vars
      BY DEF Fresh, vars, secretVars
    <2>1. main = "new" \/ UNCHANGED vars
      BY DEF Next, vars, Execute, StartNode, CallPlugin, DropTask, NodeSucceeds, NodeFails,
             NodeRaises, Answer, MockNode, RefuseInput, AtOnce, Cancel, Complete, Timeout,
             Return, Idle
    <2>2. CASE main = "new"
      <3>1. \A n \in Nodes : /\ ~(created[n] > 0) /\ ~(loading[n] > 0)
                             /\ ~(inflight[n] > loading[n])
        BY <2>2 DEF Fresh
      <3> QED
        BY <2>2, <3>1 DEF Next, vars, Execute, StartNode, Enter, CallPlugin, DropTask,
             NodeSucceeds, NodeFails, NodeRaises, Answer, MockNode, RefuseInput, AtOnce,
             Cancel, Complete, Timeout, Idle
    <2> QED
      BY <2>1, <2>2
  <1> QED
    BY <1>1, <1>2, PTL DEF Spec

(* No dependent is lost: whichever of a node's dependencies completes last *)
(* leaves it with a task, until it is finished or the run is cancelled.    *)
THEOREM NoDependentIsLost == Spec => []NoLostDependent
  <1>1. Init => NoLostDependent
    BY DEF Init, NoLostDependent
  <1>2. TypeOK /\ Fresh /\ NoLostDependent /\ [Next]_vars => NoLostDependent'
    <2> SUFFICES ASSUME TypeOK, Fresh, NoLostDependent, [Next]_vars,
                        main' = "waiting", ~cancelled',
                        NEW n \in Nodes,
                        Unconditional(n),
                        Sources(n) \subseteq completed',
                        n \notin Finished'
                 PROVE  created'[n] + inflight'[n] > 0
      BY DEF NoLostDependent
    <2>0. ASSUME main = "waiting", ~cancelled, Sources(n) \subseteq completed,
                 n \notin Finished
          PROVE  created[n] + inflight[n] > 0
      BY <2>0 DEF NoLostDependent
    <2> USE DEF TypeOK
    <2>1. CASE Execute
      <3>1. Sources(n) = {}
        BY <2>1 DEF Execute, Fresh
      <3> QED
        BY <2>1, <3>1 DEF Execute, Roots
    <2>2. ASSUME NEW m \in Nodes, StartNode(m)
          PROVE  created'[n] + inflight'[n] > 0
      BY <2>0, <2>2 DEF StartNode, Enter, Finished
    <2>3. ASSUME NEW m \in Nodes, DropTask(m)
          PROVE  created'[n] + inflight'[n] > 0
      <3>1. m # n
        BY <2>3 DEF DropTask, Runnable, Finished
      <3> QED
        BY <2>0, <2>3, <3>1 DEF DropTask, Finished
    <2>4. ASSUME NEW p \in Nodes, NEW out \in Outputs, NEW before \in [Nodes -> Nat],
                 p # n, before[n] = created[n], inflight'[n] = inflight[n], main' = main,
                 Accept(p, out, before) \/ Reject(p, out, before)
          PROVE  created'[n] + inflight'[n] > 0
      <3>1. CASE StartDependentNodes(p, out, before)
        <4>1. created'[n] = created[n] + Cardinality(Triggered(p, n, out))
          BY <2>4, <3>1 DEF StartDependentNodes
        <4>2. Cardinality(Triggered(p, n, out)) \in Nat
          BY TriggeredCount
        <4>3. CASE p \in Sources(n)
          <5>1. Cardinality(Triggered(p, n, out)) > 0
            BY <4>3, TriggersDependent
          <5> QED
            BY <2>4, <4>1, <4>2, <5>1
        <4>4. CASE p \notin Sources(n)
          <5>1. ~cancelled /\ Sources(n) \subseteq completed /\ n \notin Finished
            BY <2>4, <4>4 DEF Accept, Reject, Finished
          <5>2. main = "waiting"
            BY <2>4
          <5>3. created[n] + inflight[n] > 0
            BY <2>0, <5>1, <5>2
          <5> QED
            BY <2>4, <4>1, <4>2, <5>3
        <4> QED
          BY <4>3, <4>4
      <3> QED
        BY <2>4, <3>1 DEF Accept, Reject
    <2>5. ASSUME NEW p \in Nodes, NEW out \in Outputs, NodeSucceeds(p, out) \/ NodeFails(p, out)
          PROVE  created'[n] + inflight'[n] > 0
      <3>1. p # n
        BY <2>5 DEF NodeSucceeds, NodeFails, Accept, Reject, Finished
      <3>2. inflight'[n] = inflight[n] /\ main' = main
        BY <2>5, <3>1 DEF NodeSucceeds, NodeFails, Answer
      <3> QED
        BY <2>4, <2>5, <3>1, <3>2 DEF NodeSucceeds, NodeFails
    <2>6. ASSUME NEW p \in Nodes, NodeRaises(p)
          PROVE  created'[n] + inflight'[n] > 0
      <3>1. p # n
        BY <2>6 DEF NodeRaises, Finished
      <3>2. main = "waiting" /\ ~cancelled
        BY <2>6 DEF NodeRaises, Answer
      <3> QED
        BY <2>0, <2>6, <3>1, <3>2 DEF NodeRaises, Answer, Finished
    <2>9. ASSUME NEW p \in Nodes, NEW out \in Outputs, MockNode(p, out) \/ RefuseInput(p, out)
          PROVE  created'[n] + inflight'[n] > 0
      <3>1. AtOnce(p) /\ (Accept(p, out, OneLess(p)) \/ Reject(p, out, OneLess(p)))
        BY <2>9 DEF MockNode, RefuseInput
      <3>2. p # n
        BY <3>1 DEF Accept, Reject, Finished
      <3>3. OneLess(p) \in [Nodes -> Nat] /\ OneLess(p)[n] = created[n]
        BY <3>1, <3>2, OneLessType DEF AtOnce
      <3>4. inflight'[n] = inflight[n] /\ main' = main
        BY <3>1 DEF AtOnce
      <3> QED
        BY <2>4, <3>1, <3>2, <3>3, <3>4
    <2>10. ASSUME NEW m \in Nodes, CallPlugin(m)
           PROVE  created'[n] + inflight'[n] > 0
      BY <2>0, <2>10 DEF CallPlugin, Finished
    <2>7. CASE Cancel \/ Complete \/ Timeout
      BY <2>7 DEF Cancel, Complete, Timeout, Return
    <2>8. CASE Idle \/ UNCHANGED vars
      BY <2>0, <2>8 DEF Idle, vars, Finished
    <2> QED
      BY <2>1, <2>2, <2>3, <2>5, <2>6, <2>7, <2>8, <2>9, <2>10 DEF Next
  <1> QED
    BY <1>1, <1>2, TypeCorrect, FreshUntilExecuted, PTL DEF Spec

-----------------------------------------------------------------------------
(* Under fail_fast a failed node always leaves the flag set.               *)
FailureCancels == FailFast /\ failed # {} => cancelled

LEMMA FailureAlwaysCancels == Spec => []FailureCancels
  <1>1. Init => FailureCancels
    BY DEF Init, FailureCancels
  <1>2. FailureCancels /\ [Next]_vars => FailureCancels'
    <2> SUFFICES ASSUME FailureCancels, [Next]_vars, FailFast, failed' # {}
                 PROVE  cancelled'
      BY DEF FailureCancels
    <2>1. CASE UNCHANGED <<failed, cancelled>>
      BY <2>1 DEF FailureCancels
    <2>2. CASE cancelled' = TRUE
      BY <2>2
    <2>3. ASSUME NEW n \in Nodes, NodeRaises(n)
          PROVE  cancelled'
      BY <2>3 DEF NodeRaises
    <2>4. ASSUME NEW n \in Nodes, NEW out \in Outputs, NodeFails(n, out) \/ RefuseInput(n, out)
          PROVE  cancelled' = TRUE
      BY <2>4 DEF NodeFails, RefuseInput, Reject
    <2> QED
      BY <2>1, <2>2, <2>3, <2>4
      DEF Next, vars, Execute, StartNode, CallPlugin, DropTask, NodeSucceeds, MockNode,
          Accept, Cancel, Complete, Timeout, Return, Idle
  <1> QED
    BY <1>1, <1>2, PTL DEF Spec

(* A proper subset of the nodes has fewer members than Nodes.              *)
LEMMA CountsIdentify ==
  ASSUME NEW S, S \subseteq Nodes, Cardinality(S) >= Cardinality(Nodes)
  PROVE  S = Nodes
  <1>1. IsFiniteSet(S) /\ Cardinality(S) <= Cardinality(Nodes)
        /\ Cardinality(S) \in Nat /\ Cardinality(Nodes) \in Nat
    BY DagAssumption, FS_Subset, FS_CardinalityType
  <1>2. Cardinality(S) = Cardinality(Nodes)
    BY <1>1
  <1> QED
    BY <1>1, <1>2, DagAssumption, FS_Subset

(* A fail-fast run on a DAG with a node and without conditions never waits *)
(* for nothing: by acyclicity some unfinished node has all its             *)
(* dependencies completed, and no dependent is lost.                       *)
THEOREM NeverStalls ==
  ASSUME Nodes # {}, FailFast, \A n \in Nodes : Unconditional(n)
  PROVE  Spec => []NoStall
  <1>1. TypeOK /\ NoLostDependent /\ FailureCancels => NoStall
    <2> SUFFICES ASSUME TypeOK, NoLostDependent, FailureCancels,
                        main = "waiting", ~cancelled, Quiescent, ~AllFinished
                 PROVE  FALSE
      BY DEF NoStall
    <2>1. failed = {} /\ completed \subseteq Nodes
      BY DEF FailureCancels, TypeOK
    <2>2. Nodes \ completed # {}
      <3> SUFFICES ASSUME completed = Nodes
                   PROVE  AllFinished
        BY <2>1
      <3> QED
        BY <2>1, FS_EmptySet, DagAssumption, FS_CardinalityType DEF AllFinished
    <2>3. PICK n \in Nodes \ completed :
                 \A e \in Edges : e.target = n => e.source \notin Nodes \ completed
      BY <2>2, DagAssumption DEF Acyclic
    <2>4. Sources(n) \subseteq completed
      BY <2>3, DagAssumption DEF Sources, InEdges
    <2>5. n \notin Finished
      BY <2>1, <2>3 DEF Finished
    <2>6. created[n] + inflight[n] > 0
      BY <2>3, <2>4, <2>5 DEF NoLostDependent
    <2> QED
      BY <2>3, <2>6 DEF Quiescent
  <1> QED
    BY <1>1, TypeCorrect, NoDependentIsLost, FailureAlwaysCancels, PTL

(* Comparing the two counters with the number of nodes is enough: a        *)
(* fail-fast run recorded as a success has completed every node.           *)
THEOREM SuccessCompletesAll == Spec => []SuccessIsTotal
  <1>1. Init => SuccessIsTotal
    BY DEF Init, SuccessIsTotal
  <1>2. TypeOK /\ FailureCancels /\ SuccessIsTotal /\ [Next]_vars => SuccessIsTotal'
    <2> SUFFICES ASSUME TypeOK, FailureCancels, SuccessIsTotal, [Next]_vars,
                        FailFast, main' = "ended", ~result'.cancelled
                 PROVE  result'.completed = Nodes /\ result'.failed = {}
      BY DEF SuccessIsTotal
    <2>1. CASE Complete
      <3>1. result' = [cancelled |-> cancelled', completed |-> completed,
                       failed |-> failed] /\ cancelled' = cancelled
        BY <2>1 DEF Complete, Return
      <3>2. ~cancelled /\ AllFinished
        BY <2>1, <3>1 DEF Complete
      <3>3. failed = {}
        BY <3>2 DEF FailureCancels
      <3>4. Cardinality(completed) >= Cardinality(Nodes)
        <4>1. completed \subseteq Nodes /\ IsFiniteSet(completed)
          BY DagAssumption, FS_Subset DEF TypeOK
        <4> QED
          BY <4>1, <3>2, <3>3, FS_EmptySet, FS_CardinalityType DEF AllFinished
      <3>5. completed = Nodes
        BY <3>4, CountsIdentify DEF TypeOK
      <3> QED
        BY <3>1, <3>3, <3>5
    <2>2. CASE Timeout
      BY <2>2 DEF Timeout, Return
    <2>3. CASE UNCHANGED <<main, result>>
      BY <2>3 DEF SuccessIsTotal
    <2>4. CASE Execute
      BY <2>4 DEF Execute
    <2> QED
      BY <2>1, <2>2, <2>3, <2>4
      DEF Next, vars, StartNode, CallPlugin, DropTask, NodeSucceeds, NodeFails, NodeRaises,
          Answer, MockNode, RefuseInput, AtOnce, Cancel, Idle
  <1> QED
    BY <1>1, <1>2, TypeCorrect, FailureAlwaysCancels, PTL DEF Spec

-----------------------------------------------------------------------------
(* A part of the DAG with no task left is blocked: by acyclicity one of    *)
(* its nodes waits for no other of them, and had all its dependencies      *)
(* completed and no edge into it carried a condition, it would have a task. *)
THEOREM StallIsExplained == Spec => []StallExplained
  <1>1. TypeOK /\ NoLostDependent => StallExplained
    <2> SUFFICES ASSUME TypeOK, NoLostDependent, main = "waiting", ~cancelled, Quiescent,
                        NEW U \in (SUBSET (Nodes \ Finished)) \ {{}},
                        \A n \in U : Sources(n) \subseteq U \union Finished
                 PROVE  Blocked(U)
      BY DEF StallExplained
    <2>1. U \in (SUBSET Nodes) \ {{}}
      OBVIOUS
    <2>2. PICK n \in U : \A e \in Edges : e.target = n => e.source \notin U
      BY <2>1, DagAssumption DEF Acyclic
    <2>3. n \in Nodes /\ n \notin Finished /\ Sources(n) \subseteq Finished
      BY <2>2 DEF Sources, InEdges
    <2>4. created[n] + inflight[n] = 0
      BY <2>3 DEF Quiescent
    <2>5. ~Unconditional(n) \/ ~(Sources(n) \subseteq completed)
      BY <2>3, <2>4 DEF NoLostDependent
    <2>6. CASE ~Unconditional(n)
      <3>1. PICK e \in Edges : e.target = n /\ e.condition \notin {"none", "always"}
        BY <2>6 DEF Unconditional
      <3>2. e.source \in Finished
        BY <2>3, <3>1 DEF Sources, InEdges
      <3> QED
        BY <3>1, <3>2 DEF Blocked
    <2>7. CASE ~(Sources(n) \subseteq completed)
      <3>1. PICK p \in Sources(n) : p \notin completed
        BY <2>7
      <3>2. p \in failed /\ p \in Finished
        BY <2>3, <3>1 DEF Finished
      <3>3. PICK e \in Edges : e.source = p /\ e.target = n
        BY <2>3, SourceEdge
      <3> QED
        BY <3>2, <3>3 DEF Blocked
    <2> QED
      BY <2>5, <2>6, <2>7
  <1> QED
    BY <1>1, TypeCorrect, NoDependentIsLost, PTL

(* A set of finished nodes that holds them all is counted as all.          *)
LEMMA AllCounted ==
  ASSUME TypeOK, Nodes # {}, Nodes \subseteq Finished
  PROVE  AllFinished
  <1>1. completed \subseteq Nodes /\ failed \subseteq Nodes /\ completed \union failed = Nodes
    BY DEF TypeOK, Finished
  <1>2. IsFiniteSet(completed) /\ IsFiniteSet(failed) /\ IsFiniteSet(completed \intersect failed)
    BY <1>1, DagAssumption, FS_Subset
  <1>3. Cardinality(Nodes)
          = Cardinality(completed) + Cardinality(failed) - Cardinality(completed \intersect failed)
    BY <1>1, <1>2, FS_Union
  <1>4. /\ Cardinality(completed) \in Nat
        /\ Cardinality(failed) \in Nat
        /\ Cardinality(completed \intersect failed) \in Nat
    BY <1>2, FS_CardinalityType
  <1> QED
    BY <1>3, <1>4 DEF AllFinished

(* So in any DAG with a node, under either strategy, a run that sleeps with *)
(* nothing left to run, and is not about to be noticed as finished, has a   *)
(* failed dependency or an unmet condition to blame.                       *)
StallHasACause ==
  main = "waiting" /\ ~cancelled /\ Quiescent => AllFinished \/ Blocked(Nodes \ Finished)

THEOREM StallsOnlyForACause ==
  ASSUME Nodes # {}
  PROVE  Spec => []StallHasACause
  <1>1. TypeOK /\ StallExplained => StallHasACause
    <2> SUFFICES ASSUME TypeOK, StallExplained, main = "waiting", ~cancelled, Quiescent,
                        ~AllFinished
                 PROVE  Blocked(Nodes \ Finished)
      BY DEF StallHasACause
    <2>1. Nodes \ Finished \in (SUBSET (Nodes \ Finished)) \ {{}}
      <3>1. ~(Nodes \subseteq Finished)
        BY AllCounted
      <3> QED
        BY <3>1
    <2>2. \A n \in Nodes \ Finished : Sources(n) \subseteq (Nodes \ Finished) \union Finished
      BY DagAssumption DEF Sources, InEdges
    <2> QED
      BY <2>1, <2>2 DEF StallExplained
  <1> QED
    BY <1>1, TypeCorrect, StallIsExplained, PTL

(* A DAG without nodes passes the compiler, and its run never ends as a    *)
(* success: _wait_for_completion asks for total > 0, so only a             *)
(* cancellation or the 3600 s end it.                                      *)
EmptyRunIsCancelled == main = "ended" => result.cancelled

THEOREM EmptyPlaybookNeverCompletes ==
  ASSUME Nodes = {}
  PROVE  Spec => []EmptyRunIsCancelled
  <1>1. Init => EmptyRunIsCancelled
    BY DEF Init, EmptyRunIsCancelled
  <1>2. EmptyRunIsCancelled /\ [Next]_vars => EmptyRunIsCancelled'
    <2> SUFFICES ASSUME EmptyRunIsCancelled, [Next]_vars, main' = "ended"
                 PROVE  result'.cancelled
      BY DEF EmptyRunIsCancelled
    <2>1. CASE Complete
      <3>1. cancelled /\ cancelled' = cancelled
        BY <2>1 DEF Complete, AllFinished
      <3> QED
        BY <2>1, <3>1 DEF Complete, Return
    <2>2. CASE Timeout
      BY <2>2 DEF Timeout, Return
    <2>3. CASE UNCHANGED <<main, result>>
      BY <2>3 DEF EmptyRunIsCancelled
    <2> QED
      BY <2>1, <2>2, <2>3
      DEF Next, vars, Execute, StartNode, CallPlugin, DropTask, NodeSucceeds, NodeFails,
          NodeRaises, Answer, MockNode, RefuseInput, AtOnce, Cancel, Idle
  <1> QED
    BY <1>1, <1>2, PTL DEF Spec

-----------------------------------------------------------------------------
(* No edge leads from a node to itself.                                    *)
LEMMA NoSelfLoop ==
  ASSUME NEW n \in Nodes
  PROVE  n \notin Sources(n)
  <1>1. PICK m \in {n} : \A e \in Edges : e.target = m => e.source \notin {n}
    BY DagAssumption DEF Acyclic
  <1> QED
    BY <1>1 DEF Sources, InEdges

(* Without joins, an answer of p creates at most one task for a node, and  *)
(* only for a node that depends on p.                                      *)
LEMMA OneTaskTriggered ==
  ASSUME JoinFree, NEW p \in Nodes, NEW n \in Nodes, NEW out \in Outputs
  PROVE  /\ Cardinality(Triggered(p, n, out)) \in {0, 1}
         /\ p \notin Sources(n) => Cardinality(Triggered(p, n, out)) = 0
  <1>1. CASE Triggered(p, n, out) = {}
    BY <1>1, FS_EmptySet
  <1>2. CASE Triggered(p, n, out) # {}
    <2>1. PICK e : e \in Triggered(p, n, out)
      BY <1>2
    <2>2. e \in Edges /\ e.source = p /\ e.target = n
      BY <2>1 DEF Triggered
    <2>3. Triggered(p, n, out) = {e}
      BY <2>1, <2>2 DEF Triggered, JoinFree
    <2>4. p \in Sources(n)
      BY <2>2 DEF Sources, InEdges
    <2> QED
      BY <2>3, <2>4, FS_Singleton
  <1> QED
    BY <1>1, <1>2

(* Without joins, a node has at most one dependency.                       *)
LEMMA OneSource ==
  ASSUME JoinFree, NEW n \in Nodes, NEW p \in Sources(n), NEW q \in Sources(n)
  PROVE  p = q
  BY DEF Sources, InEdges, JoinFree

(* The steps by which a node ends: the task of p counted as done, before   *)
(* the tasks of its dependents are created.                                *)
Spends(p, before) ==
  /\ before \in [Nodes -> Nat] /\ inflight' \in [Nodes -> Nat] /\ entered' \in [Nodes -> Nat]
  /\ created[p] + inflight[p] > 0
  /\ before[p] + entered'[p] = created[p] + entered[p]
  /\ entered'[p] - inflight'[p] = entered[p] - inflight[p] + 1
  /\ entered[p] <= entered'[p]
  /\ \A n \in Nodes \ {p} :
       before[n] = created[n] /\ inflight'[n] = inflight[n] /\ entered'[n] = entered[n]

LEMMA AnswerSpends ==
  ASSUME TypeOK, NEW p \in Nodes, Answer(p)
  PROVE  Spends(p, created)
  <1>1. /\ created \in [Nodes -> Nat] /\ inflight[p] \in Nat /\ loading[p] \in Nat
        /\ created[p] \in Nat /\ entered[p] \in Nat
    BY DEF TypeOK
  <1>2. inflight[p] > 0
    BY <1>1 DEF Answer
  <1>3. inflight' \in [Nodes -> Nat] /\ inflight'[p] = inflight[p] - 1
    BY <1>1, <1>2 DEF Answer, TypeOK
  <1>4. \A n \in Nodes \ {p} : inflight'[n] = inflight[n]
    BY DEF Answer, TypeOK
  <1>5. entered' = entered /\ entered \in [Nodes -> Nat]
    BY DEF Answer, TypeOK
  <1> QED
    BY <1>1, <1>2, <1>3, <1>4, <1>5 DEF Spends

LEMMA AtOnceSpends ==
  ASSUME TypeOK, NEW p \in Nodes, AtOnce(p)
  PROVE  Spends(p, OneLess(p))
  <1>1. /\ inflight' = inflight /\ inflight \in [Nodes -> Nat]
        /\ created[p] \in Nat /\ created[p] > 0 /\ entered[p] \in Nat /\ inflight[p] \in Nat
    BY DEF TypeOK, AtOnce
  <1>2. OneLess(p) \in [Nodes -> Nat] /\ OneLess(p)[p] = created[p] - 1
        /\ \A n \in Nodes \ {p} : OneLess(p)[n] = created[n]
    BY <1>1, OneLessType
  <1>3. entered' \in [Nodes -> Nat] /\ entered'[p] = entered[p] + 1
        /\ \A n \in Nodes \ {p} : entered'[n] = entered[n]
    BY DEF AtOnce, TypeOK
  <1> QED
    BY <1>1, <1>2, <1>3 DEF Spends

(* Every way a node can end, and what they have in common.                 *)
Ends(p) ==
  \/ NodeRaises(p)
  \/ \E out \in Outputs : \/ NodeSucceeds(p, out) \/ NodeFails(p, out)
                          \/ MockNode(p, out) \/ RefuseInput(p, out)

EndsWith(p, before) ==
  /\ Spends(p, before)
  /\ \/ created' = before
     \/ \E out \in Outputs : StartDependentNodes(p, out, before)
  /\ \/ completed' = completed \union {p} /\ failed' = failed
     \/ completed' = completed /\ failed' = failed \union {p}
  /\ cancelled => cancelled'
  /\ UNCHANGED <<main, result>>

LEMMA EndOfNode ==
  ASSUME TypeOK, NEW p \in Nodes, Ends(p)
  PROVE  \E before : EndsWith(p, before)
  <1>1. ASSUME NEW before, NEW out \in Outputs, Accept(p, out, before) \/ Reject(p, out, before)
        PROVE  /\ \/ created' = before
                  \/ StartDependentNodes(p, out, before)
               /\ \/ completed' = completed \union {p} /\ failed' = failed
                  \/ completed' = completed /\ failed' = failed \union {p}
               /\ cancelled => cancelled'
    BY <1>1 DEF Accept, Reject
  <1>2. CASE NodeRaises(p)
    BY <1>2, AnswerSpends DEF NodeRaises, Answer, EndsWith
  <1>3. ASSUME NEW out \in Outputs, NodeSucceeds(p, out) \/ NodeFails(p, out)
        PROVE  EndsWith(p, created)
    <2>1. Spends(p, created) /\ UNCHANGED <<main, result>>
      BY <1>3, AnswerSpends DEF NodeSucceeds, NodeFails, Answer
    <2>2. Accept(p, out, created) \/ Reject(p, out, created)
      BY <1>3 DEF NodeSucceeds, NodeFails
    <2> QED
      BY <1>1, <2>1, <2>2 DEF EndsWith
  <1>4. ASSUME NEW out \in Outputs, MockNode(p, out) \/ RefuseInput(p, out)
        PROVE  EndsWith(p, OneLess(p))
    <2>1. Spends(p, OneLess(p)) /\ UNCHANGED <<main, result>>
      BY <1>4, AtOnceSpends DEF MockNode, RefuseInput, AtOnce
    <2>2. Accept(p, out, OneLess(p)) \/ Reject(p, out, OneLess(p))
      BY <1>4 DEF MockNode, RefuseInput
    <2> QED
      BY <1>1, <2>1, <2>2 DEF EndsWith
  <1> QED
    BY <1>2, <1>3, <1>4 DEF Ends

(* One token per node: a node has a task, or is inside its plugin, or is   *)
(* finished, and has none of these before its dependency is finished.      *)
TokenAt(n) ==
  /\ created[n] + inflight[n] <= 1
  /\ n \in Finished => created[n] = 0 /\ inflight[n] = 0 /\ entered[n] = 1
  /\ n \notin Finished => entered[n] = inflight[n]
  /\ \A p \in Sources(n) : p \notin Finished =>
       created[n] = 0 /\ inflight[n] = 0 /\ n \notin Finished

OneToken ==
  /\ completed \intersect failed = {}
  /\ \A n \in Nodes : TokenAt(n)

LEMMA UnspentIsUnfinished ==
  ASSUME TypeOK, OneToken, NEW p \in Nodes, created[p] + inflight[p] > 0
  PROVE  /\ p \notin Finished /\ created[p] + inflight[p] = 1 /\ entered[p] = inflight[p]
         /\ \A q \in Sources(p) : q \in Finished
  <1>1. /\ TokenAt(p) /\ inflight[p] \in Nat /\ created[p] \in Nat
    BY DEF TypeOK, OneToken
  <1>2. p \notin Finished
    BY <1>1 DEF TokenAt
  <1>3. created[p] + inflight[p] = 1 /\ entered[p] = inflight[p]
    BY <1>1, <1>2 DEF TokenAt
  <1>4. \A q \in Sources(p) : q \in Finished
    BY <1>1 DEF TokenAt
  <1> QED
    BY <1>2, <1>3, <1>4

(* The end of p uses its token up.                                         *)
LEMMA SpentOnce ==
  ASSUME TypeOK, OneToken, NEW p \in Nodes, NEW before, Spends(p, before)
  PROVE  before[p] = 0 /\ inflight'[p] = 0 /\ entered'[p] = 1
  <1>1. created[p] + inflight[p] = 1 /\ entered[p] = inflight[p]
    BY UnspentIsUnfinished DEF Spends
  <1>2. /\ created[p] \in Nat /\ inflight[p] \in Nat /\ entered[p] \in Nat
        /\ before[p] \in Nat /\ inflight'[p] \in Nat /\ entered'[p] \in Nat
    BY DEF TypeOK, Spends
  <1>3. before[p] + entered'[p] = 1 /\ entered'[p] - inflight'[p] = 1
    BY <1>1, <1>2 DEF Spends
  <1> QED
    BY <1>2, <1>3

(* The invariant at one node, in the state reached by the end of p.        *)
LEMMA OneTokenAfterEnd ==
  ASSUME JoinFree, TypeOK, OneToken, NEW p \in Nodes,
         NEW before, Spends(p, before),
         Finished' = Finished \union {p},
         NEW D \in [Nodes -> {0, 1}],
         \A n \in Nodes : p \notin Sources(n) => D[n] = 0,
         \A n \in Nodes : created'[n] = before[n] + D[n],
         NEW n \in Nodes
  PROVE  TokenAt(n)'
  <1> USE DEF TokenAt
  <1>1. /\ p \notin Finished /\ \A q \in Sources(p) : q \in Finished
        /\ before[p] = 0 /\ inflight'[p] = 0 /\ entered'[p] = 1
    BY UnspentIsUnfinished, SpentOnce DEF Spends
  <1>2. CASE n = p
    <2>1. D[p] = 0
      BY NoSelfLoop
    <2>2. created'[p] = 0
      BY <1>1, <2>1
    <2> QED
      BY <1>1, <1>2, <2>2
  <1>3. CASE p \in Sources(n)
    <2>1. created[n] = 0 /\ inflight[n] = 0 /\ n \notin Finished /\ n # p
      BY <1>1, <1>3, NoSelfLoop DEF OneToken
    <2>2. \A q \in Sources(n) : q = p
      BY <1>3, OneSource
    <2>3. /\ entered'[n] = 0 /\ inflight'[n] = 0 /\ n \notin Finished'
          /\ before[n] = 0
      BY <2>1 DEF OneToken, Spends
    <2>4. created'[n] \in {0, 1}
      <3>1. D[n] \in {0, 1} /\ created'[n] = before[n] + D[n]
        OBVIOUS
      <3>2. D[n] = 0 \/ D[n] = 1
        BY <3>1
      <3> QED
        BY <2>3, <3>1, <3>2
    <2>5. created'[n] + inflight'[n] <= 1
      BY <2>3, <2>4
    <2>6. \A q \in Sources(n) : q \in Finished'
      BY <2>2
    <2> QED
      BY <2>3, <2>5, <2>6
  <1>4. CASE n # p /\ p \notin Sources(n)
    <2>1. created'[n] = created[n] /\ inflight'[n] = inflight[n] /\ entered'[n] = entered[n]
      BY <1>4 DEF Spends, TypeOK
    <2>2. n \in Finished' <=> n \in Finished
      BY <1>4
    <2>3. \A q \in Sources(n) : q \notin Finished' => q \notin Finished
      OBVIOUS
    <2> QED
      BY <2>1, <2>2, <2>3 DEF OneToken
  <1> QED
    BY <1>2, <1>3, <1>4

LEMMA OneTokenHolds ==
  ASSUME JoinFree
  PROVE  Spec => []OneToken
  <1>1. Init => OneToken
    BY DEF Init, OneToken, TokenAt, Finished
  <1>2. TypeOK /\ Fresh /\ OneToken /\ [Next]_vars => OneToken'
    <2> SUFFICES ASSUME TypeOK, Fresh, OneToken, [Next]_vars
                 PROVE  OneToken'
      OBVIOUS
    <2>1. CASE Execute
      <3>1. \A n \in Nodes : created'[n] = 0 \/ (created'[n] = 1 /\ Sources(n) = {})
        BY <2>1 DEF Execute, Roots
      <3>2. \A n \in Nodes : inflight'[n] = 0 /\ entered'[n] = 0
        BY <2>1 DEF Execute, Fresh
      <3>3. completed' = {} /\ failed' = {}
        BY <2>1 DEF Execute, Fresh
      <3>4. \A n \in Nodes : Sources(n) # {} => created'[n] = 0
        BY <3>1
      <3> QED
        BY <3>1, <3>2, <3>3, <3>4 DEF OneToken, TokenAt, Finished
    <2>2. ASSUME NEW m \in Nodes, StartNode(m)
          PROVE  OneToken'
      <3>1. TokenAt(m) /\ created[m] \in Nat /\ inflight[m] \in Nat /\ entered[m] \in Nat
        BY DEF OneToken, TypeOK
      <3>2. created[m] > 0 /\ m \notin Finished /\ Sources(m) \subseteq Finished
        BY <2>2 DEF StartNode, Enter, Runnable, Finished
      <3>3. created[m] = 1 /\ inflight[m] = 0 /\ entered[m] = 0
        BY <3>1, <3>2 DEF TokenAt
      <3>4. created'[m] = 0 /\ inflight'[m] = 1 /\ entered'[m] = 1
        BY <2>2, <3>3 DEF StartNode, Enter, TypeOK
      <3>5. Finished' = Finished /\ completed' = completed /\ failed' = failed
        BY <2>2 DEF StartNode, Finished
      <3>6. TokenAt(m)'
        BY <3>2, <3>4, <3>5 DEF TokenAt
      <3>7. ASSUME NEW n \in Nodes \ {m}
            PROVE  TokenAt(n)'
        <4>1. created'[n] = created[n] /\ inflight'[n] = inflight[n] /\ entered'[n] = entered[n]
          BY <2>2 DEF StartNode, Enter, TypeOK
        <4> QED
          BY <3>5, <4>1 DEF OneToken, TokenAt
      <3> QED
        BY <3>5, <3>6, <3>7 DEF OneToken
    <2>3. ASSUME NEW m \in Nodes, DropTask(m)
          PROVE  OneToken'
      <3>1. TokenAt(m) /\ created[m] \in Nat /\ inflight[m] \in Nat /\ created[m] > 0
        BY <2>3 DEF DropTask, OneToken, TypeOK
      <3>2. created[m] = 1 /\ inflight[m] = 0 /\ m \notin Finished
        BY <3>1 DEF TokenAt
      <3>3. created'[m] = 0
        BY <2>3, <3>2 DEF DropTask, TypeOK
      <3>4. inflight' = inflight /\ entered' = entered /\ Finished' = Finished
            /\ completed' = completed /\ failed' = failed
        BY <2>3 DEF DropTask, Finished
      <3>5. TokenAt(m)'
        BY <3>1, <3>2, <3>3, <3>4 DEF TokenAt
      <3>6. ASSUME NEW n \in Nodes \ {m}
            PROVE  TokenAt(n)'
        <4>1. created'[n] = created[n]
          BY <2>3 DEF DropTask, TypeOK
        <4> QED
          BY <3>4, <4>1 DEF OneToken, TokenAt
      <3> QED
        BY <3>4, <3>5, <3>6 DEF OneToken
    <2>4. ASSUME NEW p \in Nodes, Ends(p)
          PROVE  OneToken'
      <3>1. PICK before : EndsWith(p, before)
        BY <2>4, EndOfNode
      <3>2. PICK D \in [Nodes -> {0, 1}] :
              /\ \A n \in Nodes : p \notin Sources(n) => D[n] = 0
              /\ \A n \in Nodes : created'[n] = before[n] + D[n]
        <4>1. CASE created' = before
          <5> DEFINE Z == [n \in Nodes |-> 0]
          <5>1. Z \in [Nodes -> {0, 1}] /\ \A n \in Nodes : Z[n] = 0
            OBVIOUS
          <5>2. \A n \in Nodes : created'[n] = before[n] + Z[n]
            BY <3>1, <4>1, <5>1 DEF EndsWith, Spends
          <5> QED
            BY <5>1, <5>2
        <4>2. ASSUME NEW out \in Outputs, StartDependentNodes(p, out, before)
              PROVE  \E D \in [Nodes -> {0, 1}] :
                       /\ \A n \in Nodes : p \notin Sources(n) => D[n] = 0
                       /\ \A n \in Nodes : created'[n] = before[n] + D[n]
          <5> DEFINE E == [n \in Nodes |-> Cardinality(Triggered(p, n, out))]
          <5>1. E \in [Nodes -> {0, 1}] /\ \A n \in Nodes : p \notin Sources(n) => E[n] = 0
            BY OneTaskTriggered
          <5>2. \A n \in Nodes : created'[n] = before[n] + E[n]
            BY <4>2 DEF StartDependentNodes
          <5> QED
            BY <5>1, <5>2
        <4> QED
          BY <3>1, <4>1, <4>2 DEF EndsWith
      <3>3. Finished' = Finished \union {p}
        BY <3>1 DEF EndsWith, Finished
      <3>4. p \notin Finished
        BY <3>1, UnspentIsUnfinished DEF EndsWith, Spends
      <3>5. completed' \intersect failed' = {}
        BY <3>1, <3>4 DEF EndsWith, OneToken, Finished
      <3>6. ASSUME NEW n \in Nodes
            PROVE  TokenAt(n)'
        BY <3>1, <3>2, <3>3, OneTokenAfterEnd DEF EndsWith
      <3> QED
        BY <3>5, <3>6 DEF OneToken
    <2>5. CASE UNCHANGED <<created, inflight, entered, completed, failed>>
      BY <2>5 DEF OneToken, TokenAt, Finished
    <2> QED
      BY <2>1, <2>2, <2>3, <2>4, <2>5
      DEF Next, Ends, vars, CallPlugin, Cancel, Complete, Timeout, Return, Idle
  <1> QED
    BY <1>1, <1>2, TypeCorrect, FreshUntilExecuted, PTL DEF Spec

(* A plugin is called by a task that has passed the guards.                *)
CallsEntered == \A n \in Nodes : invoked[n] + loading[n] <= entered[n]

LEMMA CallsAreEntered == Spec => []CallsEntered
  <1>1. Init => CallsEntered
    BY DEF Init, CallsEntered
  <1>2. TypeOK /\ CallsEntered /\ [Next]_vars => CallsEntered'
    <2> SUFFICES ASSUME TypeOK, CallsEntered, [Next]_vars
                 PROVE  CallsEntered'
      OBVIOUS
    <2>1. CASE UNCHANGED <<invoked, loading>> /\ \A n \in Nodes : entered[n] <= entered'[n]
                                                                  /\ entered'[n] \in Nat
      BY <2>1 DEF CallsEntered, TypeOK
    <2>2. CASE UNCHANGED <<invoked, loading, entered>>
      BY <2>2 DEF CallsEntered
    <2>3. ASSUME NEW m \in Nodes, StartNode(m)
          PROVE  CallsEntered'
      BY <2>3 DEF StartNode, Enter, CallsEntered, TypeOK
    <2>4. ASSUME NEW m \in Nodes, CallPlugin(m)
          PROVE  CallsEntered'
      BY <2>4 DEF CallPlugin, CallsEntered, TypeOK
    <2>5. ASSUME NEW m \in Nodes, AtOnce(m)
          PROVE  CallsEntered'
      BY <2>1, <2>5 DEF AtOnce, TypeOK, secretVars
    <2> QED
      BY <2>2, <2>3, <2>4, <2>5
      DEF Next, vars, secretVars, Execute, DropTask, NodeSucceeds, NodeFails, NodeRaises, Answer,
          MockNode, RefuseInput, Cancel, Complete, Timeout, Return, Idle
  <1> QED
    BY <1>1, <1>2, TypeCorrect, PTL DEF Spec

(* On a DAG that never joins every plugin is called at most once, whatever *)
(* the failure strategy and the conditions.                                *)
THEOREM CalledAtMostOnce ==
  ASSUME JoinFree
  PROVE  Spec => []AtMostOnce
  <1>1. TypeOK /\ OneToken /\ CallsEntered => AtMostOnce
    <2> SUFFICES ASSUME TypeOK, OneToken, CallsEntered, NEW n \in Nodes
                 PROVE  invoked[n] <= 1
      BY DEF AtMostOnce
    <2>1. /\ TokenAt(n) /\ created[n] \in Nat /\ inflight[n] \in Nat
          /\ invoked[n] \in Nat /\ loading[n] \in Nat /\ entered[n] \in Nat
      BY DEF TypeOK, OneToken
    <2>2. entered[n] <= 1
      BY <2>1 DEF TokenAt
    <2> QED
      BY <2>1, <2>2 DEF CallsEntered
  <1> QED
    BY <1>1, TypeCorrect, OneTokenHolds, CallsAreEntered, PTL

-----------------------------------------------------------------------------
(* What execute() returned stays true of the sets, which only grow; and    *)
(* when it returned uncancelled, every node was in one of them.            *)
Returned ==
  main = "ended" =>
    /\ result.cancelled => cancelled
    /\ result.completed \subseteq completed
    /\ result.failed \subseteq failed
    /\ ~result.cancelled => result.completed \union result.failed = Nodes

LEMMA CountsCover ==
  ASSUME TypeOK, completed \intersect failed = {}, AllFinished
  PROVE  completed \union failed = Nodes
  <1>1. completed \union failed \subseteq Nodes
    BY DEF TypeOK
  <1>2. IsFiniteSet(completed) /\ IsFiniteSet(failed)
    BY <1>1, DagAssumption, FS_Subset
  <1>3. Cardinality(completed \union failed) = Cardinality(completed) + Cardinality(failed)
    <2>1. Cardinality(completed \intersect failed) = 0
      BY FS_EmptySet
    <2>2. Cardinality(completed \union failed)
            = Cardinality(completed) + Cardinality(failed) - Cardinality(completed \intersect failed)
      BY <1>2, FS_Union
    <2>3. Cardinality(completed) \in Nat /\ Cardinality(failed) \in Nat
      BY <1>2, FS_CardinalityType
    <2> QED
      BY <2>1, <2>2, <2>3
  <1> QED
    BY <1>1, <1>3, CountsIdentify DEF AllFinished

LEMMA ReturnedHolds ==
  ASSUME JoinFree
  PROVE  Spec => []Returned
  <1>1. Init => Returned
    BY DEF Init, Returned
  <1>2. TypeOK /\ OneToken /\ Returned /\ [Next]_vars => Returned'
    <2> SUFFICES ASSUME TypeOK, OneToken, Returned, [Next]_vars
                 PROVE  Returned'
      OBVIOUS
    <2>1. CASE Return /\ (cancelled' \/ AllFinished)
      <3>1. /\ result' = [cancelled |-> cancelled', completed |-> completed,
                          failed |-> failed]
            /\ completed' = completed /\ failed' = failed
        BY <2>1 DEF Return
      <3>2. cancelled' \/ completed \union failed = Nodes
        BY <2>1, CountsCover DEF OneToken
      <3> QED
        BY <3>1, <3>2 DEF Returned
    <2>2. CASE /\ UNCHANGED <<main, result>> /\ (cancelled => cancelled')
               /\ completed \subseteq completed' /\ failed \subseteq failed'
      BY <2>2 DEF Returned
    <2>3. CASE Execute
      BY <2>3 DEF Execute, Returned
    <2>4. CASE Complete
      BY <2>1, <2>4 DEF Complete
    <2>5. CASE Timeout
      BY <2>1, <2>5 DEF Timeout
    <2>6. CASE Cancel
      BY <2>2, <2>6 DEF Cancel
    <2>7. ASSUME NEW n \in Nodes, StartNode(n) \/ CallPlugin(n) \/ DropTask(n)
          PROVE  Returned'
      BY <2>2, <2>7 DEF StartNode, CallPlugin, DropTask
    <2>8. ASSUME NEW n \in Nodes, Ends(n)
          PROVE  Returned'
      BY <2>2, <2>8, EndOfNode DEF EndsWith
    <2>9. CASE UNCHANGED vars
      BY <2>2, <2>9 DEF vars
    <2> QED
      BY <2>3, <2>4, <2>5, <2>6, <2>7, <2>8, <2>9 DEF Next, Ends, Idle
  <1> QED
    BY <1>1, <1>2, TypeCorrect, OneTokenHolds, PTL DEF Spec

(* On a DAG that never joins, a run that execute() returns uncancelled has *)
(* waited for every node, under either failure strategy ...                *)
THEOREM EveryNodeAwaited ==
  ASSUME JoinFree
  PROVE  Spec => []WaitsForAll
  <1>1. Returned => WaitsForAll
    BY DEF Returned, WaitsForAll
  <1> QED
    BY <1>1, ReturnedHolds, PTL

(* ... and has left nothing running behind it.                             *)
THEOREM NothingLeftRunning ==
  ASSUME JoinFree
  PROVE  Spec => []QuietSuccess
  <1>1. TypeOK /\ OneToken /\ Returned => QuietSuccess
    <2> SUFFICES ASSUME TypeOK, OneToken, Returned, main = "ended", ~result.cancelled,
                        NEW n \in Nodes
                 PROVE  created[n] = 0 /\ inflight[n] = 0
      BY DEF QuietSuccess, Quiescent
    <2>1. n \in Finished
      BY DEF Returned, Finished
    <2> QED
      BY <2>1 DEF OneToken, TokenAt
  <1> QED
    BY <1>1, TypeCorrect, OneTokenHolds, ReturnedHolds, PTL

-----------------------------------------------------------------------------
(* Plugin calls against cancellation.                                      *)

(* Until the secrets are cached whoever is inside _execute_node_plugin is  *)
(* loading them, and only nodes without a plugin have completed.           *)
FirstCalls ==
  /\ \A n \in Nodes : loading[n] <= inflight[n]
  /\ \A n \in Nodes : loading[n] > 0 => Sources(n) \subseteq Mocked
  /\ ~loaded => /\ completed \subseteq Mocked
                /\ \A n \in Nodes : inflight[n] = loading[n]

LEMMA FirstCallsHold == Spec => []FirstCalls
  <1>1. Init => FirstCalls
    BY DEF Init, FirstCalls
  <1>2. TypeOK /\ FirstCalls /\ [Next]_vars => FirstCalls'
    <2> SUFFICES ASSUME TypeOK, FirstCalls, [Next]_vars
                 PROVE  FirstCalls'
      OBVIOUS
    <2>0. \A n \in Nodes : Sources(n)' = Sources(n)
      BY DEF Sources, InEdges
    <2>1. CASE UNCHANGED <<inflight, loading, loaded, completed>>
      BY <2>0, <2>1 DEF FirstCalls
    <2>2. ASSUME NEW m \in Nodes, StartNode(m)
          PROVE  FirstCalls'
      <3>1. Sources(m) \subseteq completed /\ loaded' = loaded /\ completed' = completed
        BY <2>2 DEF StartNode, Enter, Runnable
      <3>2. CASE loaded
        <4>1. loading' = loading /\ \A n \in Nodes : inflight[n] <= inflight'[n]
          BY <2>2, <3>2 DEF StartNode, TypeOK
        <4>2. \A n \in Nodes : loading[n] \in Nat /\ inflight[n] \in Nat /\ inflight'[n] \in Nat
          BY <2>2 DEF StartNode, TypeOK
        <4> QED
          BY <2>0, <3>1, <3>2, <4>1, <4>2 DEF FirstCalls
      <3>3. CASE ~loaded
        <4>1. \A n \in Nodes : /\ loading'[n] = IF n = m THEN loading[n] + 1 ELSE loading[n]
                               /\ inflight'[n] = IF n = m THEN inflight[n] + 1 ELSE inflight[n]
          BY <2>2, <3>3 DEF StartNode, TypeOK
        <4>2. Sources(m) \subseteq Mocked /\ completed \subseteq Mocked
          BY <3>1, <3>3 DEF FirstCalls
        <4>3. \A n \in Nodes : /\ inflight[n] = loading[n] /\ loading[n] \in Nat
                               /\ loading[n] > 0 => Sources(n) \subseteq Mocked
          BY <3>3 DEF FirstCalls, TypeOK
        <4>4. \A n \in Nodes : /\ inflight'[n] = loading'[n] /\ loading'[n] \in Nat
                               /\ loading'[n] > 0 => Sources(n) \subseteq Mocked
          BY <4>1, <4>2, <4>3
        <4>5. \A n \in Nodes : loading'[n] <= inflight'[n]
          BY <4>4
        <4> QED
          BY <2>0, <3>1, <4>2, <4>4, <4>5 DEF FirstCalls
      <3> QED
        BY <3>2, <3>3
    <2>3. ASSUME NEW m \in Nodes, CallPlugin(m)
          PROVE  FirstCalls'
      <3>1. loaded' = TRUE /\ inflight' = inflight
            /\ \A n \in Nodes : loading'[n] = IF n = m THEN loading[n] - 1 ELSE loading[n]
        BY <2>3 DEF CallPlugin, TypeOK
      <3>2. \A n \in Nodes : /\ loading[n] <= inflight[n] /\ loading[n] \in Nat /\ inflight[n] \in Nat
                             /\ loading[n] > 0 => Sources(n) \subseteq Mocked
        BY DEF FirstCalls, TypeOK
      <3>3. \A n \in Nodes : /\ loading'[n] <= inflight'[n]
                             /\ loading'[n] > 0 => Sources(n) \subseteq Mocked
        BY <3>1, <3>2
      <3> QED
        BY <2>0, <3>1, <3>3 DEF FirstCalls
    <2>4. ASSUME NEW m \in Nodes, Answer(m)
          PROVE  FirstCalls'
      <3>1. inflight[m] > loading[m] /\ loading' = loading /\ loaded' = loaded
            /\ \A n \in Nodes : inflight'[n] = IF n = m THEN inflight[n] - 1 ELSE inflight[n]
        BY <2>4 DEF Answer, TypeOK, secretVars
      <3>2. inflight[m] \in Nat /\ loading[m] \in Nat
        BY DEF TypeOK
      <3>3. loaded
        BY <3>1, <3>2 DEF FirstCalls
      <3>4. \A n \in Nodes : loading'[n] <= inflight'[n]
        BY <3>1, <3>2 DEF FirstCalls
      <3> QED
        BY <2>0, <3>1, <3>3, <3>4 DEF FirstCalls
    <2>5. ASSUME NEW m \in Nodes, NEW out \in Outputs, MockNode(m, out) \/ RefuseInput(m, out)
          PROVE  FirstCalls'
      <3>1. UNCHANGED <<inflight, loading, loaded>>
        BY <2>5 DEF MockNode, RefuseInput, AtOnce, secretVars
      <3>2. completed' \subseteq completed \union Mocked
        BY <2>5 DEF MockNode, RefuseInput, Accept, Reject
      <3> QED
        BY <2>0, <3>1, <3>2 DEF FirstCalls
    <2> QED
      BY <2>1, <2>2, <2>3, <2>4, <2>5
      DEF Next, vars, secretVars, Execute, DropTask, NodeSucceeds, NodeFails, NodeRaises,
          Cancel, Complete, Timeout, Return, Idle
  <1> QED
    BY <1>1, <1>2, TypeCorrect, PTL DEF Spec

(* Whoever set the cancelled flag, the only plugins called afterwards are  *)
(* those for which the secrets were being loaded, the first of the run.    *)
THEOREM LateCallsAreFirstCalls == Spec => OnlyFirstCallsLate
  <1>1. TypeOK /\ FirstCalls /\ [Next]_vars
          => [\A n \in Nodes : cancelled /\ invoked'[n] > invoked[n]
                => loading[n] > 0 /\ Sources(n) \subseteq Mocked]_vars
    <2> SUFFICES ASSUME TypeOK, FirstCalls, [Next]_vars, NEW n \in Nodes,
                        cancelled, invoked'[n] > invoked[n]
                 PROVE  loading[n] > 0 /\ Sources(n) \subseteq Mocked
      OBVIOUS
    <2>1. invoked[n] \in Nat
      BY DEF TypeOK
    <2>2. invoked' # invoked
      BY <2>1
    <2>3. \A m \in Nodes : ~StartNode(m)
      BY DEF StartNode, Enter, Runnable
    <2>4. PICK m \in Nodes : CallPlugin(m)
      BY <2>2, <2>3
      DEF Next, vars, Execute, DropTask, NodeSucceeds, NodeFails, NodeRaises, Answer,
          MockNode, RefuseInput, AtOnce, Cancel, Complete, Timeout, Return, Idle
    <2>5. m = n
      BY <2>1, <2>4 DEF CallPlugin, TypeOK
    <2>6. loading[n] > 0
      BY <2>4, <2>5 DEF CallPlugin
    <2> QED
      BY <2>6 DEF FirstCalls
  <1> QED
    BY <1>1, TypeCorrect, FirstCallsHold, PTL DEF Spec, OnlyFirstCallsLate

-----------------------------------------------------------------------------
(* Of the tasks that passed the guards, those in flight have not answered. *)
Answered == \A n \in Nodes : inflight[n] <= entered[n]

LEMMA AnsweredHolds == Spec => []Answered
  <1>1. Init => Answered
    BY DEF Init, Answered
  <1>2. TypeOK /\ Answered /\ [Next]_vars => Answered'
    <2> SUFFICES ASSUME TypeOK, Answered, [Next]_vars
                 PROVE  Answered'
      OBVIOUS
    <2>1. CASE UNCHANGED <<inflight, entered>>
      BY <2>1 DEF Answered
    <2>2. ASSUME NEW m \in Nodes, StartNode(m)
          PROVE  Answered'
      BY <2>2 DEF StartNode, Enter, Answered, TypeOK
    <2>3. ASSUME NEW m \in Nodes, NEW before, Spends(m, before)
          PROVE  Answered'
      <3> SUFFICES ASSUME NEW n \in Nodes
                   PROVE  inflight'[n] <= entered'[n]
        BY DEF Answered
      <3>1. /\ inflight[n] \in Nat /\ entered[n] \in Nat /\ inflight[n] <= entered[n]
            /\ inflight'[n] \in Nat /\ entered'[n] \in Nat
        BY <2>3 DEF TypeOK, Answered, Spends
      <3>2. CASE n = m
        BY <2>3, <3>1, <3>2 DEF Spends
      <3>3. CASE n # m
        BY <2>3, <3>1, <3>3 DEF Spends
      <3> QED
        BY <3>2, <3>3
    <2>4. ASSUME NEW m \in Nodes, Ends(m)
          PROVE  Answered'
      BY <2>3, <2>4, EndOfNode DEF EndsWith
    <2> QED
      BY <2>1, <2>2, <2>4
      DEF Next, Ends, vars, Execute, CallPlugin, DropTask, Cancel, Complete, Timeout, Return, Idle
  <1> QED
    BY <1>1, <1>2, TypeCorrect, PTL DEF Spec

(* The tasks and calls of a node, counted against the answers given over   *)
(* the edges into it, as long as every dependency was called at most once. *)
AnsweredEdges(n) == {e \in InEdges(n) : entered[e.source] > inflight[e.source]}

SourcesEnteredOnce(n) == \A p \in Sources(n) : entered[p] <= 1

OncePerAnswer(n) ==
  SourcesEnteredOnce(n) =>
    created[n] + entered[n] <= IF Sources(n) = {} THEN 1 ELSE Cardinality(AnsweredEdges(n))

EveryRunPaid == \A n \in Nodes : OncePerAnswer(n)

LEMMA InEdgesFinite ==
  ASSUME NEW n \in Nodes
  PROVE  /\ IsFiniteSet(InEdges(n))
         /\ Cardinality(InEdges(n)) \in Nat
         /\ \A e \in InEdges(n) : e.source \in Nodes /\ e.source \in Sources(n)
  <1>1. IsFiniteSet(InEdges(n))
    BY DagAssumption, FS_Subset DEF InEdges
  <1>2. \A e \in InEdges(n) : e.source \in Nodes /\ e.source \in Sources(n)
    BY DagAssumption DEF InEdges, Sources
  <1> QED
    BY <1>1, <1>2, FS_CardinalityType

LEMMA AnsweredEdgesFinite ==
  ASSUME NEW n \in Nodes
  PROVE  /\ IsFiniteSet(AnsweredEdges(n))
         /\ Cardinality(AnsweredEdges(n)) \in Nat
         /\ Cardinality(AnsweredEdges(n)) <= Cardinality(InEdges(n))
  BY InEdgesFinite, FS_Subset, FS_CardinalityType DEF AnsweredEdges

(* The end of p pays for the tasks T it creates for n: had p been executed *)
(* once only, none of its edges into n was answered before.                *)
LEMMA AnswerPays ==
  ASSUME TypeOK, Answered, NEW p \in Nodes, NEW before, Spends(p, before),
         NEW n \in Nodes, OncePerAnswer(n),
         NEW T, T \subseteq {e \in InEdges(n) : e.source = p},
         created'[n] = before[n] + Cardinality(T)
  PROVE  OncePerAnswer(n)'
  <1> SUFFICES ASSUME SourcesEnteredOnce(n)'
               PROVE  created'[n] + entered'[n]
                        <= IF Sources(n) = {} THEN 1 ELSE Cardinality(AnsweredEdges(n)')
    BY DEF OncePerAnswer, SourcesEnteredOnce, Sources, InEdges
  <1>0. /\ \A q \in Nodes : /\ inflight[q] \in Nat /\ entered[q] \in Nat /\ created[q] \in Nat
                            /\ inflight'[q] \in Nat /\ entered'[q] \in Nat /\ before[q] \in Nat
                            /\ inflight[q] <= entered[q] /\ entered[q] <= entered'[q]
        /\ \A q \in Nodes \ {p} : /\ inflight'[q] = inflight[q] /\ entered'[q] = entered[q]
                                  /\ before[q] = created[q]
        /\ before[p] + entered'[p] = created[p] + entered[p]
        /\ entered'[p] - inflight'[p] = entered[p] - inflight[p] + 1
    BY DEF Spends, TypeOK, Answered
  <1>1. /\ created[n] + entered[n] <= IF Sources(n) = {} THEN 1 ELSE Cardinality(AnsweredEdges(n))
        /\ created[n] \in Nat /\ entered[n] \in Nat /\ before[n] \in Nat /\ entered'[n] \in Nat
        /\ before[n] + entered'[n] = created[n] + entered[n]
    <2>1. SourcesEnteredOnce(n)
      <3> SUFFICES ASSUME NEW q \in Sources(n)
                   PROVE  entered[q] <= 1
        BY DEF SourcesEnteredOnce
      <3>1. q \in Nodes
        BY DagAssumption DEF Sources, InEdges
      <3>2. entered'[q] <= 1
        BY DEF SourcesEnteredOnce, Sources, InEdges
      <3>3. entered[q] \in Nat /\ entered'[q] \in Nat /\ entered[q] <= entered'[q]
        BY <1>0, <3>1
      <3> QED
        BY <3>2, <3>3
    <2>2. before[n] + entered'[n] = created[n] + entered[n]
      <3>1. CASE n = p
        BY <1>0, <3>1
      <3>2. CASE n # p
        BY <1>0, <3>2
      <3> QED
        BY <3>1, <3>2
    <2> QED
      BY <1>0, <2>1, <2>2 DEF OncePerAnswer
  <1>3. CASE p \in Sources(n)
    <2>1. ~(entered[p] > inflight[p]) /\ entered'[p] > inflight'[p]
      <3>1. entered'[p] <= 1
        BY <1>3 DEF SourcesEnteredOnce, Sources, InEdges
      <3>2. /\ inflight[p] \in Nat /\ entered[p] \in Nat /\ inflight'[p] \in Nat
            /\ entered'[p] \in Nat /\ inflight[p] <= entered[p]
            /\ entered'[p] - inflight'[p] = entered[p] - inflight[p] + 1
        BY <1>0
      <3> QED
        BY <3>1, <3>2
    <2>2. \A e \in AnsweredEdges(n) : e.source # p
      BY <2>1 DEF AnsweredEdges
    <2>3. T \intersect AnsweredEdges(n) = {}
      BY <2>2
    <2>4. T \union AnsweredEdges(n) \subseteq AnsweredEdges(n)'
      <3>2. T \subseteq AnsweredEdges(n)'
        BY <2>1 DEF AnsweredEdges, InEdges
      <3>3. AnsweredEdges(n) \subseteq AnsweredEdges(n)'
        <4> SUFFICES ASSUME NEW e \in AnsweredEdges(n)
                     PROVE  e \in AnsweredEdges(n)'
          OBVIOUS
        <4>1. e \in InEdges(n) /\ e.source \in Nodes /\ entered[e.source] > inflight[e.source]
          BY InEdgesFinite DEF AnsweredEdges
        <4>2. inflight'[e.source] = inflight[e.source] /\ entered'[e.source] = entered[e.source]
          BY <1>0, <2>2, <4>1
        <4> QED
          BY <4>1, <4>2 DEF AnsweredEdges, InEdges
      <3> QED
        BY <3>2, <3>3
    <2>5. IsFiniteSet(T) /\ IsFiniteSet(AnsweredEdges(n)) /\ IsFiniteSet(AnsweredEdges(n)')
      <3>1. AnsweredEdges(n)' \subseteq InEdges(n) /\ T \subseteq InEdges(n)
        BY DEF AnsweredEdges, InEdges
      <3> QED
        BY <3>1, InEdgesFinite, AnsweredEdgesFinite, FS_Subset
    <2>6. Cardinality(T \union AnsweredEdges(n)) = Cardinality(T) + Cardinality(AnsweredEdges(n))
      <3>1. Cardinality(T \intersect AnsweredEdges(n)) = 0
        BY <2>3, FS_EmptySet
      <3>2. Cardinality(T \union AnsweredEdges(n))
              = Cardinality(T) + Cardinality(AnsweredEdges(n))
                - Cardinality(T \intersect AnsweredEdges(n))
        BY <2>5, FS_Union
      <3>3. Cardinality(T) \in Nat /\ Cardinality(AnsweredEdges(n)) \in Nat
        BY <2>5, FS_CardinalityType
      <3> QED
        BY <3>1, <3>2, <3>3
    <2>7. Cardinality(T \union AnsweredEdges(n)) <= Cardinality(AnsweredEdges(n)')
      BY <2>4, <2>5, FS_Subset
    <2>8. /\ Cardinality(T) \in Nat
          /\ Cardinality(AnsweredEdges(n)) \in Nat
          /\ Cardinality(AnsweredEdges(n)') \in Nat
      BY <2>5, FS_CardinalityType
    <2>9. Sources(n) # {}
      BY <1>3
    <2>10. created[n] + entered[n] <= Cardinality(AnsweredEdges(n))
      BY <1>1, <2>9
    <2>11. created'[n] + entered'[n] = (created[n] + entered[n]) + Cardinality(T)
      BY <1>1, <2>8
    <2>12. created'[n] + entered'[n] <= Cardinality(AnsweredEdges(n)')
      BY <1>1, <2>6, <2>7, <2>8, <2>10, <2>11
    <2> QED
      BY <2>9, <2>12
  <1>4. CASE p \notin Sources(n)
    <2>1. T = {}
      BY <1>4, InEdgesFinite
    <2>2. created'[n] = before[n]
      BY <1>1, <2>1, FS_EmptySet
    <2>3. \A e \in InEdges(n) : /\ inflight'[e.source] = inflight[e.source]
                               /\ entered'[e.source] = entered[e.source]
      BY <1>0, <1>4, InEdgesFinite
    <2>4. AnsweredEdges(n)' = AnsweredEdges(n)
      BY <2>3 DEF AnsweredEdges, InEdges
    <2> QED
      BY <1>1, <2>2, <2>4
  <1> QED
    BY <1>3, <1>4

LEMMA EveryRunIsPaid == Spec => []EveryRunPaid
  <1>1. Init => EveryRunPaid
    <2> SUFFICES ASSUME Init, NEW n \in Nodes
                 PROVE  OncePerAnswer(n)
      BY DEF EveryRunPaid
    <2>1. created[n] + entered[n] = 0
      BY DEF Init
    <2> QED
      BY <2>1, AnsweredEdgesFinite DEF OncePerAnswer
  <1>2. TypeOK /\ Fresh /\ Answered /\ EveryRunPaid /\ [Next]_vars => EveryRunPaid'
    <2> SUFFICES ASSUME TypeOK, Fresh, Answered, EveryRunPaid, [Next]_vars, NEW n \in Nodes
                 PROVE  OncePerAnswer(n)'
      BY DEF EveryRunPaid
    <2>0. /\ created[n] \in Nat /\ entered[n] \in Nat /\ inflight[n] \in Nat
          /\ OncePerAnswer(n)
      BY DEF TypeOK, EveryRunPaid
    <2>1. CASE Execute
      <3>1. created'[n] + entered'[n] = IF Sources(n) = {} THEN 1 ELSE 0
        BY <2>1 DEF Execute, Fresh, Roots
      <3>2. Sources(n)' = Sources(n)
        BY DEF Sources, InEdges
      <3>3. Cardinality(AnsweredEdges(n)') \in Nat
        <4>1. AnsweredEdges(n)' \subseteq InEdges(n)
          BY DEF AnsweredEdges, InEdges
        <4> QED
          BY <4>1, InEdgesFinite, FS_Subset, FS_CardinalityType
      <3> QED
        BY <3>1, <3>2, <3>3 DEF OncePerAnswer
    <2>2. ASSUME \A q \in Nodes : /\ entered'[q] - inflight'[q] = entered[q] - inflight[q]
                                  /\ entered[q] <= entered'[q]
                                  /\ entered'[q] \in Nat /\ inflight'[q] \in Nat,
                 created'[n] + entered'[n] <= created[n] + entered[n],
                 created'[n] \in Nat
          PROVE  OncePerAnswer(n)'
      <3>1. ASSUME NEW e \in InEdges(n)
            PROVE  entered'[e.source] > inflight'[e.source]
                     <=> entered[e.source] > inflight[e.source]
        <4>1. e.source \in Nodes
          BY InEdgesFinite
        <4>2. entered[e.source] \in Nat /\ inflight[e.source] \in Nat
          BY <4>1 DEF TypeOK
        <4> QED
          BY <2>2, <4>1, <4>2
      <3>2. AnsweredEdges(n)' = AnsweredEdges(n)
        BY <3>1 DEF AnsweredEdges, InEdges
      <3>3. SourcesEnteredOnce(n)' => SourcesEnteredOnce(n)
        <4> SUFFICES ASSUME SourcesEnteredOnce(n)', NEW q \in Sources(n)
                     PROVE  entered[q] <= 1
          BY DEF SourcesEnteredOnce
        <4>1. q \in Nodes
          BY DagAssumption DEF Sources, InEdges
        <4>2. entered'[q] <= 1
          BY DEF SourcesEnteredOnce, Sources, InEdges
        <4>3. entered[q] \in Nat
          BY <4>1 DEF TypeOK
        <4> QED
          BY <2>2, <4>1, <4>2, <4>3
      <3>4. Sources(n)' = Sources(n)
        BY DEF Sources, InEdges
      <3>5. entered'[n] \in Nat
        BY <2>2
      <3> QED
        BY <2>0, <2>2, <3>2, <3>3, <3>4, <3>5, AnsweredEdgesFinite DEF OncePerAnswer
    <2>3. ASSUME NEW m \in Nodes, StartNode(m)
          PROVE  OncePerAnswer(n)'
      <3>1. \A q \in Nodes : /\ entered'[q] = IF q = m THEN entered[q] + 1 ELSE entered[q]
                             /\ inflight'[q] = IF q = m THEN inflight[q] + 1 ELSE inflight[q]
                             /\ created'[q] = IF q = m THEN created[q] - 1 ELSE created[q]
                             /\ entered[q] \in Nat /\ inflight[q] \in Nat /\ created[q] \in Nat
        BY <2>3 DEF StartNode, Enter, TypeOK
      <3>2. created[m] > 0
        BY <2>3 DEF StartNode, Enter
      <3> QED
        BY <2>2, <3>1, <3>2
    <2>4. ASSUME NEW m \in Nodes, DropTask(m)
          PROVE  OncePerAnswer(n)'
      <3>1. \A q \in Nodes : /\ entered'[q] = entered[q] /\ inflight'[q] = inflight[q]
                             /\ created'[q] = IF q = m THEN created[q] - 1 ELSE created[q]
                             /\ entered[q] \in Nat /\ inflight[q] \in Nat /\ created[q] \in Nat
        BY <2>4 DEF DropTask, TypeOK
      <3>2. created[m] > 0
        BY <2>4 DEF DropTask
      <3> QED
        BY <2>2, <3>1, <3>2
    <2>5. ASSUME NEW p \in Nodes, Ends(p)
          PROVE  OncePerAnswer(n)'
      <3>1. PICK before : EndsWith(p, before)
        BY <2>5, EndOfNode
      <3>2. PICK T : /\ T \subseteq {e \in InEdges(n) : e.source = p}
                     /\ created'[n] = before[n] + Cardinality(T)
        <4>1. CASE created' = before
          <5>1. before[n] \in Nat
            BY <3>1 DEF EndsWith, Spends
          <5>2. created'[n] = before[n] + Cardinality({})
            BY <4>1, <5>1, FS_EmptySet
          <5> QED
            BY <5>2
        <4>2. ASSUME NEW out \in Outputs, StartDependentNodes(p, out, before)
              PROVE  \E T : /\ T \subseteq {e \in InEdges(n) : e.source = p}
                            /\ created'[n] = before[n] + Cardinality(T)
          <5>1. Triggered(p, n, out) \subseteq {e \in InEdges(n) : e.source = p}
            BY DEF Triggered, InEdges
          <5>2. created'[n] = before[n] + Cardinality(Triggered(p, n, out))
            BY <4>2 DEF StartDependentNodes
          <5> QED
            BY <5>1, <5>2
        <4> QED
          BY <3>1, <4>1, <4>2 DEF EndsWith
      <3> QED
        BY <2>0, <3>1, <3>2, AnswerPays DEF EndsWith
    <2>8. CASE UNCHANGED <<created, inflight, entered>>
      BY <2>0, <2>8 DEF OncePerAnswer, SourcesEnteredOnce, AnsweredEdges, Sources, InEdges
    <2> QED
      BY <2>1, <2>3, <2>4, <2>5, <2>8
      DEF Next, Ends, vars, CallPlugin, Cancel, Complete, Timeout, Return, Idle
  <1> QED
    BY <1>1, <1>2, TypeCorrect, FreshUntilExecuted, AnsweredHolds, PTL DEF Spec

(* In every DAG a node whose dependencies were executed once each is       *)
(* executed at most once per edge into it: repeats come from joins alone.  *)
THEOREM CallsComeFromEdges == Spec => []CallsPerEdge
  <1>1. TypeOK /\ EveryRunPaid /\ CallsEntered => CallsPerEdge
    <2> SUFFICES ASSUME TypeOK, EveryRunPaid, CallsEntered, NEW n \in Nodes
                 PROVE  /\ invoked[n] <= entered[n]
                        /\ (\A p \in Sources(n) : entered[p] <= 1)
                             => entered[n] <= IF Sources(n) = {} THEN 1 ELSE Cardinality(InEdges(n))
      BY DEF CallsPerEdge
    <2>1. created[n] \in Nat /\ invoked[n] \in Nat /\ entered[n] \in Nat /\ loading[n] \in Nat
      BY DEF TypeOK
    <2>2. invoked[n] <= entered[n]
      BY <2>1 DEF CallsEntered
    <2>3. ASSUME \A p \in Sources(n) : entered[p] <= 1
          PROVE  entered[n] <= IF Sources(n) = {} THEN 1 ELSE Cardinality(InEdges(n))
      <3>1. created[n] + entered[n] <= IF Sources(n) = {} THEN 1 ELSE Cardinality(AnsweredEdges(n))
        BY <2>3 DEF EveryRunPaid, OncePerAnswer, SourcesEnteredOnce
      <3> QED
        BY <2>1, <3>1, AnsweredEdgesFinite, InEdgesFinite
    <2> QED
      BY <2>2, <2>3
  <1> QED
    BY <1>1, TypeCorrect, EveryRunIsPaid, CallsAreEntered, PTL

(* A part of a DAG that depends on nothing outside itself and has no join  *)
(* in it: no node of it has two edges into it.                             *)
BeforeJoins(S) ==
  /\ S \subseteq Nodes
  /\ \A n \in S : /\ Sources(n) \subseteq S
                  /\ \A d, e \in InEdges(n) : d = e

(* Upstream of the joins every plugin is called at most once, whatever the *)
(* rest of the DAG looks like: among the nodes executed twice the earliest *)
(* has dependencies executed once each, and one edge into it at most.      *)
CalledOnceUpstream ==
  \A S \in SUBSET Nodes : BeforeJoins(S) => \A n \in S : invoked[n] <= 1

THEOREM CalledOnceBeforeJoins == Spec => []CalledOnceUpstream
  <1>1. TypeOK /\ CallsPerEdge => CalledOnceUpstream
    <2> SUFFICES ASSUME TypeOK, CallsPerEdge, NEW S \in SUBSET Nodes, BeforeJoins(S),
                        NEW k \in S
                 PROVE  invoked[k] <= 1
      BY DEF CalledOnceUpstream
    <2> DEFINE U == {m \in S : ~(entered[m] <= 1)}
    <2>1. U = {}
      <3> SUFFICES ASSUME U # {}
                   PROVE  FALSE
        OBVIOUS
      <3>1. PICK n \in U : \A e \in Edges : e.target = n => e.source \notin U
        BY DagAssumption DEF Acyclic
      <3>2. \A p \in Sources(n) : entered[p] <= 1
        BY <3>1 DEF BeforeJoins, Sources, InEdges
      <3>3. entered[n] <= IF Sources(n) = {} THEN 1 ELSE Cardinality(InEdges(n))
        BY <3>2 DEF CallsPerEdge
      <3>4. Sources(n) # {}
        BY <3>1, <3>3
      <3>5. PICK e \in InEdges(n) : TRUE
        BY <3>4 DEF Sources
      <3>6. InEdges(n) = {e}
        BY <3>1, <3>5 DEF BeforeJoins
      <3>7. Cardinality(InEdges(n)) = 1
        BY <3>6, FS_Singleton
      <3> QED
        BY <3>1, <3>3, <3>4, <3>7
    <2>2. entered[k] <= 1 /\ invoked[k] <= entered[k] /\ invoked[k] \in Nat /\ entered[k] \in Nat
      BY <2>1 DEF CallsPerEdge, TypeOK
    <2> QED
      BY <2>2
  <1> QED
    BY <1>1, TypeCorrect, CallsComeFromEdges, PTL

-----------------------------------------------------------------------------
(* The refinement: what each step does to the phase and the node states.   *)

(* The end of p sets the state of p and of no other node.                  *)
LEMMA EndSetsState ==
  ASSUME TypeOK, OneToken, NEW p \in Nodes, NEW before, EndsWith(p, before)
  PROVE  /\ p \notin Finished
         /\ \E outcome \in {"completed", "failed"} :
              [n \in Nodes |-> NodeState(n)]' = [[n \in Nodes |-> NodeState(n)] EXCEPT ![p] = outcome]
         /\ Phase' = Phase
  <1>1. p \notin completed /\ p \notin failed /\ p \notin Finished
    BY UnspentIsUnfinished DEF EndsWith, Spends, Finished
  <1>2. PICK outcome \in {"completed", "failed"} : NodeState(p)' = outcome
    <2>1. CASE completed' = completed \union {p} /\ failed' = failed
      <3>1. p \in completed' /\ p \notin failed'
        BY <1>1, <2>1
      <3> QED
        BY <3>1 DEF NodeState, Finished
    <2>2. CASE completed' = completed /\ failed' = failed \union {p}
      <3>1. p \in failed' /\ p \notin completed'
        BY <1>1, <2>2
      <3> QED
        BY <3>1 DEF NodeState, Finished
    <2> QED
      BY <2>1, <2>2 DEF EndsWith
  <1>3. ASSUME NEW n \in Nodes, n # p
        PROVE  NodeState(n)' = NodeState(n)
    <2>1. inflight'[n] = inflight[n]
      BY <1>3 DEF EndsWith, Spends
    <2>2. (n \in completed' <=> n \in completed) /\ (n \in failed' <=> n \in failed)
      BY <1>3 DEF EndsWith
    <2> QED
      BY <2>1, <2>2 DEF NodeState, Finished
  <1>4. [n \in Nodes |-> NodeState(n)]' = [[n \in Nodes |-> NodeState(n)] EXCEPT ![p] = outcome]
    BY <1>2, <1>3
  <1>5. Phase' = Phase
    BY DEF Phase, EndsWith
  <1> QED
    BY <1>1, <1>4, <1>5

(* A task that passes the guards starts its node.                          *)
LEMMA StartRefines ==
  ASSUME TypeOK, Fresh, FailureCancels, OneToken, Returned,
         NEW m \in Nodes, created[m] > 0, Runnable(m),
         Phase' = Phase, NEW outcome \in {"running", "completed", "failed"},
         [n \in Nodes |-> NodeState(n)]' = [[n \in Nodes |-> NodeState(n)] EXCEPT ![m] = outcome]
  PROVE  Abstract!Start(m)
  <1>1. ~cancelled /\ m \notin Finished /\ Sources(m) \subseteq completed
    BY DEF Runnable
  <1>2. TokenAt(m) /\ created[m] \in Nat /\ inflight[m] \in Nat
    BY DEF OneToken, TypeOK
  <1>3. inflight[m] = 0 /\ NodeState(m) = "idle"
    BY <1>1, <1>2 DEF TokenAt, NodeState, Finished
  <1>5. main = "waiting"
    <2>1. main # "new"
      BY DEF Fresh
    <2>2. main # "ended"
      BY <1>1 DEF Returned, Finished
    <2> QED
      BY <2>1, <2>2 DEF TypeOK
  <1>6. Phase = "running" /\ Phase' = Phase
    BY <1>5 DEF Phase
  <1>7. FailFast => failed = {}
    BY <1>1 DEF FailureCancels
  <1>8. FailFast => \A n \in Nodes : NodeState(n) # "failed"
    BY <1>7 DEF NodeState
  <1>9. \A p \in Sources(m) : p \in Nodes /\ NodeState(p) = "completed"
    <2> SUFFICES ASSUME NEW p \in Sources(m)
                 PROVE  p \in Nodes /\ NodeState(p) = "completed"
      OBVIOUS
    <2>1. p \in completed /\ p \notin failed
      BY <1>1 DEF OneToken
    <2>2. p \in Nodes
      BY <2>1 DEF TypeOK
    <2> QED
      BY <2>1, <2>2 DEF NodeState, Finished
  <1> QED
    BY <1>3, <1>6, <1>8, <1>9 DEF Abstract!Start

LEMMA StepRefines ==
  ASSUME TypeOK, Fresh, FailureCancels, OneToken, Returned, [Next]_vars
  PROVE  [Abstract!Next]_(Abstract!dagVars)
  <1>1. ASSUME UNCHANGED <<inflight, completed, failed>>
        PROVE  [n \in Nodes |-> NodeState(n)]' = [n \in Nodes |-> NodeState(n)]
    BY <1>1 DEF NodeState, Finished
  <1>2. CASE Execute
    <2>1. Phase = "pending" /\ Phase' = "running"
      BY <1>2 DEF Execute, Phase
    <2> QED
      BY <1>1, <1>2, <2>1 DEF Execute, Abstract!Next, Abstract!Begin
  <1>3. ASSUME NEW m \in Nodes, StartNode(m)
        PROVE  Abstract!Next
    <2>1. created[m] > 0 /\ Runnable(m)
      BY <1>3 DEF StartNode, Enter
    <2>2. /\ inflight' = [inflight EXCEPT ![m] = @ + 1]
          /\ UNCHANGED <<main, completed, failed, cancelled, result>>
      BY <1>3 DEF StartNode
    <2>3. NodeState(m)' = "running"
      <3>1. m \notin Finished /\ inflight[m] \in Nat
        BY <2>1 DEF Runnable, TypeOK
      <3>2. inflight'[m] > 0 /\ m \notin Finished' /\ m \notin failed' /\ m \notin completed'
        BY <2>2, <3>1 DEF TypeOK, Finished
      <3> QED
        BY <3>2 DEF NodeState
    <2>4. ASSUME NEW n \in Nodes, n # m
          PROVE  NodeState(n)' = NodeState(n)
      <3>1. inflight'[n] = inflight[n]
        BY <2>2, <2>4 DEF TypeOK
      <3> QED
        BY <2>2, <3>1 DEF NodeState, Finished
    <2>5. [n \in Nodes |-> NodeState(n)]' = [[n \in Nodes |-> NodeState(n)] EXCEPT ![m] = "running"]
      BY <2>3, <2>4
    <2>6. Phase' = Phase
      BY <2>2 DEF Phase
    <2> QED
      BY <2>1, <2>5, <2>6, StartRefines DEF Abstract!Next
  <1>4. ASSUME NEW p \in Nodes, Ends(p)
        PROVE  Abstract!Next
    <2>1. PICK before : EndsWith(p, before)
      BY <1>4, EndOfNode
    <2>2. PICK outcome \in {"completed", "failed"} :
            [n \in Nodes |-> NodeState(n)]' = [[n \in Nodes |-> NodeState(n)] EXCEPT ![p] = outcome]
      BY <2>1, EndSetsState
    <2>3. Phase' = Phase /\ p \notin Finished
      BY <2>1, EndSetsState
    <2>4. CASE Answer(p)
      <3>1. inflight[p] > 0
        BY <2>4 DEF Answer, TypeOK
      <3>2. NodeState(p) = "running"
        BY <2>3, <3>1 DEF NodeState, Finished
      <3>3. Abstract!Finish(p)
        BY <2>2, <2>3, <3>2 DEF Abstract!Finish
      <3> QED
        BY <3>3 DEF Abstract!Next
    <2>5. CASE AtOnce(p)
      <3>1. created[p] > 0 /\ Runnable(p)
        BY <2>5 DEF AtOnce
      <3>2. Abstract!Start(p)
        BY <2>2, <2>3, <3>1, StartRefines
      <3> QED
        BY <3>2 DEF Abstract!Next
    <2> QED
      BY <1>4, <2>4, <2>5 DEF Ends, NodeRaises, NodeSucceeds, NodeFails, MockNode, RefuseInput
  <1>7. CASE Return /\ cancelled' /\ main = "waiting"
    <2>1. Phase = "running" /\ Phase' = "cancelled"
      BY <1>7 DEF Return, Phase
    <2> QED
      BY <1>1, <1>7, <2>1 DEF Return, Abstract!Next, Abstract!GiveUp
  <1>8. CASE Complete /\ ~cancelled
    <2>1. Phase = "running" /\ Phase' = "success"
      BY <1>8 DEF Complete, Return, Phase
    <2>2. completed \union failed = Nodes
      BY <1>8, CountsCover DEF Complete, OneToken
    <2>3. FailFast => failed = {}
      BY <1>8 DEF FailureCancels
    <2>4. ASSUME NEW n \in Nodes
          PROVE  NodeState(n) = "completed" \/ (~FailFast /\ NodeState(n) = "failed")
      <3>1. CASE n \in failed
        BY <2>3, <3>1 DEF NodeState, Finished
      <3>2. CASE n \in completed /\ n \notin failed
        BY <3>2 DEF NodeState, Finished
      <3> QED
        BY <2>2, <3>1, <3>2
    <2>5. UNCHANGED <<inflight, completed, failed>>
      BY <1>8 DEF Complete, Return
    <2> QED
      BY <1>1, <2>1, <2>4, <2>5 DEF Abstract!Next, Abstract!Succeed
  <1>9. CASE UNCHANGED <<main, inflight, completed, failed, result>>
    <2>1. Phase' = Phase
      BY <1>9 DEF Phase
    <2> QED
      BY <1>1, <1>9, <2>1 DEF Abstract!dagVars
  <1> QED
    BY <1>2, <1>3, <1>4, <1>7, <1>8, <1>9
    DEF Next, Ends, vars, CallPlugin, DropTask, Cancel, Complete, Timeout, Idle

(* An execution of a DAG that never joins is a DagRun, under either        *)
(* failure strategy: a node starts once, after its dependency (and never   *)
(* after a failure, when fail-fast), and only a run all of whose nodes     *)
(* completed, or under "continue" failed, is reported as a success.        *)
THEOREM SchedulerImplementsDagRun ==
  ASSUME JoinFree
  PROVE  Spec => ImplementsDagRun
  <1>1. Init => Abstract!Init
    BY DEF Init, Abstract!Init, Phase, NodeState, Finished
  <1>2. TypeOK /\ Fresh /\ FailureCancels /\ OneToken /\ Returned /\ [Next]_vars
          => [Abstract!Next]_(Abstract!dagVars)
    BY StepRefines
  <1> QED
    BY <1>1, <1>2, TypeCorrect, FreshUntilExecuted, FailureAlwaysCancels, OneTokenHolds,
       ReturnedHolds, PTL DEF Spec, ImplementsDagRun, Abstract!Spec
=============================================================================
