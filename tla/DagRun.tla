------------------------------- MODULE DagRun -------------------------------
(***************************************************************************)
(* What a playbook run promises its author, with no tasks, no flags and no *)
(* polling: a node starts once, after all its dependencies have completed; *)
(* a run succeeds only when every node has completed or, under the         *)
(* "continue" strategy, failed; a fail-fast run starts nothing after a     *)
(* failure.  A run may be given up at any time.                            *)
(***************************************************************************)
EXTENDS Naturals

CONSTANTS
  Nodes,     \* the nodes of the playbook
  Deps,      \* Deps[n]: the nodes n depends on
  FailFast   \* FALSE: the run goes on after a failed node

VARIABLES
  phase,   \* "pending", "running", "success" or "cancelled"
  state    \* per node: "idle", "running", "completed" or "failed"

dagVars == <<phase, state>>

Init ==
  /\ phase = "pending"
  /\ state = [n \in Nodes |-> "idle"]

Begin ==
  /\ phase = "pending"
  /\ phase' = "running"
  /\ UNCHANGED state

(* A node that needs no plugin is finished as soon as it starts.           *)
Start(n) ==
  /\ phase = "running"
  /\ state[n] = "idle"
  /\ \A p \in Deps[n] : state[p] = "completed"
  /\ FailFast => \A m \in Nodes : state[m] # "failed"
  /\ \E outcome \in {"running", "completed", "failed"} : state' = [state EXCEPT ![n] = outcome]
  /\ UNCHANGED phase

(* A plugin call cannot be recalled: it may answer after the run was given up. *)
Finish(n) ==
  /\ state[n] = "running"
  /\ \E outcome \in {"completed", "failed"} : state' = [state EXCEPT ![n] = outcome]
  /\ UNCHANGED phase

Succeed ==
  /\ phase = "running"
  /\ \A n \in Nodes : state[n] = "completed" \/ (~FailFast /\ state[n] = "failed")
  /\ phase' = "success"
  /\ UNCHANGED state

GiveUp ==
  /\ phase = "running"
  /\ phase' = "cancelled"
  /\ UNCHANGED state

Next ==
  \/ Begin
  \/ \E n \in Nodes : Start(n) \/ Finish(n)
  \/ Succeed
  \/ GiveUp

Spec == Init /\ [][Next]_dagVars
=============================================================================
