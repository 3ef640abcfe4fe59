----------------------------- MODULE MCDagForest ----------------------------
(* Playbooks that branch but never join: the decision playbook of the DAG  *)
(* guide, start -> check -> (lookup -> investigate | cleanup), and two     *)
(* trees with conditions of three kinds.                                   *)
EXTENDS DagScheduler

Arrow(s, t, c) == [source |-> s, target |-> t, condition |-> c]

ForestNodes == {"start", "check", "lookup", "investigate", "cleanup"}
DecisionEdges == {Arrow("start", "check", "none"),
                  Arrow("check", "lookup", "result == true"),
                  Arrow("check", "cleanup", "result == false"),
                  Arrow("lookup", "investigate", "none")}
MixedEdges == {Arrow("check", "lookup", "status == success"),
               Arrow("check", "cleanup", "field >= number"),
               Arrow("start", "investigate", "none")}
MockedNodes == {"start"}
=============================================================================
