---------------------------- MODULE MCDagDiamond ----------------------------
(* The "Parallel Threat Analysis" playbook of the DAG guide: extract feeds *)
(* two lookups that join in score.                                         *)
EXTENDS DagScheduler

Arrow(s, t) == [source |-> s, target |-> t, condition |-> "none"]

GuideNodes == {"extract", "lookup1", "lookup2", "score"}
GuideEdges == {Arrow("extract", "lookup1"), Arrow("extract", "lookup2"),
               Arrow("lookup1", "score"), Arrow("lookup2", "score")}
=============================================================================
