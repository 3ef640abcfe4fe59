---------------------------- MODULE MCAITaskQueue ----------------------------
(* Two or three tasks; triage tasks are submitted with a higher priority.  *)
EXTENDS AITaskQueue, TLC

CONSTANTS triage, report, chat, w1, w2, w3

OneTask == {report}
TwoTasks == {triage, report}
ThreeTasks == {triage, report, chat}
Priorities == [t \in Tasks |-> IF t = triage THEN 9 ELSE 0]
Exposure == {report}
OneWorker == {w1}
TwoWorkers == {w1, w2}
ThreeWorkers == {w1, w2, w3}

WorkerSymmetry == Permutations(Workers)
Symmetry == Permutations(Workers) \union Permutations({report, chat})
=============================================================================
