-------------------------- MODULE MCPlaybookTriggers --------------------------
(* A deployment with webhook triggers only or with cron triggers only: the *)
(* two kinds share no state but the table.                                 *)
EXTENDS PlaybookTriggers, TLC

CONSTANTS t1, t2, d1, d2, d3, r1, r2

UniformDeployments == {[t \in Triggers |-> k] : k \in {"webhook", "cron"}}

(* One key, used with two payloads and for two triggers, and a request     *)
(* without a key.                                                          *)
SomeTraffic ==
  {[trigger |-> t1, key |-> "key", payload |-> "p1"],
   [trigger |-> t1, key |-> NoKey, payload |-> "p1"],
   [trigger |-> t1, key |-> "key", payload |-> "p2"],
   [trigger |-> t2, key |-> "key", payload |-> "p1"]}

PermuteProcesses == Permutations(Deliveries) \union Permutations(Replicas)
=============================================================================
