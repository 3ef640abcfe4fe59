------------------------------ MODULE WorkQueue ------------------------------
(***************************************************************************)
(* What a queue of jobs promises whoever submits one: it is attempted at   *)
(* most 1 + MaxRetries times, one attempt after the other, and once it is  *)
(* over, whatever ended it, it is never attempted again.  Jobs can be      *)
(* dropped; a crash ends every attempt under way and may lose other jobs.  *)
(* Jobs that are not being attempted can be shared with other queues, and  *)
(* nothing is promised for them from then on.                              *)
(***************************************************************************)
EXTENDS Naturals

CONSTANTS
  Tasks,       \* the jobs
  MaxRetries   \* attempts a job may have after its first

VARIABLES
  stage,      \* per job: "new", "ready", "attempt", "over" or "shared"
  attempts    \* per job, attempts begun, unless it is shared

queueVars == <<stage, attempts>>

Init ==
  /\ stage = [t \in Tasks |-> "new"]
  /\ attempts = [t \in Tasks |-> 0]

Move(t, from, to) ==
  /\ stage[t] = from
  /\ stage' = [stage EXCEPT ![t] = to]

Accept(t) == Move(t, "new", "ready") /\ UNCHANGED attempts

Begin(t) ==
  /\ Move(t, "ready", "attempt")
  /\ attempts[t] <= MaxRetries
  /\ attempts' = [attempts EXCEPT ![t] = @ + 1]

Retry(t) ==
  /\ Move(t, "attempt", "ready")
  /\ attempts[t] <= MaxRetries
  /\ UNCHANGED attempts

Finish(t) == Move(t, "attempt", "over") /\ UNCHANGED attempts
Drop(t) == Move(t, "ready", "over") /\ UNCHANGED attempts

Crash ==
  /\ \E lost \in SUBSET {t \in Tasks : stage[t] = "ready"} :
       stage' = [t \in Tasks |->
                  IF stage[t] = "attempt" \/ t \in lost THEN "over" ELSE stage[t]]
  /\ UNCHANGED attempts

Share ==
  \E S \in SUBSET {t \in Tasks : stage[t] \in {"new", "ready"}} :
    /\ stage' = [t \in Tasks |-> IF t \in S THEN "shared" ELSE stage[t]]
    /\ attempts' = [t \in Tasks |-> IF t \in S THEN 0 ELSE attempts[t]]

Next ==
  \/ \E t \in Tasks : Accept(t) \/ Begin(t) \/ Retry(t) \/ Finish(t) \/ Drop(t)
  \/ Crash
  \/ Share

Spec == Init /\ [][Next]_queueVars
=============================================================================
