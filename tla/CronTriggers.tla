----------------------------- MODULE CronTriggers -----------------------------
(***************************************************************************)
(* The cron schedulers of the API replicas                                 *)
(* (services/cron_scheduler_service.py) and the runs they start            *)
(* (services/trigger_service.py, execute_cron_trigger).                    *)
(*                                                                         *)
(* Every 30 s a replica lists the triggers and judges each by the          *)
(* last_triggered_at of that listing, which the session never reads again; *)
(* it runs those that are due one after the other, each under a lock in    *)
(* Redis that is never released and expires after 55 s.  The row's         *)
(* last_triggered_at is written when the run has ended, in its             *)
(* transaction.                                                            *)
(*                                                                         *)
(* All triggers have one schedule, whose times are numbered; the time      *)
(* between two of them is at least 5 minutes.  A run may take any time.    *)
(* The first slot is in the past.                                          *)
(***************************************************************************)
EXTENDS TriggerTable, Naturals

CONSTANTS
  Replicas,     \* processes with a cron scheduler
  NoTrigger,    \* no trigger
  RanBefore,    \* triggers that have run for the first slot, the others never
  MaxSlot,      \* bound: times of the schedule that pass
  MaxOutages    \* bound: failures of Redis or the database, crashes

ASSUME CronAssumption ==
  /\ NoTrigger \notin Triggers
  /\ MaxSlot \in Nat \ {0}
  /\ MaxOutages \in Nat

VARIABLES
  slot,         \* the latest time of the schedule
  near,         \* whether it was less than 60 s ago
  last,         \* per trigger, the slot last_triggered_at is in; 0 for NULL
  locked,       \* triggers whose lock is set in Redis
  due,          \* per replica, triggers its pass found due and has not come to
  at,           \* per replica, the slot at which it listed them
  current,      \* per replica, the trigger it executes ...
  running,      \* ... and whether its playbook has started
  broken,       \* per replica, whether the session of its pass is unusable
  pending,      \* per replica, _pending_triggers
  stuck,        \* per replica, those of them nothing will remove
  attempted,    \* pairs of a trigger and a slot it was run for (history)
  repeated,     \* those it was run for more than once (history)
  excused,      \* those for which that may happen (history)
  outages       \* failures so far

cronVars == <<slot, near, last, locked, due, at, current, running, broken,
              pending, stuck, attempted, repeated, excused, outages>>
clockVars == <<slot, near>>
passVars == <<due, at, current, running, broken, pending, stuck>>
cronHistory == <<attempted, repeated, excused>>

CronInit ==
  /\ slot = 1 /\ near = FALSE
  /\ last = [t \in Triggers |-> IF t \in RanBefore THEN 1 ELSE 0]
  /\ locked = {}
  /\ due = [r \in Replicas |-> {}]
  /\ at = [r \in Replicas |-> 1]
  /\ current = [r \in Replicas |-> NoTrigger]
  /\ running = [r \in Replicas |-> FALSE]
  /\ broken = [r \in Replicas |-> FALSE]
  /\ pending = [r \in Replicas |-> {}] /\ stuck = [r \in Replicas |-> {}]
  /\ attempted = {} /\ repeated = {} /\ excused = {}
  /\ outages = 0

-----------------------------------------------------------------------------

Idle(r) == current[r] = NoTrigger

(* The next time of the schedule after last_triggered_at has passed, or    *)
(* the trigger has never run and the schedule fired less than 60 s ago.    *)
IsDue(t) == IF last[t] = 0 THEN near ELSE last[t] < slot

(* What r executes, or goes through in vain, counts for the slot at which  *)
(* it listed the trigger.                                                  *)
Job(r, t) == <<t, at[r]>>

Outage == outages < MaxOutages /\ outages' = outages + 1

(* The time of the schedule comes, and 60 s pass after it.                 *)
Tick ==
  /\ slot < MaxSlot
  /\ slot' = slot + 1
  /\ near' = TRUE
  /\ UNCHANGED <<last, locked, passVars, cronHistory, outages>>

MinutePasses ==
  /\ near
  /\ near' = FALSE
  /\ UNCHANGED <<slot, last, locked, passVars, cronHistory, outages>>

-----------------------------------------------------------------------------
(* A pass: _check_and_execute_triggers with a session of its own.  One     *)
(* that finds nothing due changes nothing.                                 *)

ListTriggers(r) ==
  /\ Idle(r) /\ due[r] = {}
  /\ \E t \in Triggers : type[t] = "cron" /\ IsDue(t)
  /\ due' = [due EXCEPT ![r] = {t \in Triggers : type[t] = "cron" /\ IsDue(t)}]
  /\ at' = [at EXCEPT ![r] = slot]
  /\ broken' = [broken EXCEPT ![r] = FALSE]
  /\ UNCHANGED <<clockVars, last, locked, current, running, pending, stuck, cronHistory, outages>>

(* The trigger is skipped: this replica ran it within the last 60 s, or a  *)
(* lock for it is set.                                                     *)
Skip(r, t) ==
  /\ Idle(r) /\ t \in due[r]
  /\ t \in pending[r] \/ t \in locked
  /\ due' = [due EXCEPT ![r] = @ \ {t}]
  /\ UNCHANGED <<clockVars, last, locked, at, current, running, broken, pending, stuck,
                 cronHistory, outages>>

(* Mutant: SET EX 55 without NX.                                           *)
AcquireAlways(r, t) ==
  /\ locked' = locked \union {t}
  /\ UNCHANGED <<excused, outages>>

(* SET NX EX 55 succeeds, or fails to reach Redis and counts as success.   *)
AcquireLock(r, t) ==
  \/ /\ t \notin locked
     /\ locked' = locked \union {t}
     /\ UNCHANGED <<excused, outages>>
  \/ /\ Outage
     /\ excused' = excused \union {Job(r, t)}
     /\ UNCHANGED locked

(* execute_cron_trigger begins.  Its own test of last_triggered_at reads   *)
(* the object of the listing and never disagrees with it.                  *)
Take(r, t) ==
  /\ Idle(r) /\ t \in due[r]
  /\ t \notin pending[r]
  /\ ~broken[r]
  /\ AcquireLock(r, t)
  /\ due' = [due EXCEPT ![r] = @ \ {t}]
  /\ pending' = [pending EXCEPT ![r] = @ \union {t}]
  /\ current' = [current EXCEPT ![r] = t]
  /\ UNCHANGED <<clockVars, last, at, running, broken, stuck, attempted, repeated>>

(* In a session an earlier trigger of the pass has broken it raises at     *)
(* once; the lock stays.                                                   *)
TakeInVain(r, t) ==
  /\ Idle(r) /\ t \in due[r]
  /\ t \notin pending[r]
  /\ broken[r]
  /\ AcquireLock(r, t)
  /\ due' = [due EXCEPT ![r] = @ \ {t}]
  /\ UNCHANGED <<clockVars, last, at, current, running, broken, pending, stuck, attempted,
                 repeated>>

Leave(r) ==
  /\ current' = [current EXCEPT ![r] = NoTrigger]
  /\ running' = [running EXCEPT ![r] = FALSE]

(* The definition is gone or does not compile: None, and nothing written.  *)
NoPlaybook(r) ==
  /\ ~Idle(r) /\ ~running[r]
  /\ Leave(r)
  /\ UNCHANGED <<clockVars, last, locked, due, at, broken, pending, stuck, cronHistory, outages>>

(* The run row is created and the playbook starts.                         *)
StartRun(r) ==
  /\ ~Idle(r) /\ ~running[r]
  /\ running' = [running EXCEPT ![r] = TRUE]
  /\ attempted' = attempted \union {Job(r, current[r])}
  /\ repeated' = repeated \union (attempted \intersect {Job(r, current[r])})
  /\ UNCHANGED <<clockVars, last, locked, due, at, current, broken, pending, stuck,
                 excused, outages>>

(* Mutant: last_triggered_at is not written.                               *)
FinishUnstamped(r) ==
  /\ running[r]
  /\ Leave(r)
  /\ UNCHANGED <<clockVars, last, locked, due, at, broken, pending, stuck, cronHistory, outages>>

(* The playbook has ended, with whatever status: the run and               *)
(* last_triggered_at, the time of now, are committed.                      *)
FinishRun(r) ==
  /\ running[r]
  /\ last' = [last EXCEPT ![current[r]] = slot]
  /\ Leave(r)
  /\ UNCHANGED <<clockVars, locked, due, at, broken, pending, stuck, cronHistory, outages>>

(* It raised: the failed run is committed and last_triggered_at is not     *)
(* written.                                                                *)
RunRaises(r) ==
  /\ running[r]
  /\ excused' = excused \union {Job(r, current[r])}
  /\ Leave(r)
  /\ UNCHANGED <<clockVars, last, locked, due, at, broken, pending, stuck, attempted,
                 repeated, outages>>

(* The current trigger is given up.  If its playbook had started,          *)
(* last_triggered_at stays unwritten for it.                               *)
Abandon(r) ==
  /\ Outage
  /\ excused' = IF running[r] THEN excused \union {Job(r, current[r])} ELSE excused
  /\ Leave(r)

(* The database fails: the commit, or a query, of the error's handler      *)
(* raises too.                                                             *)
SessionBreaks(r) ==
  /\ ~Idle(r)
  /\ Abandon(r)
  /\ broken' = [broken EXCEPT ![r] = TRUE]
  /\ pending' = [pending EXCEPT ![r] = @ \ {current[r]}]
  /\ UNCHANGED <<clockVars, last, locked, due, at, stuck, attempted, repeated>>

(* A flush fails: the rollback expires the listed rows, so the handler     *)
(* raises where it reads the trigger's id.  The pass ends, and nothing     *)
(* takes the trigger out of _pending_triggers.                             *)
PassBreaks(r) ==
  /\ ~Idle(r)
  /\ Abandon(r)
  /\ due' = [due EXCEPT ![r] = {}]
  /\ stuck' = [stuck EXCEPT ![r] = @ \union {current[r]}]
  /\ UNCHANGED <<clockVars, last, locked, at, broken, pending, attempted, repeated>>

(* The replica is stopped or dies, and starts again.                       *)
Restart(r) ==
  /\ Abandon(r)
  /\ due' = [due EXCEPT ![r] = {}]
  /\ broken' = [broken EXCEPT ![r] = FALSE]
  /\ pending' = [pending EXCEPT ![r] = {}]
  /\ stuck' = [stuck EXCEPT ![r] = {}]
  /\ UNCHANGED <<clockVars, last, locked, at, attempted, repeated>>

(* _remove_from_pending, 60 s after the run.                               *)
RemoveFromPending(r, t) ==
  /\ t \in pending[r] \ stuck[r]
  /\ current[r] # t
  /\ pending' = [pending EXCEPT ![r] = @ \ {t}]
  /\ UNCHANGED <<clockVars, last, locked, due, at, current, running, broken, stuck, cronHistory,
                 outages>>

(* The lock expires: under a run that takes longer, or before a replica    *)
(* with an older listing comes to a trigger that was run in the meantime.  *)
LockExpires(t) ==
  /\ t \in locked
  /\ locked' = locked \ {t}
  /\ excused' = excused \union
       {Job(r, t) : r \in {q \in Replicas : \/ current[q] = t
                                            \/ t \in due[q] /\ Job(q, t) \in attempted}}
  /\ UNCHANGED <<clockVars, last, passVars, attempted, repeated, outages>>

ReplicaNext(r) ==
  \/ ListTriggers(r)
  \/ \E t \in Triggers : Skip(r, t) \/ Take(r, t) \/ TakeInVain(r, t) \/ RemoveFromPending(r, t)
  \/ NoPlaybook(r) \/ StartRun(r) \/ FinishRun(r) \/ RunRaises(r)
  \/ SessionBreaks(r) \/ PassBreaks(r) \/ Restart(r)

CronNext ==
  /\ \/ Tick \/ MinutePasses
     \/ \E r \in Replicas : ReplicaNext(r)
     \/ \E t \in Triggers : LockExpires(t)
  /\ UNCHANGED type

-----------------------------------------------------------------------------

(* Types of the variables.                                                 *)
CronTypeOK ==
  /\ slot \in 1..MaxSlot
  /\ near \in BOOLEAN
  /\ last \in [Triggers -> 0..MaxSlot]
  /\ locked \in SUBSET Triggers
  /\ due \in [Replicas -> SUBSET Triggers]
  /\ at \in [Replicas -> 1..MaxSlot]
  /\ current \in [Replicas -> Triggers \union {NoTrigger}]
  /\ running \in [Replicas -> BOOLEAN]
  /\ broken \in [Replicas -> BOOLEAN]
  /\ pending \in [Replicas -> SUBSET Triggers] /\ stuck \in [Replicas -> SUBSET Triggers]
  /\ attempted \in SUBSET (Triggers \X (1..MaxSlot))
  /\ repeated \in SUBSET (Triggers \X (1..MaxSlot))
  /\ excused \in SUBSET (Triggers \X (1..MaxSlot))
  /\ outages \in 0..MaxOutages

(* A trigger runs once for a time of its schedule, across replicas, unless *)
(* its lock expired under the run or before a replica with an old listing  *)
(* came to it, Redis could not be reached, or the run did not commit its   *)
(* end.                                                                    *)
CronOnce == repeated \subseteq excused

(* Two replicas run one trigger at a time only if the lock of one of them  *)
(* has expired or was never set.                                           *)
RunsApart ==
  \A r, q \in Replicas :
    r # q /\ current[r] = current[q] /\ ~Idle(r) =>
      Job(r, current[r]) \in excused \/ Job(q, current[q]) \in excused
=============================================================================
