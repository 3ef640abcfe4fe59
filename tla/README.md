# Formal models of SOC Copilot

TLA+ models of the concurrent core of SOC Copilot, the TLC configurations that
check them on small instances, and TLAPS proofs of their main properties for
every value of the constants.  Paths below are relative to the repository's
`src/`; `PROJECT.json` maps every definition to the lines it translates.

Run from this directory:

    tlc -workers 2 -config MCDagDiamond.cfg MCDagDiamond
    tlapm DagSchedulerProofs.tla

## 1. The system and its parts

SOC Copilot is a FastAPI backend (one process, one asyncio event loop, a SQL
database, optionally Redis) that ingests security alerts, triages them with
language models, and runs response playbooks.

| Part | Code | State it keeps | Operations | What makes it correct |
|---|---|---|---|---|
| DAG scheduler | `backend/services/playbook/playbook_dag_scheduler.py` | per run: finished and failed nodes, cancelled flag, outputs; registry of running schedulers | execute, one asyncio task per triggered edge, cancel, wait loop with timeout | a node after its dependencies and once; after a cancel only what was starting; no node lost; a success is total; the run ends |
| DAG compiler | `.../playbook_dag_compiler.py` | none | validate, find a cycle, build adjacency | accepts exactly the acyclic graphs; roots are the nodes nothing enters |
| Run rows | `.../dag_execution_service.py`, `repositories/playbook_run_repository.py` | `playbook_runs` rows | execute, cancel_run, status updates in the caller's session | final status says what happened and is committed; capacity is respected |
| Run queue | `services/run_queue_manager.py` | queued rows, idempotency cache | recover, capacity check, queue, promote | every queued run is executed once, never more than the cap |
| AI task queue | `services/ai_task_service.py`, `models/ai_task.py` | `ai_tasks` rows, in-memory priority queue, registry of workers | submit, poll, cancel, process, retry, recover | nothing forgotten, one attempt at a time, bounded attempts, results kept, cap respected |
| Triggers | `services/trigger_service.py`, `repositories/trigger_repository.py`, `services/cron_scheduler_service.py` | triggers, invocations | webhook, cron, idempotency, cleanup | equal webhooks run a playbook once |
| Level engine | `playbook_engine/dag/` | per run: levels, node results, state machine | group by level, run with timeout and retry | levels respect the edges |
| Linear engine, resume, approvals | `playbook_engine/v6_linear/`, `routers/playbook/approvals.py`, the `human_approval` plugin | step cursor, approval rows | run, pause, approve, reject, resume | every step once; one decision per request |
| Message broker and worker | `services/message_broker/`, `workers/alert_worker.py` | streams, delayed set, dead letters | publish, consume, ack, nack, claim, move delayed, replay | at least once, bounded redelivery, nothing lost |
| Alert pipeline | `services/lifecycle/alert_pipeline_service.py`, the backfill in `services/ai_task_service.py` | watermark, `raw_data` of alerts | poll, submit AI task, mark, correlate; backfill | no alert left behind, each once per pipeline, rows that say what happened |
| Circuit breaker | `utils/circuit_breaker.py` | state, counters | call, success, failure | one probe when half open |
| The rest | alerting, cases, correlation, auth, WebSockets, providers, integrations, front end | rows and caches | CRUD, parsing, fan-out | no protocol between actors |

How they interact: a trigger, an API call or the alert pipeline starts a run;
the execution service compiles the graph and awaits `DAGScheduler.execute()` in
the request's task; the cancel API reaches the same scheduler object through
the registry.  The alert pipeline and the API submit AI tasks, whose rows are
polled by clients and whose results are written back into the alert, the same
column the pipeline writes.  Several replicas of the API run (`k8s/03-backend.yaml`:
two, replaced one after the other), which share the database and Redis: the cron
schedulers lock triggers in Redis, and the workers consume its streams; the AI
task queues and the alert pipelines of the replicas work on the same rows without
a lock, and every start of a replica recovers the AI tasks of all.  Within a
process everything shares the event loop, so a coroutine is interrupted only
where it awaits something that really suspends, and the database, where other
sessions see only what was committed.

What is hard here, and hard to test: the order in which the event loop resumes
tasks; flags and rows read before an await and used after it; two writers of
one row, in one process or in two; callbacks that run after their subject was
replaced; process restarts, cancellations and exceptions between a commit and the
in-memory step that belongs to it; loops that wait for a count.  `PROJECT.json` lists these hazards by line, with the properties that
would catch them, or the reason why none does.

## 2. The modules

| Module | What it is |
|---|---|
| `DagRun` | abstract specification: what a run promises its author under either failure strategy, without tasks, flags or polling |
| `DagScheduler` | `DAGScheduler`, one execution of any compiled DAG; refinement mapping to `DagRun` |
| `MCDagDiamond`, `MCDagForest` | instances: a playbook that joins, playbooks that only branch |
| `DagSchedulerProofs` | theorems about `DagScheduler` |
| `WorkQueue` | abstract specification: attempts of a job follow one another, within the retries, and a job that is over stays over, unless it is shared with another queue |
| `AITaskQueue` | the AI task queue of one process among replicas: rows, queue, loop, workers, API calls, exceptions, crash and recovery; refinement mapping to `WorkQueue` |
| `MCAITaskQueue` | instances with two or three tasks |
| `AITaskQueueProofs` | theorems about `AITaskQueue` |
| `AlertPipeline` | the alert poller, those of other replicas and the triage backfill over the documents all write |
| `MCAlertPipeline`, `AlertPipelineProofs` | instance with three alerts; theorems |
| `MessageBroker` | the Redis Streams broker, its consumers and its operators |
| `MCMessageBroker`, `MessageBrokerProofs` | instance; theorems |
| `TriggerTable` | the triggers, each for webhooks or for a schedule |
| `IdempotencyKeys` | abstract specification: a key belongs to one delivery at a time, and for good to the first that comes to an end |
| `WebhookTriggers` | webhook deliveries and the invocation rows that make them idempotent; refinement mapping to `IdempotencyKeys` |
| `CronTriggers` | the cron schedulers of several replicas, their lock and their runs |
| `PlaybookTriggers` | the two over one table of triggers |
| `MCPlaybookTriggers`, `PlaybookTriggersProofs` | instance; theorems |

Definitions with a comment that starts with "Mutant" are deliberate errors
(a dropped guard, an off-by-one, a missing callback).  No specification uses
them; they stand next to what they distort, and each property is shown to fail
when one of them replaces the original.

### DagScheduler and the code

* `main` is where `execute()` stands: not called, registered in
  `_running_schedulers` and polling, or returned.
* `created[n]` counts tasks made by `create_task(self._execute_node(n))` that
  have not begun; `inflight[n]` counts those suspended in
  `_execute_node_plugin`, and `loading[n]` those of them that await
  `_load_secrets`.  A task passes the guards without a suspension (`Enter`).  It
  then calls its plugin if the secrets are cached (`loaded`); otherwise it awaits
  the database first (`StartNode`), and calls the plugin after that without a
  second look at the cancelled flag (`CallPlugin`, `:246-262`).  Every task that
  comes before the first load is done loads the secrets itself.
* After the plugin has answered there is no suspension either (`cancel` and
  `_start_dependent_nodes` are coroutines that never suspend), so `NodeSucceeds`,
  `NodeFails` and `NodeRaises` contain the bookkeeping (`Accept`, `Reject`), the
  fail-fast cancel and the creation of the dependents' tasks.
* A node whose type has no plugin (`Mocked`) is completed where it stands
  (`MockNode`), and one whose input is refused fails there (`RefuseInput`).
* `completed`, `failed`, `cancelled` are the attributes of those names;
  `entered` and `invoked` (history: tasks past the guards, plugin calls) and
  `result` (what the caller sees) are added.
* A plugin's output is reduced to what the scheduler looks at: its status, its
  `result` and whether the compared field satisfies the comparison.  Conditions
  the evaluator does not recognise count as true in the code and are "always".
  Edges form a set: an edge written twice would only add a second task of the
  same node, which a join already does.
* `Execute` is atomic: `_execute_from_roots` does not suspend.
* `Timeout` needs `HangingPlugins` or a run with nothing left to resume: with
  `HangingPlugins` FALSE every plugin answers within the hour.
* The asyncio cancellation of the task that awaits `execute()` is left out.

### AITaskQueue and the code

* The module follows one process; what the other replicas do to its rows is its
  environment.  They serve polls and cancellations (`afar`: of such a cancellation
  nobody here is stopped), have tasks of their own (`SubmitElsewhere`), and when
  one starts, `recover_orphaned_tasks` there queues every pending row it reads
  (`ReplicaStarts`) and fails every processing one (`FailOrphan`), those that are
  live here included.  `elsewhere` holds the tasks another replica has had in its
  queue; its workers may write anything the code writes (`OtherWrites`).
* `status` and `retries` are the columns.  A transaction that writes whatever
  it reads is one step (`MarkProcessing`, `ModelAnswers`, `TimeOutTask`,
  `FailTask`, `Stop`); the poll and the cancel, whose write depends on what they
  read, are two or three.  A commit and what its coroutine does when it is resumed
  are separate (`Submit`/`Enqueue`, `MarkProcessing`/`CallModel`,
  `ModelAnswers`/`EndAttempt`, `Retry`/`Requeue`, `CancelWrites`/`CancelStops`).
* A database call may raise in any of them (`WorkerRaises`, `RequestRaises`),
  before its write or after a commit that took effect.  Only the transaction of
  the result is inside the `try`; the first transaction, `_handle_task_error` and
  `_maybe_retry_task` are not, and what raises there ends the attempt.  `raised`
  holds the tasks it happened to since the process started.
* An attempt is one call of `generate_structured`, which asks the provider up to
  three times (`llm_retry.py:525`) and turns the provider's exceptions into a
  degraded answer: what `ModelFails` stands for are mostly errors around it.
* `waiting` holds the ids in the priority queue as counts; among equal
  priorities the order is left open, which includes the code's FIFO.
* `held` is the id the loop has taken while it sleeps for a slot: the code takes
  before it checks, so a later, more urgent task cannot overtake it.
* A worker is the asyncio task of one attempt; `Workers` bounds how many are
  alive at once (one more than the cap, so the cap can be exceeded).
* `Leave` is the done callback.  It removes the entry of the task id, whichever
  worker is registered there.
* `CancelStops` follows `Task.cancel()`: inside the `try`, that is in the model
  call and also after the result was committed, the handler for `CancelledError`
  writes the row; anywhere else the coroutine is unwound.
* `Crash` stands for every end of the process; a graceful stop only stops the
  loop first.  Rows survive, and so do the requests other replicas serve;
  everything else is lost.  `Restart` is
  `recover_orphaned_tasks`, which startup awaits before anything else here can
  submit (`main.py:257`); it takes the rows of other replicas, too.
* The alert backfill writes the alert and is part of `AlertPipeline`.
* `Stage` maps a task to `WorkQueue`: in an attempt while a worker is in the
  model call or handles its outcome, ready while its id or its pending row can
  still bring about an attempt, over when nothing can, and shared once another
  replica had it in its queue.  It reads the token and not
  the status alone, because a row may say "failed" while its task is queued.
* Not modelled: the poll and cancel of rows that do not exist; the wall clock
  (a processing row may be overdue at any time).

### AlertPipeline and the code

* A document (`raw_data`) is the set of the keys written into it; `raw[a]` is
  the committed one, `seen[a]` the copy in the pipeline's session, `fills[a]`
  the copies backfills have read.  Whoever commits replaces the whole document.
* `pc` is where the pipeline's coroutine is between two commits.  Skipping an
  alert that is marked takes no await, so `Unprocessed` is decided with the
  SELECT.  `SubmitTask` is the commit of the AI task, in a session of its own,
  `CommitAlert` and `CommitTriaged` the commit of the mark.
* Every replica runs a pipeline over the same rows.  The module follows one; a
  visit (`Visits`) is what another one does with an alert: it has it in a batch
  (`VisitLoads`), submits a task (`VisitSubmits`) and commits its copy
  (`VisitCommits`), or correlates it (`VisitPends`, `VisitGroups`, `VisitMarks`).
  Nothing keeps the two apart.  `contested` records alerts that two pipelines had
  in a batch, unmarked, at the same time.
* `Raising` are alerts whose enrichment raises at every attempt.
* An exception does what the SQLAlchemy session makes of it (`AttemptFails`,
  `CommitFails`): the rollback in the loop expires the loaded alerts if a
  transaction is open, and the next attribute access, lazy in an async session,
  ends the cycle; after a commit there is nothing to roll back and the loop goes
  on with the next alert.  `dropped` records the alert that was skipped.
* `MarkCorrelated` follows the comparison SQLAlchemy makes before an UPDATE: the
  nested dict was changed in place, so an alert that had one is not written.
* `Insert` commits up to `CommitLag` ticks after it took `created_at`.  That this
  is within the overlap is what the comment on the watermark assumes, and is
  stated as `LagAssumption`.
* Left out: which rules make incidents of which alerts; deletions and edits of
  alerts; instances longer than the hour of the look-back and the correlation
  window, or with more than 500 alerts in it.

### MessageBroker and the code

* The streams of the four priorities are one set of `unread` entries: consumption
  goes by priority, so any order is possible.  `pending` is the group's list of
  delivered entries, `stored` and `scheduled` are `events:delayed:storage` and the
  sorted set, `dead` is the stream of dead letters.
* Each step is one Redis command.  `nack` is `NackAcks`, then `NackBuries` or
  `NackStores` and `NackSchedules`; moving a due entry is `MoveReads`,
  `MovePublishes`, `MoveUnschedules`, `MoveDeletes`; a replay is `ReplayTakes`,
  `ReplayPublishes`, `ReplayDeletes`.  A fault may fall between any two.
* An entry may be idle for long enough at any time, so `Claim` may take one from
  a slow worker.  An alert worker leaves a failed message (`Leave`); a consumer
  written as in `example_usage.py` nacks it (`Reject`).
* Stream ids are external: `NewCopy` takes one nobody refers to.
* Nothing in the repository calls `process_delayed_messages`, and the alert
  worker never nacks: what the model lets operators and nackers do is what the
  broker offers.  No liveness is claimed for either.
* Left out: trimming at MAXLEN, undecodable entries, statistics, and a Redis
  client that repeats a command whose reply was lost, by which an entry could be
  published twice without any of the recorded disturbances.

### The triggers and the code

* A delivery is one HTTP request with a session of its own.  Its row and run are
  visible to others when it commits, at the end (`invocation`, `run`): what other
  sessions see are the `Committed` rows.  `Record` waits while an open transaction
  holds the key, as the unique index makes it, and `RecordFails` when a
  committed row has it.
* `CutOff` rolls the transaction back.  What the playbook did stays done, and
  `ran` remembers it.
* `Owner`, `Begun` and `Kept` map the rows to `IdempotencyKeys`: a key is owned by
  the deliveries with an invocation row of it and kept once such a row is
  committed.  The rows of an open transaction count, as they do for the index.
* The final status of an invocation is computed from the run's as the code does:
  everything but a success is "failed".
* A cron pass is `ListTriggers` and, trigger by trigger, `Skip`, `Take` or
  `TakeInVain`; `Take` is followed by `NoPlaybook` or `StartRun` and
  `FinishRun` or `RunRaises`, unless the database fails.  Where a commit or a query
  fails, in the error's handler too, the pass goes on with a session that is good
  for nothing (`SessionBreaks`, `TakeInVain`).  Where a flush fails the listed rows
  are expired, the handler of the loop raises when it reads the trigger's id, the
  pass ends, and the id stays in `_pending_triggers` (`PassBreaks`, `stuck`).
  `due` holds the verdicts of the
  listing: the session reads each row once and never refreshes it.
* `slot` numbers the times of the schedule.  `last[t]` is the slot in which
  `last_triggered_at` lies, written at the end of the run.  A trigger that never
  ran is due only in the 60 s after a slot (`near`).
* The lock is never released; `LockExpires` may happen at any time, under a run
  that takes longer or before a replica with an old listing comes to the trigger.
  Both are recorded in `excused`, and so are a lock that could not be asked for
  (which the code counts as acquired) and a run that did not commit its end.
* Left out: creating, editing and deleting triggers, signatures, clean-up; and
  `check_now` (`cron_scheduler_service.py:216-243`), which nothing calls and which
  would take neither the lock nor a look at the schedule.

## 3. The runs

| Run | Instance | Shows |
|---|---|---|
| `dag_diamond` | extract -> two lookups -> score (the guide's example), fail-fast, hanging plugins, cancel at any time, fairness | `NoLostDependent`, `NoStall`, `SuccessIsTotal`, `CallsPerEdge`, `OnlyFirstCallsLate`, `Terminates` |
| `dag_forest` | two trees, three kinds of conditional edges, a node without a plugin, `continue` | `StallExplained`, `AtMostOnce`, `QuietSuccess`, `WaitsForAll`, and refinement of `DagRun` |
| `dag_branch_stall` | the guide's decision playbook | **violated**: `NoStall` |
| `dag_join_twice` | the diamond | **violated**: `AtMostOnce` |
| `ai_queue` | 2 tasks of different priority, one of them exposed, 2 workers, cap 1, 1 retry, 1 mishap; about 679,000 states | `NoPendingForgotten`, `NoZombie`, `OneAttempt`, `AttemptsBounded`, `CompletedIsFinal`, `FirstAttemptsCapped`, and refinement of `WorkQueue` |
| `ai_settle` | 2 tasks, one of them exposed, 1 worker, cap 1, 1 retry, 1 mishap, fairness; about 452,000 states | `Settles` |
| `ai_cancelled` | 2 tasks, cap 1 | **violated**: `CancelIsFinal` |
| `ai_over_cap` | 3 tasks, cap 2, 1 retry | **violated**: `CapRespected` |
| `alert_pipeline` | 3 alerts (1 severe, 1 that always raises), batches of 2, overlap and commit lag 1, 2 ticks, 1 fault or visit, 1 answer per alert, fairness; about 832,000 states | `NoneLeftBehind`, `RowTruthful`, `ResubmitNeedsLoss`, `BatchAdvances`, `Served` |
| `alert_recorrelates` | 3 alerts without faults, visits and answers | **violated**: `CorrelatedOnce` |
| `broker` | 1 message, 1 alert worker, 1 consumer that nacks, 2 operators, 1 retry, 2 faults, 2 entries of equal contents; about 1.4 million states | `NeverNowhere`, `OnceUndisturbed`, `RetriesBounded` |
| `triggers` | 3 deliveries of 4 kinds of request, 2 triggers, 2 replicas, 2 slots, 1 cut-off, 1 outage; about 759,000 states | `KeyOnce`, `RepeatsExplained`, `RefusalExplained`, `AnswersAgree`, `CronOnce`, `RunsApart`, and refinement of `IdempotencyKeys` |

`dag_diamond`, `ai_queue` and the last three passing runs check the type
invariant as well.

The five violated runs are disagreements between the code and what the
repository says of it:

* **A branch that is not taken stalls the run.**  The wait loop counts finished
  nodes; the target of a false condition never becomes one.  The decision
  playbook of the guide sleeps until the 3600 s timeout and ends "cancelled".
  `StallExplained` says what is left: nothing but a failure or an unmet condition,
  on an edge into the very part of the graph that is left over, stalls a run.
* **A join can run twice.**  Each dependency creates a task of the join.  If
  both finish before the first of these tasks is resumed, both pass the guards,
  which look at finished nodes and not at running ones.  (With `continue` this
  has a second consequence: the join may succeed once and fail once, is then
  counted twice, and the run can end before its last node.  `WaitsForAll` and
  `QuietSuccess` are therefore stated for DAGs without joins.)  What is left is
  `CallsPerEdge`: one execution per edge, where the dependencies were executed
  once.
* **A cancelled AI task can complete.**  The worker marks the row processing
  without looking whether it is terminal.  What is left is proved as
  `CancelInCallIsFinal`: a cancellation that stops the registered worker in its
  model call holds, as long as no other replica has the task in its queue.
* **More AI calls than the cap.**  After a retry the done callback of the first
  attempt may delete the registration of the second.  What is left of the cap is
  `FirstAttemptsCapped`: attempts of tasks that were never retried keep to it, and
  where nothing may be retried all do (`CapHoldsWithoutRetries`).
* **Alerts are correlated in every cycle.**  The mark `correlated_at` of an alert
  that was already processed is set in the dict the session compares with, and
  never reaches the database; every cycle of the next hour makes incidents of
  the same alerts again, which the module's docstring says must not happen.

Several properties of the AI task queue state what is left of a promise by
naming everything that breaks it.  A completed row (`CompletedIsFinal`) is
overwritten by a poll or a cancel that had read it before
(`ai_task_service.py:122`, `:164`), by the handler for `CancelledError` when
`Task.cancel()` arrives after the commit (`:252`), by the error handler when a
commit took effect and raised all the same, and by another replica's recovery or
workers; by nothing else.  A row stays pending without an id in the queue
(`NoPendingForgotten`), or processing without a worker (`NoZombie`), until the
next restart, only after a database call raised for it, or as another replica's
task.  Attempts are bounded (`AttemptsBounded`) as long as no other replica has
the task, too.  `OneAttempt`, within one process, has no exception.

The properties of the broker and of the triggers are of the same kind: they say
what holds by naming the only causes that break it (a nack cut off after its
acknowledgement, a claim of a held entry, an overlap of two equal deliveries, a
lock that expired under a run), and so is `ResubmitNeedsLoss` of the pipeline (a
row that lost its task id, two pipelines with an alert in a batch at once).  The causes are history variables the actions
set where the code lets them happen; the properties say that nothing else does.

Seen while modelling, and neither documented otherwise nor stated as a property:

* A node that is loading the secrets when its run is cancelled, or when a sibling
  fails, calls its plugin all the same.  `OnlyFirstCallsLate` says how far this
  goes: the plugin calls after a cancel are among the first of the run, none of
  them depends on another node with a plugin, and none follows once the secrets
  are cached.
* `recover_orphaned_tasks` takes any pending or processing row to belong "to a
  previous lifetime" (`ai_task_service.py:370-371`).  With two replicas, or one
  that is replaced while it runs, it queues and fails rows of a live process.
* Two pollers with an alert in their batches submit an AI task each.
* An alert whose enrichment always raises with a transaction open, which is the
  case for the first one of a batch that is not skipped, ends every cycle at the
  same place.  The watermark never moves, what stands behind the alert is never
  processed, and no alert is correlated.  `Served` exempts what stands behind it
  (`Obstructed`), and only that.
* After a failed flush in a cron pass the replica skips the trigger it was at
  until it is restarted, since the id stays in `_pending_triggers`.
* A failed invocation answers equal webhooks for 24 hours, so a sender's retry
  does not run the playbook again.
* After 24 hours the row of a key is no longer found, but the unique index still
  refuses the key: such a delivery ends in a 500 (`RecordFails`).  The clean-up
  endpoint (`routers/triggers.py:398-411`) would remove the row, but does not
  commit.
* A slot that passes while a run of the same trigger is under way is skipped,
  since the run's end is stamped with the later time.
* A trigger that never ran misses a slot no replica lists within 60 s.

### Bounds, and why they are enough

The DAG runs have no bound besides the graph: an acyclic graph creates finitely
many tasks, and TLC visits every interleaving.  The diamond is the smallest
graph with a join behind a fork, the forest has every kind of branch; that other
graphs behave alike is what the theorems say.  For the queue, `MaxRetries` and
`MaxMishaps` bound the history.  One retry is enough for two attempts of one task
to meet; one mishap is a crash, and with it every state a recovery can find, or a
database call that raises at any of the places where one is made, or the start of
another replica.  `Exposed` bounds the tasks that polls, cancellations, raising
calls and other replicas' workers concern to one of the two: the other one keeps
the worker and the slot busy, so both the free and the full registry occur.
Three tasks are needed only to exceed a cap of two.  `ai_cancelled` and
`ai_over_cap` are found without any mishap.  Workers are interchangeable and are
declared symmetric in the safety runs; the liveness runs use no symmetry, and
`ai_settle` has the single worker a cap of one lets run.

Three alerts and batches of two are the fewest with which an alert is cut off
by the batch size and overtaken; two ticks let the watermark move past the
overlap and an insert commit behind its neighbour.  `MaxFaults` bounds passing
exceptions, deaths and visits: one of them falls between any two commits.  The
exceptions of an alert in `Raising` are not bounded.  Visits concern the severe
alert (`Exposed`), the one whose AI task two pipelines can submit.  One message is enough for the broker, whose entries never
interact across messages; two entries of equal contents let a message be
duplicated.  Two faults combine a cut-off with a claim or an overlap.  Three
deliveries are needed to refuse the third after the first two overlapped; two
slots and two replicas let a listing grow old.  In `triggers` all triggers are
of one type: the two kinds share nothing but the table, and mixing them would
only multiply the states.  Symmetry is used for operators, deliveries and replicas.

Deadlock checking is on for the scheduler, whose `Idle` marks the end of a run.
It is off for the queue, the broker and the triggers: when everything is settled
nothing is left to do, and the environment need not act again.

### Fairness

`DagScheduler`: weak fairness of `Execute`, `Complete` and `Timeout` only.  The
event loop resumes a sleeping coroutine, and the clock moves on.  No plugin is
assumed to answer and no node task to be resumed.

`AITaskQueue`: weak fairness of every step a suspended coroutine takes by
itself, of the model call's end (`wait_for` bounds it), and of `Restart`
(`docker-compose.prod.yml:38`, `restart: always`).  None for the
requests themselves, for crashes or for other replicas.  Crashes are bounded by
`MaxMishaps`: a process that crashes for ever settles nothing.  `Settles` exempts
tasks a database call raised for, which wait for a restart nobody promises, and
tasks of other replicas.

`AlertPipeline`: weak fairness of `Pipeline`, the steps of the poller's
coroutine, which wakes every few seconds.  The exception of an alert that always
raises is one of these steps.  Nothing is assumed of inserts, of backfills, of
the clock, of other replicas, or that a passing fault happens or not; those are
bounded by `MaxFaults`.  `Served` is stated for alerts without a burst or an alert
that always raises in front of them: `BatchSize` alerts within the overlap are
selected again in every cycle, and those behind them never (`Crowded`).

`MessageBroker` and `PlaybookTriggers` state no fairness: what would have to
happen eventually depends on callers the repository does not have.

## 4. The proofs

`DagSchedulerProofs`, for every finite acyclic graph, either failure strategy
and any plugin behaviour:

| Theorem | Assumes | Concludes |
|---|---|---|
| `TypeCorrect` | | `[]TypeOK` |
| `NoDependentIsLost` | | `[]NoLostDependent` |
| `NeverStalls` | a node, fail-fast, no conditions | `[]NoStall` |
| `StallIsExplained` | | `[]StallExplained` |
| `StallsOnlyForACause` | a node | a stalled run has a failed dependency or an unmet condition |
| `EmptyPlaybookNeverCompletes` | no node | a run that ends was cancelled |
| `SuccessCompletesAll` | | `[]SuccessIsTotal` |
| `CalledAtMostOnce` | no joins | `[]AtMostOnce` |
| `CallsComeFromEdges` | | `[]CallsPerEdge` |
| `CalledOnceBeforeJoins` | | a node with no join among it and the nodes upstream is called once |
| `EveryNodeAwaited` | no joins | `[]WaitsForAll` |
| `NothingLeftRunning` | no joins | `[]QuietSuccess` |
| `LateCallsAreFirstCalls` | | `OnlyFirstCallsLate` |
| `SchedulerImplementsDagRun` | no joins | `Spec => DagRun` under the mapping |

`NoLostDependent` is inductive once the scheduler is known to be idle before
`execute()` (`Fresh`): the dependency that completes last creates a task, and a
task is dropped only when a dependency is missing.  `NeverStalls` adds that a
failure cancels a fail-fast run (`FailureCancels`) and uses acyclicity: among
the unfinished nodes one has no unfinished dependency, and that node has a
task.  `StallIsExplained` applies the same argument to any part of the graph
that is left over: were no edge into it blocked, its earliest node would have
all dependencies completed, unconditionally, and hence a task.  The at-most-once theorems rest on `OneToken`: without joins the right to
run a node is a token that is with its unfinished dependency, in one created
task, in one plugin call, or used up.  `CallsComeFromEdges` counts tokens
instead (`EveryCallIsPaid`): each task and each call of a node is paid for by an
answer that came over one of its edges, or by its being a root.  `WaitsForAll` then needs that completed
and failed nodes are disjoint, so that the sum of the two sizes counts nodes
(`CountsCover`).  `LateCallsAreFirstCalls` needs `FirstCalls`: as long as the
secrets are not cached no node with a plugin has completed, so whatever is loading
them depends on none.  The refinement takes these together, action by action.

`AITaskQueueProofs`, for any finite sets of tasks and workers, any cap, number
of retries and number of mishaps, starts of other replicas among them:

| Theorem | Concludes |
|---|---|
| `TypeCorrect` | `[]TypeOK` |
| `AttemptedOnceAtATime` | `[]OneAttempt` |
| `AttemptsAreBounded` | `[]AttemptsBounded` |
| `CompletedStays` | `CompletedIsFinal` |
| `NeverForgotten` | `[]NoPendingForgotten` |
| `NeverZombie` | `[]NoZombie` |
| `FirstAttemptsWithinCap` | `[]FirstAttemptsCapped` |
| `CapHoldsWithoutRetries` | `[]CapRespected`, assuming `MaxRetries = 0` |
| `CancelInCallIsFinal` | a cancellation in the registered model call holds |
| `QueueImplementsWorkQueue` | `Spec => WorkQueue` under the mapping |

The invariant is `TokenInv`: the chance to attempt a task is one token that is
with the submitting request, in the queue, with the loop, or with one worker.
`OneAttempt` alone is not inductive, since a second id in the queue would break
it later; the token says there is none, whatever other replicas do to the row.
`Spent` adds that a completed row has no token but with a worker that is done,
stopped, or was told that its commit failed; `Funded`, for tasks no other replica
had in its queue, that a token which has not reached the model has a retry to pay
for the attempt.  `NeverZombie` and `NeverForgotten` add `Attended` and
`Remembered`: a row of this process that is processing or pending, was not
cancelled and had no call raise for it, has its token at the matching place.
`FirstAttemptsWithinCap` maps first attempts one to one to registered tasks
(`Registered`, `Sole`), whose number the loop keeps within the cap
(`SlotsBounded`).  `QueueImplementsWorkQueue` follows each step: it concerns one
task, whose stage is read from where its token is (`StageOfWorker`,
`StageOfWaiting`, `StageOfIdle`), and `Funded` pays for the attempt.  A crash ends
every attempt and may lose ready tasks; a restart changes no stage, which is to
say that recovery queues exactly the tasks that were still waiting to be
attempted; and a replica that starts can take only tasks in the stage "ready",
because no row with a worker past its first commit is pending.  For
`CancelInCallIsFinal` the stopped worker had the only token, and no step gives a
closed task another.

`AlertPipelineProofs`, for any finite set of alerts and any batch size, overlap,
clock, number of faults, visits of other pipelines and alerts that always raise:

| Theorem | Concludes |
|---|---|
| `TypeCorrect` | `[]TypeOK` |
| `WatermarkSafe` | `[]NoneLeftBehind` |
| `RowsTruthful` | `[]RowTruthful` |
| `ResubmissionsNeedLoss` | `[]ResubmitNeedsLoss` |
| `EveryBatchAdvances` | `BatchAdvances` |

The invariant is `PipelineInv`.  `RowTruthful` is not inductive, because a stale
copy may be written over the row: `DocumentInv` says the same of every copy that
anybody holds, other replicas included.  `NoneLeftBehind` needs `WatermarkInv`: the watermark stays
`Overlap` behind the clock, so an insert that commits in time is never behind it
(`LagAssumption`), and an alert the SELECT left out is not older than the place
the watermark will take.  `ResubmitNeedsLoss` needs to know in which copies the
one task of an alert is recorded, and that one pipeline at a time has it in hand,
as long as its row lost none and nobody contested it (`TaskInv`).  `EveryBatchAdvances` counts: an
alert that is not behind the watermark (`NoneLeftBehind`) and was left out of a
batch was left out of a full one (`LeftOutOfFullBatch`), none of whose alerts is
younger; if they do not move the watermark they lie within the overlap.

`MessageBrokerProofs`, for any messages, entries, consumers, operators, retries
and faults:

| Theorem | Concludes |
|---|---|
| `TypeCorrect` | `[]TypeOK` |
| `MessagesKept` | `[]NeverNowhere` |
| `HandledOnce` | `[]OnceUndisturbed` |
| `RetriesCounted` | `[]RetriesBounded` |

`BrokerInv` says where entries can be and what each process may hold, whatever
crashes or overlaps (`Current`, `Apart`, `Contents`, `Batches`, `Currents`,
`Unshared`, `Stages`, `Lists`).  `Nowhere` follows the live entry of a
message through every command.  `OnceInv` is about messages nothing disturbed:
such a message has a single live entry (`Single`), held by one worker (`Holding`)
or listed by one operator (`Listing`), none once it was handled (`Done`), and the
entry's count is the number of nacks (`Counted`).

`PlaybookTriggersProofs`, for any triggers of either type, deliveries, requests,
replicas, slots and failures:

| Theorem | Concludes |
|---|---|
| `TypeCorrect` | `[]TypeOK` |
| `KeysRunOnce` | `[]KeyOnce` |
| `RepeatsHaveCause` | `[]RepeatsExplained` |
| `RefusalsHaveCause` | `[]RefusalExplained` |
| `AnswersTruthful` | `[]AnswersAgree` |
| `SlotsRunOnce` | `[]CronOnce` |
| `ReplicasApart` | `[]RunsApart` |
| `RowsImplementKeys` | `Spec => IdempotencyKeys` under the mapping |

`WebhookInv` has the row of a delivery at each stage (`Rows`), at most one row per
key (`OneRow`, from the unique index), and for two like deliveries past their
check that one was on its way when the other was checked (`Overlaps`).  `CronInv`
has the lock with whoever executes a trigger (`HasLock`), hence nobody else
executing it (`Apart`); a slot that was run is stamped when the run ends
(`Stamped`), and as long as a replica holds a listing from before that, the lock
is still set (`Fenced`), so no run that is about to start repeats one (`Fresh`).
Each half leaves the other's variables alone.  `RowsImplementKeys` takes the two
first parts: an open delivery is the only owner of its key and has not begun
before (`OpenHasKey`), and a change of a row concerns no key but its own
(`RowChange`).

Assumed: `DagAssumption` (what the compiler lets through, the empty graph
included), `QueueAssumption`, `PipelineAssumption`, `BrokerAssumption`,
`TableAssumption`, `WebhookAssumption` and `CronAssumption` (finite sets,
sensible numbers, null values apart), and `LagAssumption`.  TLC evaluates all of
them on the runs.

Only model-checked: liveness (`Terminates`, `Settles`, `Served`); liveness and
ENABLED are outside what the prover handles.  `BatchAdvances` is the part of
`Served` that is a property of steps.
`CancelIsFinal` and `CorrelatedOnce` are refuted.  The theorems listed without a
property in `PROJECT.json` say where a refuted property holds; their statements
stand in the proof modules.

## 5. Not modelled, and why

* **Run rows and the execution service.**  The endpoints that execute and cancel
  a definition never commit their session: the row of the run is rolled back when
  the request ends.  There are no committed states to state properties of.  The
  scheduler they await is modelled, and the same scheduler under a trigger
  appears in `WebhookTriggers` and `CronTriggers` as a run that ends with a
  status, raises or is cut off.
* **Run queue manager.**  It counts and promotes such rows; a promoted run has
  nobody who executes it.
* **Level engine** (`playbook_engine/dag/`).  Its only caller creates the run
  under another id than the one it passes, so the first flush of node runs
  violates their foreign key (`db/session.py:82` turns foreign keys on): a model
  of what follows would be of code no execution reaches.
* **Linear engine, resume, approvals.**  The plugin's request refers to a run that
  is not committed, and the resume of an approved run raises before its first
  step.
* **In-memory broker, deduplication cache.**  One process, nothing that survives
  it, nothing that runs between the steps of a call.
* **The rest** (HTTP handling, access control, parsing and formatting, external
  integrations, scoring, WebSocket fan-out, scripts and migrations, front end)
  holds no protocol between actors, or allows any outcome.  It is most of the
  repository's lines.

## 6. What is left to do

1. `CircuitBreaker`: concurrent callers in the half-open state, where the
   docstring announces a single probe.
2. `DagCompiler`: Kahn's algorithm as a recursive function against `Acyclic` over
   all small graphs.
3. Composition of `AlertPipeline` and `AITaskQueue`, which meet in the AI tasks
   the one submits and the other answers.
4. An abstract specification of the broker (a message is where its consumers can
   find it, or handled, or a dead letter) and its refinement.
5. The trigger service's create, update and delete, once a change of a trigger
   while it runs is of interest.
