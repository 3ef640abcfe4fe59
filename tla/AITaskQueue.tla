----------------------------- MODULE AITaskQueue -----------------------------
(***************************************************************************)
(* The background AI task queue (services/ai_task_service.py): rows of the *)
(* table ai_tasks, the in-memory priority queue, the processor loop, one   *)
(* asyncio task ("worker") per attempt, and the API calls that submit,     *)
(* poll and cancel.                                                        *)
(*                                                                         *)
(* A process runs on one event loop and suspends at database calls, at the *)
(* model call and at the queue.  A transaction that writes whatever it     *)
(* reads is one step; one whose write depends on what it read is two.      *)
(* After a commit the coroutine that awaited it may be resumed later than  *)
(* others, so the commit and what follows it are separate steps.           *)
(* The order of the queue within one priority is left open.                *)
(*                                                                         *)
(* The module follows one process through its crashes and restarts.  The   *)
(* other replicas of the backend share the rows and are the environment:   *)
(* they serve polls and cancellations, take tasks of their own, and when   *)
(* one of them starts its recovery takes or fails rows that are live here. *)
(***************************************************************************)
EXTENDS Integers, FiniteSets

CONSTANTS
  Tasks,           \* task ids, each submitted at most once (uuid4)
  Workers,         \* handles of asyncio tasks; bounds those alive at a time
  NoTask,          \* the processor loop holds no task
  NoWorker,        \* _running_tasks has no entry
  Priority,        \* the priority each task is submitted with
  MaxConcurrent,   \* _max_concurrent (5)
  MaxRetries,      \* max_retries of a row (2)
  Exposed,         \* bound: tasks that polls, cancellations, raising database
                   \* calls and the workers of other replicas concern
  MaxMishaps       \* bound: crashes, database calls that raise, and starts
                   \* of other replicas in a behaviour

ASSUME QueueAssumption ==
  /\ IsFiniteSet(Tasks) /\ IsFiniteSet(Workers)
  /\ NoTask \notin Tasks
  /\ NoWorker \notin Workers
  /\ Priority \in [Tasks -> Int]
  /\ MaxConcurrent \in Nat \ {0}
  /\ MaxRetries \in Nat
  /\ Exposed \subseteq Tasks
  /\ MaxMishaps \in Nat

VARIABLES
  up,          \* the process is running
  mishaps,     \* mishaps so far
  raised,      \* tasks a database call raised for since the process started
  status,      \* per task, the status column ("absent": no row)
  retries,     \* per task, the retry_count column
  submitting,  \* tasks whose row is committed and whose put is to come
  waiting,     \* per task, its items in _task_queue
  held,        \* the id the processor loop has taken and not yet started
  job, pc,     \* per worker, its task and where _process_task stands
  running,     \* _running_tasks
  canceller,   \* per task, a cancel_task call: "idle", "read", "written"
  afar,        \* tasks whose last cancel_task call another replica serves
  poller,      \* per task, a get_task_status call: "idle", "overdue"
  cancelled,   \* tasks for which cancel_task has returned True (history)
  elsewhere,   \* tasks another replica has had in its queue (history)
  orphans,     \* processing rows a starting replica has read and will fail
  attempts     \* per task, attempts begun: generate_structured calls (history)

procVars == <<up, mishaps, raised>>
rowVars == <<status, retries>>
apiVars == <<submitting, canceller, afar, poller, cancelled>>
loopVars == <<waiting, held, running>>
workerVars == <<job, pc>>
otherVars == <<elsewhere, orphans>>
vars == <<procVars, rowVars, apiVars, loopVars, workerVars, otherVars, attempts>>

Terminal == {"completed", "failed", "timeout"}
Active == {"pending", "processing"}
Handling == {"handling", "timedout"}    \* in _handle_task_error
Live == {"starting", "marking", "calling", "committed", "retrying", "requeueing"}
          \union Handling

-----------------------------------------------------------------------------

Idle == [t \in Tasks |-> "idle"]
EmptyQueue == [t \in Tasks |-> 0]
NoWorkers == [w \in Workers |-> "free"]

Init ==
  /\ up = TRUE
  /\ mishaps = 0
  /\ raised = {}
  /\ status = [t \in Tasks |-> "absent"]
  /\ retries = [t \in Tasks |-> 0]
  /\ submitting = {}
  /\ waiting = EmptyQueue
  /\ held = NoTask
  /\ job = [w \in Workers |-> NoTask]
  /\ pc = NoWorkers
  /\ running = [t \in Tasks |-> NoWorker]
  /\ canceller = Idle
  /\ afar = {}
  /\ poller = Idle
  /\ cancelled = {}
  /\ elsewhere = {}
  /\ orphans = {}
  /\ attempts = [t \in Tasks |-> 0]

SetStatus(t, s) == status' = [status EXCEPT ![t] = s]
Put(t) == waiting' = [waiting EXCEPT ![t] = @ + 1]
Goto(w, s) == pc' = [pc EXCEPT ![w] = s]

Mishap ==
  /\ mishaps < MaxMishaps
  /\ mishaps' = mishaps + 1

-----------------------------------------------------------------------------
(* API calls.                                                              *)

(* submit_task commits the row ...                                         *)
Submit(t) ==
  /\ up
  /\ status[t] = "absent"
  /\ SetStatus(t, "pending")
  /\ submitting' = submitting \union {t}
  /\ UNCHANGED <<procVars, retries, canceller, afar, poller, cancelled, loopVars,
                 workerVars, otherVars, attempts>>

(* ... and then puts the id into the queue.                                *)
Enqueue(t) ==
  /\ t \in submitting
  /\ submitting' = submitting \ {t}
  /\ Put(t)
  /\ UNCHANGED <<procVars, rowVars, canceller, afar, poller, cancelled, held, running,
                 workerVars, otherVars, attempts>>

(* get_task_status, here or at another replica, finds the row processing   *)
(* for longer than its timeout.                                            *)
PollReads(t) ==
  /\ t \in Exposed
  /\ poller[t] = "idle"
  /\ status[t] = "processing"
  /\ poller' = [poller EXCEPT ![t] = "overdue"]
  /\ UNCHANGED <<procVars, rowVars, submitting, canceller, afar, cancelled, loopVars,
                 workerVars, otherVars, attempts>>

PollWrites(t) ==
  /\ poller[t] = "overdue"
  /\ poller' = [poller EXCEPT ![t] = "idle"]
  /\ SetStatus(t, "timeout")
  /\ UNCHANGED <<procVars, retries, submitting, canceller, afar, cancelled, loopVars,
                 workerVars, otherVars, attempts>>

(* cancel_task, here or at another replica, reads a row that is not        *)
(* terminal, ...                                                           *)
CancelReads(t) ==
  /\ t \in Exposed
  /\ canceller[t] = "idle"
  /\ status[t] \in Active
  /\ canceller' = [canceller EXCEPT ![t] = "read"]
  /\ (up /\ afar' = afar \ {t}) \/ afar' = afar \union {t}
  /\ UNCHANGED <<procVars, rowVars, submitting, poller, cancelled, loopVars,
                 workerVars, otherVars, attempts>>

(* ... commits the status failed, ...                                      *)
CancelWrites(t) ==
  /\ canceller[t] = "read"
  /\ canceller' = [canceller EXCEPT ![t] = "written"]
  /\ SetStatus(t, "failed")
  /\ UNCHANGED <<procVars, retries, submitting, afar, poller, cancelled, loopVars,
                 workerVars, otherVars, attempts>>

(* Where Task.cancel() leaves a worker: inside the try block the handler   *)
(* for CancelledError runs, elsewhere the coroutine is unwound.            *)
Interrupted(s) == IF s \in {"calling", "committed"} THEN "stopping" ELSE "leaving"

(* ... and returns True: it has stopped and forgotten the worker that is   *)
(* registered in the process that serves it.                               *)
CancelStops(t) ==
  /\ canceller[t] = "written"
  /\ canceller' = [canceller EXCEPT ![t] = "idle"]
  /\ cancelled' = cancelled \union {t}
  /\ \/ t \in afar /\ UNCHANGED <<running, pc>>
     \/ /\ t \notin afar
        /\ running' = [running EXCEPT ![t] = NoWorker]
        /\ \/ running[t] = NoWorker /\ UNCHANGED pc
           \/ running[t] # NoWorker /\ Goto(running[t], Interrupted(pc[running[t]]))
  /\ UNCHANGED <<procVars, rowVars, submitting, afar, poller, waiting, held, job,
                 otherVars, attempts>>

(* A database call of a request raises: submit_task after its commit took  *)
(* effect, a poll or a cancel before or after it.                          *)
RequestRaises(t) ==
  /\ Mishap
  /\ t \in Exposed
  /\ \/ /\ t \in submitting
        /\ submitting' = submitting \ {t}
        /\ raised' = raised \union {t}
        /\ UNCHANGED <<canceller, poller>>
     \/ /\ poller[t] = "overdue"
        /\ poller' = [poller EXCEPT ![t] = "idle"]
        /\ UNCHANGED <<raised, submitting, canceller>>
     \/ /\ canceller[t] # "idle"
        /\ canceller' = [canceller EXCEPT ![t] = "idle"]
        /\ UNCHANGED <<raised, submitting, poller>>
  /\ UNCHANGED <<up, rowVars, afar, cancelled, loopVars, workerVars, otherVars, attempts>>

-----------------------------------------------------------------------------
(* The processor loop.                                                     *)

(* Mutant: one worker too many.                                            *)
LooseSlot == Cardinality({t \in Tasks : running[t] # NoWorker}) <= MaxConcurrent

SlotFree == Cardinality({t \in Tasks : running[t] # NoWorker}) < MaxConcurrent

(* create_task(_process_task(t)), registered under its task id.            *)
Spawn(t) ==
  \E w \in Workers :
    /\ pc[w] = "free"
    /\ Goto(w, "starting")
    /\ job' = [job EXCEPT ![w] = t]
    /\ running' = [running EXCEPT ![t] = w]

FirstInLine(t) ==
  /\ waiting[t] > 0
  /\ \A u \in Tasks : waiting[u] > 0 => Priority[u] <= Priority[t]

(* get() returns; the loop starts the task or finds every slot taken.      *)
Take(t) ==
  /\ up
  /\ held = NoTask
  /\ FirstInLine(t)
  /\ waiting' = [waiting EXCEPT ![t] = @ - 1]
  /\ \/ SlotFree /\ Spawn(t) /\ UNCHANGED held
     \/ ~SlotFree /\ held' = t /\ UNCHANGED <<running, job, pc>>
  /\ UNCHANGED <<procVars, rowVars, apiVars, otherVars, attempts>>

(* The loop wakes from its 0.5 s sleep and finds a slot.                   *)
StartHeld ==
  /\ held # NoTask
  /\ SlotFree
  /\ Spawn(held)
  /\ held' = NoTask
  /\ UNCHANGED <<procVars, rowVars, apiVars, waiting, otherVars, attempts>>

-----------------------------------------------------------------------------
(* One attempt: _process_task.                                             *)

(* What a step of worker w leaves alone.                                   *)
OnlyRowAndWorker == UNCHANGED <<procVars, apiVars, loopVars, job, otherVars, attempts>>

(* The first transaction, outside the try block: processing, whatever the  *)
(* row says.                                                               *)
MarkProcessing(w) ==
  /\ pc[w] = "starting"
  /\ Goto(w, "marking")
  /\ SetStatus(job[w], "processing")
  /\ UNCHANGED retries
  /\ OnlyRowAndWorker

(* generate_structured: one attempt of the queue, within which the LLM     *)
(* service asks the provider up to three times.                            *)
CallModel(w) ==
  /\ pc[w] = "marking"
  /\ Goto(w, "calling")
  /\ attempts' = [attempts EXCEPT ![job[w]] = @ + 1]
  /\ UNCHANGED <<procVars, rowVars, apiVars, loopVars, job, otherVars>>

(* The model answers in time and the result is committed; the coroutine    *)
(* is still inside the try block ...                                       *)
ModelAnswers(w) ==
  /\ pc[w] = "calling"
  /\ Goto(w, "committed")
  /\ SetStatus(job[w], "completed")
  /\ UNCHANGED retries
  /\ OnlyRowAndWorker

(* ... until it is resumed.                                                *)
EndAttempt(w) ==
  /\ pc[w] = "committed"
  /\ Goto(w, "leaving")
  /\ UNCHANGED rowVars
  /\ OnlyRowAndWorker

(* wait_for raises TimeoutError: _handle_task_error, no retry.             *)
ModelTimesOut(w) ==
  /\ pc[w] = "calling"
  /\ Goto(w, "timedout")
  /\ UNCHANGED rowVars
  /\ OnlyRowAndWorker

TimeOutTask(w) ==
  /\ pc[w] = "timedout"
  /\ Goto(w, "leaving")
  /\ SetStatus(job[w], "timeout")
  /\ UNCHANGED retries
  /\ OnlyRowAndWorker

(* Any other exception before the result is committed: _handle_task_error, *)
(* then _maybe_retry_task.                                                 *)
ModelFails(w) ==
  /\ pc[w] = "calling"
  /\ Goto(w, "handling")
  /\ UNCHANGED rowVars
  /\ OnlyRowAndWorker

FailTask(w) ==
  /\ pc[w] = "handling"
  /\ Goto(w, "retrying")
  /\ SetStatus(job[w], "failed")
  /\ UNCHANGED retries
  /\ OnlyRowAndWorker

(* CancelledError inside the try block: _handle_task_error, no retry.      *)
Stop(w) ==
  /\ pc[w] = "stopping"
  /\ Goto(w, "leaving")
  /\ SetStatus(job[w], "failed")
  /\ UNCHANGED retries
  /\ OnlyRowAndWorker

(* Mutants: off by one; puts the id into the queue before the commit, too. *)
RetryOnceMore(w) ==
  /\ pc[w] = "retrying"
  /\ retries[job[w]] <= MaxRetries
  /\ retries' = [retries EXCEPT ![job[w]] = @ + 1]
  /\ SetStatus(job[w], "pending")
  /\ Goto(w, "requeueing")
  /\ OnlyRowAndWorker

RetryPutsEarly(w) ==
  /\ pc[w] = "retrying"
  /\ retries[job[w]] < MaxRetries
  /\ retries' = [retries EXCEPT ![job[w]] = @ + 1]
  /\ SetStatus(job[w], "pending")
  /\ Put(job[w])
  /\ Goto(w, "requeueing")
  /\ UNCHANGED <<procVars, apiVars, held, running, job, otherVars, attempts>>

(* _maybe_retry_task.  Here only a worker of the task writes retry_count,  *)
(* and there is one at a time (OneAttempt), so read and write are one step. *)
Retry(w) ==
  /\ pc[w] = "retrying"
  /\ retries[job[w]] < MaxRetries
  /\ retries' = [retries EXCEPT ![job[w]] = @ + 1]
  /\ SetStatus(job[w], "pending")
  /\ Goto(w, "requeueing")
  /\ OnlyRowAndWorker

GiveUp(w) ==
  /\ pc[w] = "retrying"
  /\ retries[job[w]] >= MaxRetries
  /\ Goto(w, "leaving")
  /\ UNCHANGED rowVars
  /\ OnlyRowAndWorker

Requeue(w) ==
  /\ pc[w] = "requeueing"
  /\ Put(job[w])
  /\ Goto(w, "leaving")
  /\ UNCHANGED <<procVars, rowVars, apiVars, held, running, job, otherVars, attempts>>

(* Mutant: no done callback.                                               *)
LeaveRegistered(w) ==
  /\ pc[w] = "leaving"
  /\ Goto(w, "free")
  /\ job' = [job EXCEPT ![w] = NoTask]
  /\ UNCHANGED <<procVars, rowVars, apiVars, loopVars, otherVars, attempts>>

(* The done callback deletes the entry of the task id, whoever holds it.   *)
Leave(w) ==
  /\ pc[w] = "leaving"
  /\ Goto(w, "free")
  /\ job' = [job EXCEPT ![w] = NoTask]
  /\ running' = [running EXCEPT ![job[w]] = NoWorker]
  /\ UNCHANGED <<procVars, rowVars, apiVars, waiting, held, otherVars, attempts>>

WorkerStep(w) ==
  \/ MarkProcessing(w) \/ CallModel(w) \/ ModelAnswers(w) \/ EndAttempt(w)
  \/ ModelTimesOut(w) \/ TimeOutTask(w) \/ ModelFails(w) \/ FailTask(w) \/ Stop(w)
  \/ Retry(w) \/ GiveUp(w) \/ Requeue(w) \/ Leave(w)

(* A database call of the attempt raises, before its write or after a      *)
(* commit that took effect.  Only the result's transaction is inside the   *)
(* try block; from anywhere else the exception ends the coroutine.         *)
WorkerRaises(w) ==
  /\ Mishap
  /\ job[w] \in Exposed
  /\ pc[w] \in (Live \ {"calling"}) \union {"stopping"}
  /\ Goto(w, IF pc[w] = "committed" THEN "handling" ELSE "leaving")
  /\ raised' = raised \union {job[w]}
  /\ UNCHANGED <<up, rowVars, apiVars, loopVars, job, otherVars, attempts>>

-----------------------------------------------------------------------------
(* The process and the other replicas.                                     *)

(* The process ends, gracefully or not: memory is gone, rows stay, and so  *)
(* do the requests other replicas serve.                                   *)
Crash ==
  /\ Mishap
  /\ up
  /\ up' = FALSE
  /\ submitting' = {}
  /\ waiting' = EmptyQueue
  /\ held' = NoTask
  /\ job' = [w \in Workers |-> NoTask]
  /\ pc' = NoWorkers
  /\ running' = [t \in Tasks |-> NoWorker]
  /\ canceller' = [t \in Tasks |-> IF t \in afar THEN canceller[t] ELSE "idle"]
  /\ \E here \in SUBSET Tasks :
       poller' = [t \in Tasks |-> IF t \in here THEN "idle" ELSE poller[t]]
  /\ UNCHANGED <<raised, rowVars, afar, cancelled, otherVars, attempts>>

(* Mutants: recovery that leaves pending rows out of the queue, leaves     *)
(* processing rows alone, or queues processing rows again.                 *)
RestartEmpty ==
  /\ ~up
  /\ up' = TRUE
  /\ raised' = {}
  /\ status' = [t \in Tasks |-> IF status[t] = "processing" THEN "failed" ELSE status[t]]
  /\ UNCHANGED <<mishaps, retries, apiVars, loopVars, workerVars, otherVars, attempts>>

RestartBlind ==
  /\ ~up
  /\ up' = TRUE
  /\ raised' = {}
  /\ waiting' = [t \in Tasks |-> IF status[t] = "pending" THEN 1 ELSE 0]
  /\ UNCHANGED <<mishaps, rowVars, apiVars, held, running, workerVars, otherVars, attempts>>

RestartAgain ==
  /\ ~up
  /\ up' = TRUE
  /\ raised' = {}
  /\ waiting' = [t \in Tasks |-> IF status[t] \in Active THEN 1 ELSE 0]
  /\ status' = [t \in Tasks |-> IF status[t] = "processing" THEN "pending" ELSE status[t]]
  /\ UNCHANGED <<mishaps, retries, apiVars, held, running, workerVars, otherVars, attempts>>

(* Startup: recover_orphaned_tasks, before anything else here uses the     *)
(* queue.  It takes the rows of other replicas, too.                       *)
Restart ==
  /\ ~up
  /\ up' = TRUE
  /\ raised' = {}
  /\ waiting' = [t \in Tasks |-> IF status[t] = "pending" THEN 1 ELSE 0]
  /\ status' = [t \in Tasks |-> IF status[t] = "processing" THEN "failed" ELSE status[t]]
  /\ UNCHANGED <<mishaps, retries, apiVars, held, running, workerVars, otherVars, attempts>>

(* submit_task at another replica.                                         *)
SubmitElsewhere(t) ==
  /\ t \in Exposed
  /\ status[t] = "absent"
  /\ SetStatus(t, "pending")
  /\ elsewhere' = elsewhere \union {t}
  /\ UNCHANGED <<procVars, retries, apiVars, loopVars, workerVars, orphans, attempts>>

(* recover_orphaned_tasks in a replica that starts while this process      *)
(* lives: it queues the rows it reads as pending, ...                      *)
ReplicaStarts ==
  /\ Mishap
  /\ elsewhere' = elsewhere \union {t \in Tasks : status[t] = "pending"}
  /\ orphans' = orphans \union {t \in Tasks : status[t] = "processing"}
  /\ UNCHANGED <<up, raised, rowVars, apiVars, loopVars, workerVars, attempts>>

(* ... and fails those it has read as processing, whatever they are now.   *)
FailOrphan(t) ==
  /\ t \in orphans
  /\ orphans' = orphans \ {t}
  /\ SetStatus(t, "failed")
  /\ UNCHANGED <<procVars, retries, apiVars, loopVars, workerVars, elsewhere, attempts>>

(* Workers of another replica write the row.  A retry there may have read  *)
(* an older count, but writes at least 1.                                  *)
OtherWrites(t) ==
  /\ t \in elsewhere \intersect Exposed
  /\ \/ /\ \E s \in Active \union Terminal : SetStatus(t, s)
        /\ UNCHANGED retries
     \/ /\ \E r \in 1..MaxRetries : retries' = [retries EXCEPT ![t] = r]
        /\ SetStatus(t, "pending")
  /\ UNCHANGED <<procVars, apiVars, loopVars, workerVars, otherVars, attempts>>

Next ==
  \/ \E t \in Tasks : \/ Submit(t) \/ Enqueue(t) \/ Take(t)
                      \/ PollReads(t) \/ PollWrites(t)
                      \/ CancelReads(t) \/ CancelWrites(t) \/ CancelStops(t)
                      \/ RequestRaises(t)
  \/ StartHeld
  \/ \E w \in Workers : WorkerStep(w) \/ WorkerRaises(w)
  \/ Crash
  \/ Restart
  \/ ReplicaStarts
  \/ \E t \in Tasks : SubmitElsewhere(t) \/ FailOrphan(t) \/ OtherWrites(t)

Spec == Init /\ [][Next]_vars

(* The event loop resumes every coroutine, the model call ends by its      *)
(* timeout, and the deployment restarts a process that ended.              *)
FairSpec ==
  /\ Spec
  /\ \A t \in Tasks : /\ WF_vars(Enqueue(t)) /\ WF_vars(Take(t))
                      /\ WF_vars(PollWrites(t))
                      /\ WF_vars(CancelWrites(t)) /\ WF_vars(CancelStops(t))
  /\ WF_vars(StartHeld)
  /\ \A w \in Workers : WF_vars(WorkerStep(w))
  /\ WF_vars(Restart)

-----------------------------------------------------------------------------
(* Types of the variables.                                                 *)
TypeOK ==
  /\ up \in BOOLEAN
  /\ mishaps \in 0..MaxMishaps
  /\ status \in [Tasks -> {"absent"} \union Active \union Terminal]
  /\ retries \in [Tasks -> 0..MaxRetries]
  /\ waiting \in [Tasks -> Nat]
  /\ held \in Tasks \union {NoTask}
  /\ job \in [Workers -> Tasks \union {NoTask}]
  /\ pc \in [Workers -> Live \union {"free", "stopping", "leaving"}]
  /\ running \in [Tasks -> Workers \union {NoWorker}]
  /\ canceller \in [Tasks -> {"idle", "read", "written"}]
  /\ poller \in [Tasks -> {"idle", "overdue"}]
  /\ attempts \in [Tasks -> Nat]
  /\ \A S \in {raised, submitting, afar, cancelled, elsewhere, orphans} : S \subseteq Tasks

WorkersOf(t, S) == {w \in Workers : job[w] = t /\ pc[w] \in S}

(* Where the next attempt of t can come from.                              *)
Scheduled(t) ==
  t \in submitting \/ waiting[t] > 0 \/ held = t \/ WorkersOf(t, {"starting", "requeueing"}) # {}

(* Rows this process alone is responsible for, and no database call has    *)
(* raised for since it started.                                            *)
Own(t) == t \notin elsewhere /\ t \notin raised

(* A pending row nobody has cancelled is never forgotten: its id is queued, *)
(* held, or about to be queued or marked, across retries and restarts.     *)
(* What loses it until a restart is a database call that raises for it, in *)
(* submit_task, in the first transaction of an attempt or in a retry.      *)
NoPendingForgotten ==
  up => \A t \in Tasks :
    status[t] = "pending" /\ t \notin cancelled /\ Own(t) => Scheduled(t)

(* A processing row nobody is cancelling has a worker at it: no zombies    *)
(* ("so the row does not sit as a zombie forever").  What makes one until  *)
(* a restart is a database call that raises for it, as _handle_task_error  *)
(* has none to handle its own.                                             *)
NoZombie ==
  up => \A t \in Tasks :
    status[t] = "processing" /\ t \notin cancelled /\ Own(t)
      => WorkersOf(t, {"marking", "calling", "stopping"} \union Handling) # {}

(* Submission, retry and crash recovery never queue a task twice: in one   *)
(* process at most one attempt of a task is under way, also of a task that *)
(* other replicas have in their queues.                                    *)
OneAttempt == \A t \in Tasks : Cardinality(WorkersOf(t, Live)) <= 1

(* A task no other replica has had in its queue is attempted at most       *)
(* 1 + max_retries times, however often the process restarts, database     *)
(* calls raise or somebody cancels and polls.                              *)
AttemptsBounded == \A t \in Tasks : t \notin elsewhere => attempts[t] <= 1 + retries[t]

(* A completed row stays completed.  Only these overwrite it: a poll or a  *)
(* cancel that had read it before; Task.cancel() reaching the worker after *)
(* its commit; the error handler after a commit that raised although it    *)
(* took effect; a starting replica that had read the row as processing,    *)
(* and replicas that had it in their queue.                                *)
CompletedIsFinal ==
  [][\A t \in Tasks :
          /\ status[t] = "completed"
          /\ poller[t] = "idle" /\ canceller[t] # "read"
          /\ WorkersOf(t, {"stopping"}) = {}
          /\ t \notin orphans /\ Own(t)
       => status'[t] = "completed"]_vars

(* No more than _max_concurrent model calls are first attempts: only a     *)
(* retry, whose registration the done callback of the failed attempt may   *)
(* have deleted, can run beyond the cap.                                   *)
FirstAttemptsCapped ==
  Cardinality({w \in Workers : pc[w] = "calling" /\ retries[job[w]] = 0}) <= MaxConcurrent

(* No more than _max_concurrent model calls run at a time ("Max concurrent *)
(* AI tasks").                                                             *)
CapRespected ==
  Cardinality({w \in Workers : pc[w] = "calling"}) <= MaxConcurrent

(* A task whose cancellation was reported as done by the process it runs   *)
(* in does not complete later ("Cancel a pending or processing task").     *)
CancelIsFinal ==
  [][\A t \in cancelled \ (elsewhere \union afar) : status'[t] # status[t] => status'[t] # "completed"]_vars

(* Every submitted task is eventually completed, failed, timed out or      *)
(* cancelled, across retries and restarts, unless a database call raises   *)
(* for it or another replica takes it.                                     *)
Settles ==
  \A t \in Tasks : status[t] = "pending" ~> status[t] \in Terminal \/ t \in cancelled \/ ~Own(t)

-----------------------------------------------------------------------------
(* The queue seen as a WorkQueue.                                          *)

(* Some worker of t stands at one of the places S.                         *)
At(t, S) == \E w \in Workers : job[w] = t /\ pc[w] \in S

InAttempt(t) == At(t, {"calling", "committed", "retrying", "stopping"} \union Handling)

(* Where an attempt of t can still come from, a recovery included: it      *)
(* queues whatever row is pending.                                         *)
Attemptable(t) ==
  \/ status[t] = "pending"
  \/ t \in submitting \/ waiting[t] > 0 \/ held = t
  \/ At(t, {"starting", "marking", "requeueing"})

Stage(t) ==
  IF t \in elsewhere THEN "shared"
  ELSE IF status[t] = "absent" THEN "new"
  ELSE IF InAttempt(t) THEN "attempt"
  ELSE IF Attemptable(t) THEN "ready"
  ELSE "over"

Abstract == INSTANCE WorkQueue WITH
  stage <- [t \in Tasks |-> Stage(t)],
  attempts <- [t \in Tasks |-> IF t \in elsewhere THEN 0 ELSE attempts[t]]

(* Whatever the rows say after the unconditional writes of workers, polls, *)
(* cancellations and other replicas' recoveries, the attempts of a task    *)
(* follow one another, within 1 + max_retries, and a task that is out of   *)
(* the queue stays out: no retry, recovery or replica brings it back.  A   *)
(* replica that starts can take only tasks that wait.                      *)
ImplementsWorkQueue == Abstract!Spec
=============================================================================
