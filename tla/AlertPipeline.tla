---------------------------- MODULE AlertPipeline ----------------------------
(***************************************************************************)
(* The alert pipeline (services/lifecycle/alert_pipeline_service.py) and   *)
(* the triage backfill of the AI task processor                            *)
(* (services/ai_task_service.py), which meet in the raw_data column of an  *)
(* alert: each of them reads the whole document, adds keys to its copy and *)
(* writes the whole copy back.                                             *)
(*                                                                         *)
(* Both run on one event loop, so a coroutine is atomic between two awaits.*)
(* The steps below are the commits and the reads that see another          *)
(* writer's commit: the batch SELECT, the commit of an AI task, the commit *)
(* of an alert, the correlation SELECT, the commit of the incidents, the   *)
(* commit of the marks; and the SELECT and the commit of a backfill.       *)
(*                                                                         *)
(* Every replica of the API runs a pipeline of its own over the same rows, *)
(* without a lock.  The module follows one; what the others do with an     *)
(* alert is a visit to it: they load its document for a batch or for the   *)
(* correlation, submit a task, and write their copy back.                  *)
(*                                                                         *)
(* A document is the set of the keys written into it.  Time is counted in  *)
(* ticks; an instance lasts less than the hour the watermark is set back   *)
(* at start and the hour of the correlation window, and holds fewer alerts *)
(* than the 500 the correlation SELECT returns.                            *)
(***************************************************************************)
EXTENDS Integers, FiniteSets

CONSTANTS
  Alerts,        \* the alerts that may be ingested
  NoAlert,       \* no alert
  Severe,        \* those at or above alert_pipeline_ai_min_severity
  Raising,       \* those whose enrichment raises at every attempt
  Visits,        \* visits of other replicas' pipelines to an alert
  Exposed,       \* bound: the alerts such visits concern
  BatchSize,     \* alert_pipeline_batch_size
  Overlap,       \* the 5 s the watermark stays behind, in ticks
  CommitLag,     \* ticks an insert may take from created_at to its commit
  MaxTime,       \* bound: ticks of an instance
  MaxFaults,     \* bound: other exceptions, deaths of the process and visits
  MaxAnswers     \* bound: triage answers per alert

ASSUME PipelineAssumption ==
  /\ IsFiniteSet(Alerts)
  /\ NoAlert \notin Alerts
  /\ Severe \subseteq Alerts /\ Raising \subseteq Alerts
  /\ Exposed \subseteq Alerts
  /\ BatchSize \in Nat \ {0}
  /\ Overlap \in Nat
  /\ CommitLag \in Nat
  /\ MaxTime \in Nat /\ MaxFaults \in Nat /\ MaxAnswers \in Nat

(* The comment on the watermark (:131-133): an insert commits in time.     *)
ASSUME LagAssumption == CommitLag <= Overlap

VARIABLES
  now,         \* the clock
  born,        \* per alert, created_at (0 before it is ingested)
  rows,        \* the alerts whose insert is committed
  raw,         \* per alert, the keys in the committed raw_data
  watermark,   \* _watermark
  pc,          \* where the pipeline's coroutine is suspended
  batch,       \* the alerts the cycle's SELECT returned
  todo,        \* those the loop has not finished with
  current,     \* the alert whose AI task was just submitted, or NoAlert
  seen,        \* per alert, the raw_data the open session has loaded
  txn,         \* the batch session has an open transaction
  pending,     \* the alerts being correlated
  tasks,       \* per alert, AI tasks submitted for it
  answers,     \* per alert, AI tasks whose backfill has begun
  fills,       \* per alert, the documents backfills in progress have read
  grouped,     \* alerts whose incidents have been committed (history)
  done,        \* alerts that were once marked processed (history)
  dropped,     \* alerts whose attempt raised and the loop went on (history)
  unmarked,    \* alerts with a task their row did not keep (history)
  contested,   \* alerts two pipelines had in a batch at once (history)
  stage,       \* per visit, how far it has come
  visited,     \* per visit, the alert
  copy,        \* per visit, the document it has loaded
  faults       \* exceptions, deaths and visits so far

alertVars == <<now, born, rows>>
loopVars == <<pc, batch, todo, current, seen, txn>>
historyVars == <<done, dropped, unmarked, contested>>
visitVars == <<stage, visited, copy>>
vars == <<alertVars, raw, watermark, loopVars, pending, tasks, answers, fills,
          grouped, historyVars, visitVars, faults>>

PipelineKeys == {"ai_task_id", "processed_at", "correlated_at", "ai_triage"}
Keys == PipelineKeys \union {"threat_intel"}
HasPipeline(doc) == doc \intersect PipelineKeys # {}
Steps == {"sleeping", "batch", "submitted", "correlating", "correlated"}
Stages == {"none", "loaded", "submitted", "pending", "grouped", "over"}

Earliest(S) == {a \in S : \A b \in S : born[a] <= born[b]}
Latest(S) == {a \in S : \A b \in S : born[b] <= born[a]}
Lesser(s, t) == IF s <= t THEN s ELSE t

(* The documents of a session that has loaded the alerts in S.             *)
Loaded(S) == [a \in Alerts |-> IF a \in S THEN raw[a] ELSE {}]

-----------------------------------------------------------------------------

Init ==
  /\ now = 0
  /\ born = [a \in Alerts |-> 0]
  /\ rows = {}
  /\ raw = [a \in Alerts |-> {}]
  /\ watermark = 0
  /\ pc = "sleeping"
  /\ batch = {} /\ todo = {} /\ pending = {}
  /\ current = NoAlert
  /\ seen = [a \in Alerts |-> {}]
  /\ txn = FALSE
  /\ tasks = [a \in Alerts |-> 0]
  /\ answers = [a \in Alerts |-> 0]
  /\ fills = [a \in Alerts |-> {}]
  /\ grouped = {} /\ done = {} /\ dropped = {} /\ unmarked = {} /\ contested = {}
  /\ stage = [v \in Visits |-> "none"]
  /\ visited = [v \in Visits |-> NoAlert]
  /\ copy = [v \in Visits |-> {}]
  /\ faults = 0

Fault ==
  /\ faults < MaxFaults
  /\ faults' = faults + 1

(* --- the ingest endpoint ----------------------------------------------- *)

(* The insert of an alert is committed; created_at was taken from the      *)
(* clock when the object was made, up to CommitLag ticks before.           *)
Insert(a) ==
  /\ a \notin rows
  /\ \E t \in 0 .. now :
       /\ t >= now - CommitLag
       /\ born' = [born EXCEPT ![a] = t]
  /\ rows' = rows \union {a}
  /\ UNCHANGED <<now, raw, watermark, loopVars, pending, tasks, answers, fills,
                 grouped, historyVars, visitVars, faults>>

Tick ==
  /\ now < MaxTime
  /\ now' = now + 1
  /\ UNCHANGED <<born, rows, raw, watermark, loopVars, pending, tasks, answers,
                 fills, grouped, historyVars, visitVars, faults>>

(* --- _enrich_and_triage ------------------------------------------------ *)

Eligible == {a \in rows : born[a] >= watermark}

(* Mutant: the SELECT takes the newest alerts first.                       *)
NewestFirst(B) ==
  /\ B \subseteq Eligible
  /\ Cardinality(B) = Lesser(BatchSize, Cardinality(Eligible))
  /\ \A a \in B, b \in Eligible \ B : born[b] <= born[a]

(* What the batch SELECT may return: the oldest, from the watermark on.    *)
Selection(B) ==
  /\ B \subseteq Eligible
  /\ Cardinality(B) = Lesser(BatchSize, Cardinality(Eligible))
  /\ \A a \in B, b \in Eligible \ B : born[a] <= born[b]

(* The alerts of B that the loop does not skip: skipping one takes no      *)
(* await, and what it looks at is the document loaded with the batch.      *)
Unprocessed(B) == {a \in B : "processed_at" \notin raw[a]}

(* Visit v of another pipeline has a in a batch and not yet written it.    *)
Holds(v, a) == visited[v] = a /\ stage[v] \in {"loaded", "submitted"}

LoadBatch ==
  /\ pc = "sleeping"
  /\ pc' = "batch"
  /\ \E B \in SUBSET rows :
       /\ Selection(B)
       /\ batch' = B
       /\ todo' = Unprocessed(B)
       /\ seen' = Loaded(B)
       /\ txn' = (B # {})
       /\ contested' = contested \union {a \in Unprocessed(B) : \E v \in Visits : Holds(v, a)}
  /\ UNCHANGED <<alertVars, raw, watermark, current, pending, tasks, answers,
                 fills, grouped, done, dropped, unmarked, visitVars, faults>>

CloseSession ==
  /\ batch' = {}
  /\ todo' = {}
  /\ seen' = Loaded({})
  /\ txn' = FALSE

(* The alert the loop takes next.                                          *)
Upcoming(a) == pc = "batch" /\ a \in Earliest(todo)
NeedsTask(a) == a \in Severe /\ "ai_task_id" \notin seen[a]

(* submit_task commits the AI task of a severe alert.                      *)
SubmitTask(a) ==
  /\ Upcoming(a)
  /\ a \notin Raising
  /\ NeedsTask(a)
  /\ pc' = "submitted"
  /\ current' = a
  /\ tasks' = [tasks EXCEPT ![a] = @ + 1]
  /\ UNCHANGED <<alertVars, raw, watermark, batch, todo, seen, txn, pending,
                 answers, fills, grouped, historyVars, visitVars, faults>>

(* A document loaded before the row got a task id overwrites it.           *)
Loses(a, doc) == "ai_task_id" \in raw[a] \ doc

(* The alert is enriched and marked, and its whole document is committed.  *)
WriteAlert(a, marks) ==
  /\ raw' = [raw EXCEPT ![a] = seen[a] \union {"threat_intel", "processed_at"} \union marks]
  /\ unmarked' = unmarked \union {b \in {a} : Loses(b, seen[b])}
  /\ done' = done \union {a}
  /\ todo' = todo \ {a}
  /\ txn' = FALSE
  /\ UNCHANGED <<alertVars, watermark, batch, seen, pending, tasks, answers,
                 fills, grouped, dropped, contested, visitVars, faults>>

(* Mutant: a severe alert is marked although it has no AI task yet.        *)
CommitUntriaged(a) ==
  /\ Upcoming(a)
  /\ WriteAlert(a, {})
  /\ UNCHANGED <<pc, current>>

CommitAlert(a) ==
  /\ Upcoming(a)
  /\ a \notin Raising
  /\ ~NeedsTask(a)
  /\ WriteAlert(a, {})
  /\ UNCHANGED <<pc, current>>

CommitTriaged ==
  /\ pc = "submitted"
  /\ WriteAlert(current, {"ai_task_id"})
  /\ pc' = "batch"
  /\ current' = NoAlert

Fail == UNCHANGED <<alertVars, raw, watermark, pending, tasks, answers, fills,
                    grouped, done, contested, visitVars>>

(* Enrichment or submit_task raises.  The rollback expires every alert of  *)
(* the session if a transaction is open, and the next access to one ends   *)
(* the cycle; if the last thing the session did was a commit, the rollback *)
(* has nothing to do and the loop goes on with the next alert.             *)
AttemptFails(a) ==
  /\ Upcoming(a)
  /\ \/ a \in Raising /\ UNCHANGED faults
     \/ a \notin Raising /\ Fault
  /\ Fail
  /\ \/ txn /\ pc' = "sleeping" /\ CloseSession
        /\ UNCHANGED dropped
     \/ ~txn /\ todo' = todo \ {a} /\ UNCHANGED <<pc, batch, seen, txn>>
        /\ dropped' = dropped \union {a}
  /\ UNCHANGED <<current, unmarked>>

(* The commit of an alert raises: the cycle ends.                          *)
CommitFails(a) ==
  /\ \/ Upcoming(a) /\ a \notin Raising /\ ~NeedsTask(a) /\ UNCHANGED unmarked
     \/ pc = "submitted" /\ a = current /\ unmarked' = unmarked \union {a}
  /\ Fault
  /\ Fail
  /\ pc' = "sleeping"
  /\ CloseSession
  /\ current' = NoAlert
  /\ UNCHANGED dropped

(* --- _correlate -------------------------------------------------------- *)

BatchDone == pc = "batch" /\ todo = {}

(* Mutant: no overlap.                                                     *)
FollowedClosely == IF batch = {} THEN {watermark} ELSE {born[m] : m \in Latest(batch)}

(* The watermark follows the newest alert of the batch.                    *)
Followed ==
  IF batch = {} THEN {watermark} ELSE {born[m] - Overlap : m \in Latest(batch)}

(* The last lines of _process_cycle.                                       *)
Settled(mark) == Lesser(mark, now - Overlap)

Uncorrelated == {a \in rows : "correlated_at" \notin raw[a]}

NothingToCorrelate ==
  /\ BatchDone
  /\ Cardinality(Uncorrelated) < 2
  /\ pc' = "sleeping"
  /\ \E mark \in Followed : watermark' = Settled(mark)
  /\ CloseSession
  /\ UNCHANGED <<alertVars, raw, current, pending, tasks, answers, fills,
                 grouped, historyVars, visitVars, faults>>

LoadForCorrelation ==
  /\ BatchDone
  /\ Cardinality(Uncorrelated) >= 2
  /\ pc' = "correlating"
  /\ watermark' \in Followed
  /\ pending' = Uncorrelated
  /\ batch' = {} /\ todo' = {} /\ txn' = FALSE
  /\ seen' = Loaded(Uncorrelated)
  /\ UNCHANGED <<alertVars, raw, current, tasks, answers, fills, grouped,
                 historyVars, visitVars, faults>>

(* correlate_events commits the incidents in a transaction of its own.     *)
CommitIncidents ==
  /\ pc = "correlating"
  /\ pc' = "correlated"
  /\ grouped' = grouped \union pending
  /\ UNCHANGED <<alertVars, raw, watermark, batch, todo, current, seen, txn,
                 pending, tasks, answers, fills, historyVars, visitVars, faults>>

(* correlated_at is set in the nested "pipeline" dict.  The copy of the    *)
(* document is shallow: a dict that was loaded is changed in place, in the *)
(* old value of the column as well as in the new one, the two compare      *)
(* equal and the flush emits no UPDATE.  Only a document that had no       *)
(* "pipeline" yet is written.                                              *)
MarkCorrelated ==
  /\ pc = "correlated"
  /\ raw' = [a \in Alerts |-> IF a \in pending /\ ~HasPipeline(seen[a])
                              THEN seen[a] \union {"correlated_at"} ELSE raw[a]]
  /\ unmarked' = unmarked \union {a \in pending : ~HasPipeline(seen[a]) /\ Loses(a, seen[a])}
  /\ pc' = "sleeping"
  /\ watermark' = Settled(watermark)
  /\ pending' = {}
  /\ CloseSession
  /\ UNCHANGED <<alertVars, current, tasks, answers, fills, grouped,
                 done, dropped, contested, visitVars, faults>>

(* The correlation or the commit of its marks raises.                      *)
CorrelationFails ==
  /\ pc \in {"correlating", "correlated"}
  /\ Fault
  /\ pc' = "sleeping"
  /\ pending' = {}
  /\ CloseSession
  /\ UNCHANGED <<alertVars, raw, watermark, current, tasks, answers, fills,
                 grouped, historyVars, visitVars>>

(* --- the AI task processor: _backfill_alert_triage --------------------- *)

(* An AI task of the alert has its answer: the alert is read.              *)
ReadForBackfill(a) ==
  /\ answers[a] < tasks[a]
  /\ answers[a] < MaxAnswers
  /\ answers' = [answers EXCEPT ![a] = @ + 1]
  /\ fills' = [fills EXCEPT ![a] = @ \union {raw[a]}]
  /\ UNCHANGED <<alertVars, raw, watermark, loopVars, pending, tasks, grouped,
                 historyVars, visitVars, faults>>

(* Mutant: starts from an empty document.                                  *)
CommitOnlyAnswer(a, doc) ==
  /\ doc \in fills[a]
  /\ fills' = [fills EXCEPT ![a] = @ \ {doc}]
  /\ raw' = [raw EXCEPT ![a] = {"ai_triage"}]
  /\ unmarked' = unmarked \union {b \in {a} : Loses(b, doc)}
  /\ UNCHANGED <<alertVars, watermark, loopVars, pending, tasks, answers,
                 grouped, done, dropped, contested, visitVars, faults>>

(* The answer is added and the whole document is committed.                *)
CommitBackfill(a, doc) ==
  /\ doc \in fills[a]
  /\ fills' = [fills EXCEPT ![a] = @ \ {doc}]
  /\ raw' = [raw EXCEPT ![a] = doc \union {"ai_triage"}]
  /\ unmarked' = unmarked \union {b \in {a} : Loses(b, doc)}
  /\ UNCHANGED <<alertVars, watermark, loopVars, pending, tasks, answers,
                 grouped, done, dropped, contested, visitVars, faults>>

(* --- the pipelines of the other replicas -------------------------------- *)

(* A batch of another pipeline has the alert, which is not marked and can  *)
(* be enriched: other visits write nothing.                                *)
VisitLoads(v, a) ==
  /\ stage[v] = "none"
  /\ Fault
  /\ a \in Exposed \ Raising
  /\ a \in rows /\ "processed_at" \notin raw[a]
  /\ stage' = [stage EXCEPT ![v] = "loaded"]
  /\ visited' = [visited EXCEPT ![v] = a]
  /\ copy' = [copy EXCEPT ![v] = raw[a]]
  /\ contested' = contested \union
       (IF a \in todo \/ \E w \in Visits : Holds(w, a) THEN {a} ELSE {})
  /\ UNCHANGED <<alertVars, raw, watermark, loopVars, pending, tasks, answers, fills,
                 grouped, done, dropped, unmarked>>

(* Its _process_one submits a task ...                                     *)
VisitSubmits(v) ==
  /\ stage[v] = "loaded"
  /\ visited[v] \in Severe /\ "ai_task_id" \notin copy[v]
  /\ stage' = [stage EXCEPT ![v] = "submitted"]
  /\ tasks' = [tasks EXCEPT ![visited[v]] = @ + 1]
  /\ UNCHANGED <<alertVars, raw, watermark, loopVars, pending, answers, fills,
                 grouped, historyVars, visited, copy, faults>>

VisitWrites(v, doc) ==
  /\ stage' = [stage EXCEPT ![v] = "over"]
  /\ visited' = [visited EXCEPT ![v] = NoAlert]
  /\ copy' = [copy EXCEPT ![v] = {}]
  /\ raw' = [raw EXCEPT ![visited[v]] = doc]
  /\ unmarked' = unmarked \union {a \in {visited[v]} : Loses(a, copy[v])}
  /\ UNCHANGED <<alertVars, watermark, loopVars, pending, tasks, answers, fills,
                 grouped, dropped, contested, faults>>

(* ... and commits the marked document.                                    *)
VisitCommits(v) ==
  /\ \/ /\ stage[v] = "loaded"
        /\ visited[v] \in Severe => "ai_task_id" \in copy[v]
        /\ VisitWrites(v, copy[v] \union {"threat_intel", "processed_at"})
     \/ /\ stage[v] = "submitted"
        /\ VisitWrites(v, copy[v] \union {"threat_intel", "processed_at", "ai_task_id"})
  /\ done' = done \union {visited[v]}

(* Its _correlate finds the alert, whose document has no "pipeline" yet:   *)
(* other visits write nothing (MarkCorrelated), ...                        *)
VisitPends(v, a) ==
  /\ stage[v] = "none"
  /\ Fault
  /\ a \in Exposed \intersect Uncorrelated /\ Cardinality(Uncorrelated) >= 2
  /\ ~HasPipeline(raw[a])
  /\ stage' = [stage EXCEPT ![v] = "pending"]
  /\ visited' = [visited EXCEPT ![v] = a]
  /\ copy' = [copy EXCEPT ![v] = raw[a]]
  /\ UNCHANGED <<alertVars, raw, watermark, loopVars, pending, tasks, answers, fills,
                 grouped, historyVars>>

(* ... commits an incident with it ...                                     *)
VisitGroups(v) ==
  /\ stage[v] = "pending"
  /\ stage' = [stage EXCEPT ![v] = "grouped"]
  /\ grouped' = grouped \union {visited[v]}
  /\ UNCHANGED <<alertVars, raw, watermark, loopVars, pending, tasks, answers, fills,
                 historyVars, visited, copy, faults>>

(* ... and marks it.                                                       *)
VisitMarks(v) ==
  /\ stage[v] = "grouped"
  /\ VisitWrites(v, copy[v] \union {"correlated_at"})
  /\ UNCHANGED done

(* --- the process dies and starts again ---------------------------------- *)

(* Mutant: the alert in hand survives the death of the process.            *)
RestartInHand ==
  /\ Fault
  /\ watermark' = 0
  /\ pc' = "sleeping"
  /\ CloseSession
  /\ pending' = {}
  /\ UNCHANGED <<alertVars, raw, current, tasks, answers, fills, grouped, historyVars,
                 visitVars>>

(* The backfills in progress are never resumed, or are those of another    *)
(* replica and go on.                                                      *)
Restart ==
  /\ Fault
  /\ watermark' = 0
  /\ pc' = "sleeping"
  /\ CloseSession
  /\ pending' = {}
  /\ unmarked' = unmarked \union ({current} \ {NoAlert})
  /\ current' = NoAlert
  /\ UNCHANGED <<alertVars, raw, tasks, answers, fills, grouped, done, dropped, contested,
                 visitVars>>

Pipeline ==
  \/ LoadBatch \/ CommitTriaged
  \/ \E a \in Alerts : SubmitTask(a) \/ CommitAlert(a)
  \/ \E a \in Raising : AttemptFails(a)
  \/ NothingToCorrelate \/ LoadForCorrelation \/ CommitIncidents \/ MarkCorrelated

Faults ==
  \/ \E a \in Alerts : AttemptFails(a) \/ CommitFails(a)
  \/ CorrelationFails
  \/ Restart

Others ==
  \E v \in Visits :
    \/ \E a \in Alerts : VisitLoads(v, a) \/ VisitPends(v, a)
    \/ VisitSubmits(v) \/ VisitCommits(v) \/ VisitGroups(v) \/ VisitMarks(v)

Next ==
  \/ \E a \in Alerts : Insert(a)
  \/ Tick
  \/ Pipeline
  \/ \E a \in Alerts : ReadForBackfill(a) \/ \E doc \in SUBSET Keys : CommitBackfill(a, doc)
  \/ Others
  \/ Faults

Spec == Init /\ [][Next]_vars

(* The event loop resumes the pipeline; nothing else is assumed to happen. *)
FairSpec == Spec /\ WF_vars(Pipeline)

-----------------------------------------------------------------------------
Documents == SUBSET Keys

(* Types of the variables.                                                 *)
TypeOK ==
  /\ now \in Nat /\ watermark \in Int
  /\ born \in [Alerts -> Nat]
  /\ rows \in SUBSET Alerts
  /\ raw \in [Alerts -> Documents]
  /\ seen \in [Alerts -> Documents]
  /\ pc \in Steps
  /\ batch \in SUBSET Alerts /\ todo \in SUBSET batch
  /\ current \in Alerts \union {NoAlert}
  /\ (pc = "submitted" <=> current # NoAlert)
  /\ txn \in BOOLEAN
  /\ pending \in SUBSET rows
  /\ tasks \in [Alerts -> Nat] /\ answers \in [Alerts -> Nat]
  /\ fills \in [Alerts -> SUBSET Documents]
  /\ grouped \in SUBSET Alerts /\ done \in SUBSET Alerts
  /\ dropped \in SUBSET Alerts /\ unmarked \in SUBSET Alerts
  /\ contested \in SUBSET Alerts
  /\ stage \in [Visits -> Stages]
  /\ visited \in [Visits -> Alerts \union {NoAlert}]
  /\ \A v \in Visits : stage[v] \notin {"none", "over"} => visited[v] \in Alerts
  /\ copy \in [Visits -> Documents]
  /\ faults \in Nat

(* The watermark passes only alerts that were marked processed once, or    *)
(* that the loop went on without after an exception: no insert that        *)
(* commits late, no alert cut off by the batch size, no cycle that was     *)
(* aborted and no death of the process leaves one behind.                  *)
NoneLeftBehind ==
  \A a \in rows : born[a] < watermark => a \in done \union dropped

(* What a row says has happened: a severe alert marked processed names an  *)
(* AI task that was submitted, and an alert marked correlated is in the    *)
(* committed incidents, whichever stale copy of the document was written   *)
(* last.                                                                   *)
RowTruthful ==
  \A a \in Alerts :
    /\ "processed_at" \in raw[a] /\ a \in Severe => "ai_task_id" \in raw[a]
    /\ "ai_task_id" \in raw[a] => tasks[a] >= 1
    /\ "correlated_at" \in raw[a] => a \in grouped

(* A second AI task is submitted for an alert only if its row lost the     *)
(* first (by a failure or a death between the two commits, or because a    *)
(* backfill or a correlation wrote an older document back), or if two      *)
(* pipelines had the alert in a batch at once, one of which may be dead:   *)
(* no lock keeps the replicas apart, and only overlapping batches need one. *)
ResubmitNeedsLoss == \A a \in Alerts : tasks[a] > 1 => a \in unmarked \union contested

(* BatchSize alerts within the overlap in front of the alert: the SELECT   *)
(* returns them again and again and never gets past them.                  *)
Crowded(a) ==
  \E m \in rows :
    /\ born[m] <= born[a]
    /\ Cardinality({b \in rows : born[b] \in (born[m] - Overlap) .. born[m]}) >= BatchSize

(* BatchSize alerts, none newer than the alert, within the overlap that    *)
(* starts at the watermark: a full batch that will not move it.            *)
Jammed(a) ==
  Cardinality({b \in rows : /\ born[b] \in watermark .. watermark + Overlap
                            /\ born[b] <= born[a]}) >= BatchSize

(* Every batch makes progress: an alert that has not been processed is in  *)
(* it and not skipped, or the batch will move the watermark, or is jammed  *)
(* by a burst at the watermark.  Neither late commits, failed cycles,      *)
(* restarts nor the marks of other replicas make a SELECT leave it out for *)
(* any other reason.  Whether the cycle gets through its batch is another  *)
(* matter (Served).                                                        *)
BatchAdvances ==
  [][pc = "sleeping" /\ pc' = "batch" =>
       \A a \in rows \ (done \union dropped) :
         \/ a \in todo'
         \/ \E m \in batch' : born[m] - Overlap > watermark
         \/ Jammed(a)]_vars

(* An alert that raises at every attempt, none newer than the alert: the   *)
(* cycle can end there each time, before it moves the watermark.           *)
Obstructed(a) == \E r \in rows \intersect Raising : born[r] <= born[a]

(* The alerts that should still be processed.                              *)
Waiting == {a \in rows \ (Raising \union done \union dropped) : ~Crowded(a) /\ ~Obstructed(a)}

(* Every alert that can be enriched is processed, unless the loop went on  *)
(* without it, or a burst or an alert that always raises stands in front   *)
(* of it: late commits, passing failures, restarts and other replicas do   *)
(* not stop it.                                                            *)
Served == Waiting # {} ~> Waiting = {}

(* "Each alert is processed exactly once ... re-running the same events    *)
(* would duplicate incidents" (module docstring): the correlation is not   *)
(* run on an alert whose incidents are committed.                          *)
CorrelatedOnce == pc = "correlating" => pending \intersect grouped = {}
=============================================================================
