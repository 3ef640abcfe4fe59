------------------------- MODULE AlertPipelineProofs -------------------------
(***************************************************************************)
(* Proofs about AlertPipeline.  The inductive invariant says of every copy *)
(* of a document, committed or held by a session, that what it claims has  *)
(* happened (DocumentInv); that no alert the batch left out is behind the  *)
(* place the watermark will take (WatermarkInv); and where the one AI task *)
(* of an alert whose row lost none, and that no two pipelines had in a     *)
(* batch at once, is recorded (TaskInv).                                   *)
(***************************************************************************)
EXTENDS AlertPipeline, FiniteSetTheorems, TLAPS

(* What a document anybody holds says has happened.                        *)
Truthful(a, doc) ==
  /\ "processed_at" \in doc /\ a \in Severe => "ai_task_id" \in doc
  /\ "processed_at" \in doc => a \in done
  /\ "ai_task_id" \in doc => tasks[a] >= 1
  /\ "correlated_at" \in doc => a \in grouped

(* The committed row, the pipeline's copy, the backfills' copies and those *)
(* of the pipelines of other replicas.                                     *)
DocumentInv ==
  /\ \A a \in Alerts : Truthful(a, raw[a]) /\ Truthful(a, seen[a])
  /\ \A a \in Alerts : \A doc \in fills[a] : Truthful(a, doc)
  /\ \A v \in Visits : stage[v] \notin {"none", "over"} => Truthful(visited[v], copy[v])
  /\ \A v \in Visits : stage[v] = "submitted" => tasks[visited[v]] >= 1
  /\ \A v \in Visits : stage[v] = "grouped" => visited[v] \in grouped
  /\ pc = "submitted" => current \in todo /\ tasks[current] >= 1
  /\ pc = "correlated" => pending \subseteq grouped

(* Nothing the batch left out is behind the place the watermark will take. *)
WatermarkInv ==
  /\ NoneLeftBehind
  /\ watermark <= 0 \/ watermark <= now - Overlap
  /\ batch \subseteq rows
  /\ \A a \in rows : born[a] <= now
  /\ \A a \in rows, m \in batch :
       born[a] >= watermark /\ born[a] < born[m] - Overlap => a \in batch
  /\ batch \ todo \subseteq done \union dropped

(* One pipeline at a time has the alert in hand; a task that was submitted *)
(* and not lost is in that hand, or in the row and in every copy such a    *)
(* hand will still write.                                                  *)
TaskInv ==
  \A a \in Alerts \ (unmarked \union contested) :
    /\ tasks[a] <= 1
    /\ a \in todo => \A v \in Visits : ~Holds(v, a)
    /\ \A v, w \in Visits : Holds(v, a) /\ Holds(w, a) => v = w
    /\ tasks[a] = 1 =>
         \/ current = a
         \/ \E v \in Visits : Holds(v, a) /\ stage[v] = "submitted"
         \/ "ai_task_id" \in raw[a]
    /\ tasks[a] = 1 /\ a \in todo => current = a \/ "ai_task_id" \in seen[a]
    /\ \A v \in Visits :
         tasks[a] = 1 /\ Holds(v, a) /\ stage[v] = "loaded" => "ai_task_id" \in copy[v]

(* Where the coroutine is suspended.                                       *)
LoopInv ==
  /\ pc \notin {"batch", "submitted"} => batch = {} /\ todo = {}
  /\ pc \notin {"correlating", "correlated"} => pending = {}

PipelineInv == TypeOK /\ LoopInv /\ DocumentInv /\ WatermarkInv /\ TaskInv

-----------------------------------------------------------------------------
LEMMA LoadedType ==
  ASSUME TypeOK, NEW S
  PROVE  Loaded(S) \in [Alerts -> Documents]
  BY DEF TypeOK, Loaded, Documents

LEMMA ClosedType ==
  ASSUME TypeOK, CloseSession
  PROVE  /\ (batch \in SUBSET Alerts /\ todo \in SUBSET batch)'
         /\ (seen \in [Alerts -> Documents] /\ txn \in BOOLEAN)'
         /\ batch' = {} /\ todo' = {}
  BY LoadedType DEF CloseSession

LEMMA MarkType ==
  ASSUME TypeOK, NEW mark \in Followed \union {watermark}
  PROVE  mark \in Int /\ Settled(mark) \in Int /\ Settled(mark) <= mark
  BY PipelineAssumption DEF TypeOK, Followed, Latest, Settled, Lesser

LEMMA TypeStep ==
  ASSUME TypeOK, LoopInv, [Next]_vars
  PROVE  TypeOK' /\ LoopInv'
  <1> USE PipelineAssumption, LagAssumption
  <1>1. ASSUME NEW a \in Alerts, Insert(a)
        PROVE  TypeOK' /\ LoopInv'
    BY <1>1 DEF TypeOK, LoopInv, Documents, Keys, PipelineKeys, Steps, Stages, Insert,
         alertVars, loopVars, historyVars, visitVars
  <1>2. CASE Tick
    BY <1>2 DEF TypeOK, LoopInv, Documents, Keys, PipelineKeys, Steps, Stages, Tick,
         alertVars, loopVars, historyVars, visitVars
  <1>3. CASE LoadBatch
    BY <1>3 DEF TypeOK, LoopInv, Documents, Keys, PipelineKeys, Steps, Stages,
         LoadBatch, Selection, Eligible, Unprocessed, Loaded, alertVars,
         loopVars, historyVars, visitVars
  <1>4. CASE CommitTriaged
    BY <1>4 DEF TypeOK, LoopInv, Documents, Keys, PipelineKeys, Steps, Stages,
         CommitTriaged, WriteAlert, alertVars, loopVars, historyVars, visitVars
  <1>5. ASSUME NEW a \in Alerts, SubmitTask(a)
        PROVE  TypeOK' /\ LoopInv'
    BY <1>5 DEF TypeOK, LoopInv, Documents, Keys, PipelineKeys, Steps, Stages,
         SubmitTask, Upcoming, Earliest, NeedsTask, alertVars, loopVars,
         historyVars, visitVars
  <1>6. ASSUME NEW a \in Alerts, CommitAlert(a)
        PROVE  TypeOK' /\ LoopInv'
    BY <1>6 DEF TypeOK, LoopInv, Documents, Keys, PipelineKeys, Steps, Stages,
         CommitAlert, WriteAlert, Upcoming, Earliest, NeedsTask, alertVars,
         loopVars, historyVars, visitVars
  <1>7. CASE NothingToCorrelate
    BY <1>7, ClosedType, MarkType DEF TypeOK, LoopInv, Steps, Stages,
         NothingToCorrelate, BatchDone, alertVars, loopVars, historyVars, visitVars
  <1>8. CASE LoadForCorrelation
    BY <1>8, LoadedType, MarkType DEF TypeOK, LoopInv, Steps, Stages,
         LoadForCorrelation, BatchDone, Uncorrelated, alertVars, loopVars,
         historyVars, visitVars
  <1>9. CASE CommitIncidents
    BY <1>9 DEF TypeOK, LoopInv, Documents, Keys, PipelineKeys, Steps, Stages,
         CommitIncidents, alertVars, loopVars, historyVars, visitVars
  <1>10. CASE MarkCorrelated
    <2>1. raw' \in [Alerts -> Documents]
      BY <1>10 DEF TypeOK, Documents, Keys, PipelineKeys, MarkCorrelated
    <2> QED
      BY <1>10, <2>1, ClosedType, MarkType DEF TypeOK, LoopInv, Steps, Stages, MarkCorrelated,
         alertVars, historyVars, visitVars
  <1>11. ASSUME NEW a \in Alerts, ReadForBackfill(a)
        PROVE  TypeOK' /\ LoopInv'
    BY <1>11 DEF TypeOK, LoopInv, Documents, Keys, PipelineKeys, Steps, Stages,
         ReadForBackfill, alertVars, loopVars, historyVars, visitVars
  <1>12. ASSUME NEW a \in Alerts, NEW doc \in SUBSET Keys, CommitBackfill(a, doc)
        PROVE  TypeOK' /\ LoopInv'
    BY <1>12 DEF TypeOK, LoopInv, Documents, Keys, PipelineKeys, Steps, Stages,
         CommitBackfill, alertVars, loopVars, historyVars, visitVars
  <1>13. ASSUME NEW a \in Alerts, AttemptFails(a)
        PROVE  TypeOK' /\ LoopInv'
    BY <1>13, ClosedType DEF TypeOK, LoopInv, Steps, Stages, AttemptFails, Fail, Fault,
         Upcoming, Earliest, alertVars, loopVars, historyVars, visitVars
  <1>14. ASSUME NEW a \in Alerts, CommitFails(a)
        PROVE  TypeOK' /\ LoopInv'
    BY <1>14, ClosedType DEF TypeOK, LoopInv, Steps, Stages, CommitFails, Fail, Fault,
         Upcoming, alertVars, loopVars, historyVars, visitVars
  <1>15. CASE CorrelationFails
    BY <1>15, ClosedType DEF Fault, TypeOK, LoopInv, Steps, Stages, CorrelationFails,
         alertVars, loopVars, historyVars, visitVars
  <1>16. CASE Restart
    BY <1>16, ClosedType DEF Fault, TypeOK, LoopInv, Steps, Stages, Restart, alertVars,
         loopVars, historyVars, visitVars
  <1>17. CASE UNCHANGED vars
    BY <1>17 DEF TypeOK, LoopInv, Documents, Keys, PipelineKeys, Steps, Stages, vars,
         alertVars, loopVars, historyVars, visitVars
  <1>18. ASSUME NEW v \in Visits, NEW a \in Alerts, VisitLoads(v, a)
        PROVE  TypeOK' /\ LoopInv'
    BY <1>18 DEF TypeOK, LoopInv, Documents, Keys, PipelineKeys, Steps,
         Stages, VisitLoads, Fault, alertVars, loopVars, historyVars
  <1>19. ASSUME NEW v \in Visits, VisitSubmits(v)
        PROVE  TypeOK' /\ LoopInv'
    BY <1>19 DEF TypeOK, LoopInv, Documents, Keys, PipelineKeys, Steps,
         Stages, VisitSubmits, alertVars, loopVars, historyVars
  <1>20. ASSUME NEW v \in Visits, VisitCommits(v)
        PROVE  TypeOK' /\ LoopInv'
    BY <1>20 DEF TypeOK, LoopInv, Documents, Keys, PipelineKeys, Steps,
         Stages, VisitCommits, VisitWrites, alertVars, loopVars, historyVars
  <1>21. ASSUME NEW v \in Visits, NEW a \in Alerts, VisitPends(v, a)
        PROVE  TypeOK' /\ LoopInv'
    BY <1>21 DEF TypeOK, LoopInv, Documents, Keys, PipelineKeys, Steps,
         Stages, VisitPends, Uncorrelated, Fault, alertVars, loopVars,
         historyVars
  <1>22. ASSUME NEW v \in Visits, VisitGroups(v)
        PROVE  TypeOK' /\ LoopInv'
    BY <1>22 DEF TypeOK, LoopInv, Documents, Keys, PipelineKeys, Steps,
         Stages, VisitGroups, alertVars, loopVars, historyVars
  <1>23. ASSUME NEW v \in Visits, VisitMarks(v)
        PROVE  TypeOK' /\ LoopInv'
    BY <1>23 DEF TypeOK, LoopInv, Documents, Keys, PipelineKeys, Steps,
         Stages, VisitMarks, VisitWrites, alertVars, loopVars, historyVars
  <1> QED
    BY <1>1, <1>2, <1>3, <1>4, <1>5, <1>6, <1>7, <1>8, <1>9, <1>10, <1>11,
         <1>12, <1>13, <1>14, <1>15, <1>16, <1>17, <1>18, <1>19, <1>20, <1>21,
         <1>22, <1>23 DEF Next, Pipeline, Faults, Others

(* A visit of another pipeline that writes a truthful document keeps every *)
(* document truthful, as long as what the documents speak of stays true.   *)
LEMMA VisitWriteKeepsDocuments ==
  ASSUME TypeOK, DocumentInv, TypeOK',
         NEW v \in Visits, NEW doc \in SUBSET Keys, NEW b \in Alerts,
         b = visited[v], VisitWrites(v, doc), Truthful(b, doc)',
         UNCHANGED <<tasks, grouped>>, done \subseteq done'
  PROVE  DocumentInv'
  <1> USE PipelineAssumption
  <1>1. UNCHANGED <<seen, fills, pc, current, todo, pending>>
    BY DEF VisitWrites, loopVars
  <1>2. raw' = [raw EXCEPT ![b] = doc] /\ stage' = [stage EXCEPT ![v] = "over"]
    BY DEF VisitWrites
  <1>3. ASSUME NEW a \in Alerts, NEW d, Truthful(a, d)
        PROVE  Truthful(a, d)'
    BY <1>3 DEF Truthful
  <1>4. \A a \in Alerts : Truthful(a, raw[a])' /\ Truthful(a, seen[a])'
    <2> TAKE a \in Alerts
    <2>1. Truthful(a, seen[a])'
      BY <1>1, <1>3 DEF DocumentInv, Truthful
    <2>2. CASE a = b
      BY <1>1, <1>2, <2>1, <2>2 DEF TypeOK, Truthful
    <2>3. CASE a # b
      <3>1. raw'[a] = raw[a]
        BY <1>2, <2>3 DEF TypeOK
      <3> QED
        BY <1>3, <2>1, <3>1 DEF DocumentInv, Truthful
    <2> QED
      BY <2>2, <2>3
  <1>5. \A a \in Alerts : \A d \in fills'[a] : Truthful(a, d)'
    BY <1>1, <1>3 DEF DocumentInv
  <1>6. \A w \in Visits :
           stage'[w] # "over" =>
             stage'[w] = stage[w] /\ visited'[w] = visited[w] /\ copy'[w] = copy[w]
    BY <1>2 DEF TypeOK, VisitWrites
  <1>7. \A w \in Visits : stage'[w] \notin {"none", "over"} => Truthful(visited[w], copy[w])'
    BY <1>1, <1>3, <1>6 DEF DocumentInv, Truthful, TypeOK
  <1>8. (\A w \in Visits : stage[w] = "submitted" => tasks[visited[w]] >= 1)'
        /\ (\A w \in Visits : stage[w] = "grouped" => visited[w] \in grouped)'
    BY <1>1, <1>6 DEF DocumentInv
  <1>9. (pc = "submitted" => current \in todo /\ tasks[current] >= 1)'
        /\ (pc = "correlated" => pending \subseteq grouped)'
    BY <1>1 DEF DocumentInv
  <1> QED
    BY <1>4, <1>5, <1>7, <1>8, <1>9 DEF DocumentInv, Truthful

LEMMA DocumentStep ==
  ASSUME TypeOK, LoopInv, DocumentInv, TypeOK', [Next]_vars
  PROVE  DocumentInv'
  <1> USE PipelineAssumption, LagAssumption
  <1>1. ASSUME NEW a \in Alerts, Insert(a)
        PROVE  DocumentInv'
    BY <1>1 DEF TypeOK, LoopInv, DocumentInv, Truthful, Insert, alertVars,
         loopVars, historyVars, visitVars
  <1>2. CASE Tick
    BY <1>2 DEF TypeOK, LoopInv, DocumentInv, Truthful, Tick, alertVars,
         loopVars, historyVars, visitVars
  <1>3. CASE LoadBatch
    BY <1>3 DEF TypeOK, LoopInv, DocumentInv, Truthful, LoadBatch, Selection,
         Eligible, Unprocessed, Loaded, alertVars, loopVars, historyVars, visitVars
  <1>4. CASE CommitTriaged
    BY <1>4 DEF TypeOK, LoopInv, DocumentInv, Truthful, CommitTriaged,
         WriteAlert, alertVars, loopVars, historyVars, visitVars
  <1>5. ASSUME NEW a \in Alerts, SubmitTask(a)
        PROVE  DocumentInv'
    BY <1>5 DEF TypeOK, LoopInv, DocumentInv, Truthful, SubmitTask, Upcoming,
         Earliest, NeedsTask, alertVars, loopVars, historyVars, visitVars
  <1>6. ASSUME NEW a \in Alerts, CommitAlert(a)
        PROVE  DocumentInv'
    BY <1>6 DEF TypeOK, LoopInv, DocumentInv, Truthful, CommitAlert, WriteAlert,
         Upcoming, Earliest, NeedsTask, alertVars, loopVars, historyVars, visitVars
  <1>7. CASE NothingToCorrelate
    BY <1>7 DEF TypeOK, LoopInv, DocumentInv, Truthful, NothingToCorrelate,
         BatchDone, Followed, Settled, Lesser, CloseSession, Loaded, Latest,
         alertVars, loopVars, historyVars, visitVars
  <1>8. CASE LoadForCorrelation
    BY <1>8 DEF TypeOK, LoopInv, DocumentInv, Truthful, LoadForCorrelation,
         BatchDone, Followed, Uncorrelated, Loaded, Latest, alertVars, loopVars,
         historyVars, visitVars
  <1>9. CASE CommitIncidents
    BY <1>9 DEF TypeOK, LoopInv, DocumentInv, Truthful, CommitIncidents,
         alertVars, loopVars, historyVars, visitVars
  <1>10. CASE MarkCorrelated
    BY <1>10 DEF TypeOK, LoopInv, DocumentInv, Truthful, MarkCorrelated,
         Settled, Lesser, CloseSession, Loaded, HasPipeline, PipelineKeys,
         alertVars, loopVars, historyVars, visitVars
  <1>11. ASSUME NEW a \in Alerts, ReadForBackfill(a)
        PROVE  DocumentInv'
    BY <1>11 DEF TypeOK, LoopInv, DocumentInv, Truthful, ReadForBackfill,
         alertVars, loopVars, historyVars, visitVars
  <1>12. ASSUME NEW a \in Alerts, NEW doc \in SUBSET Keys, CommitBackfill(a, doc)
        PROVE  DocumentInv'
    BY <1>12 DEF TypeOK, LoopInv, DocumentInv, Truthful, CommitBackfill,
         alertVars, loopVars, historyVars, visitVars
  <1>13. ASSUME NEW a \in Alerts, AttemptFails(a)
        PROVE  DocumentInv'
    BY <1>13 DEF TypeOK, LoopInv, DocumentInv, Truthful, AttemptFails, Fail, Fault,
         CloseSession, Upcoming, Earliest, Loaded, alertVars, loopVars,
         historyVars, visitVars
  <1>14. ASSUME NEW a \in Alerts, CommitFails(a)
        PROVE  DocumentInv'
    BY <1>14 DEF TypeOK, LoopInv, DocumentInv, Truthful, CommitFails, Fail, Fault,
         CloseSession, Upcoming, Earliest, NeedsTask, Loaded, alertVars,
         loopVars, historyVars, visitVars
  <1>15. CASE CorrelationFails
    BY <1>15 DEF Fault, TypeOK, LoopInv, DocumentInv, Truthful, CorrelationFails,
         CloseSession, Loaded, alertVars, loopVars, historyVars, visitVars
  <1>16. CASE Restart
    BY <1>16 DEF Fault, TypeOK, LoopInv, DocumentInv, Truthful, Restart, CloseSession,
         Loaded, alertVars, loopVars, historyVars, visitVars
  <1>17. CASE UNCHANGED vars
    BY <1>17 DEF TypeOK, LoopInv, DocumentInv, Truthful, vars, alertVars,
         loopVars, historyVars, visitVars
  <1>18. ASSUME NEW v \in Visits, NEW a \in Alerts, VisitLoads(v, a)
        PROVE  DocumentInv'
    BY <1>18 DEF TypeOK, DocumentInv, Truthful, VisitLoads, Fault, alertVars,
         loopVars, historyVars
  <1>19. ASSUME NEW v \in Visits, VisitSubmits(v)
        PROVE  DocumentInv'
    BY <1>19 DEF TypeOK, DocumentInv, Truthful, VisitSubmits, alertVars,
         loopVars, historyVars
  <1>20. ASSUME NEW v \in Visits, VisitCommits(v)
        PROVE  DocumentInv'
    <2>1. PICK b \in Alerts : b = visited[v]
      BY <1>20 DEF TypeOK, VisitCommits
    <2>2. b \in done' /\ done \subseteq done' /\ UNCHANGED <<tasks, grouped>>
      BY <1>20, <2>1 DEF VisitCommits, VisitWrites
    <2>3. stage[v] \in {"loaded", "submitted"}
      BY <1>20 DEF VisitCommits
    <2>4. Truthful(b, copy[v]) /\ copy[v] \in SUBSET Keys
      BY <2>1, <2>3 DEF DocumentInv, TypeOK, Documents
    <2>5. CASE stage[v] = "loaded"
      <3>0. PICK doc \in SUBSET Keys : doc = copy[v] \union {"threat_intel", "processed_at"}
        BY <2>4 DEF Keys, PipelineKeys
      <3>1. VisitWrites(v, doc) /\ (b \in Severe => "ai_task_id" \in copy[v])
        BY <1>20, <2>1, <2>5, <3>0 DEF VisitCommits
      <3>2. Truthful(b, doc)'
        BY <2>2, <2>4, <3>0, <3>1 DEF Truthful
      <3> QED
        BY <2>1, <2>2, <3>1, <3>2, VisitWriteKeepsDocuments
    <2>6. CASE stage[v] = "submitted"
      <3>0. PICK doc \in SUBSET Keys :
              doc = copy[v] \union {"threat_intel", "processed_at", "ai_task_id"}
        BY <2>4 DEF Keys, PipelineKeys
      <3>1. VisitWrites(v, doc) /\ tasks[b] >= 1
        BY <1>20, <2>1, <2>6, <3>0 DEF VisitCommits, DocumentInv
      <3>2. Truthful(b, doc)'
        BY <2>2, <2>4, <3>0, <3>1 DEF Truthful
      <3> QED
        BY <2>1, <2>2, <3>1, <3>2, VisitWriteKeepsDocuments
    <2> QED
      BY <2>3, <2>5, <2>6
  <1>21. ASSUME NEW v \in Visits, NEW a \in Alerts, VisitPends(v, a)
        PROVE  DocumentInv'
    BY <1>21 DEF TypeOK, DocumentInv, Truthful, VisitPends, Uncorrelated,
         Fault, alertVars, loopVars, historyVars
  <1>22. ASSUME NEW v \in Visits, VisitGroups(v)
        PROVE  DocumentInv'
    BY <1>22 DEF TypeOK, DocumentInv, Truthful, VisitGroups, alertVars,
         loopVars, historyVars
  <1>23. ASSUME NEW v \in Visits, VisitMarks(v)
        PROVE  DocumentInv'
    <2>1. PICK b \in Alerts : b = visited[v]
      BY <1>23 DEF TypeOK, VisitMarks
    <2>2. b \in grouped /\ Truthful(b, copy[v]) /\ copy[v] \in SUBSET Keys
      BY <1>23, <2>1 DEF VisitMarks, DocumentInv, TypeOK, Documents
    <2>3. PICK doc \in SUBSET Keys : doc = copy[v] \union {"correlated_at"}
      BY <2>2 DEF Keys, PipelineKeys
    <2>4. VisitWrites(v, doc) /\ UNCHANGED <<tasks, grouped, done>>
      BY <1>23, <2>3 DEF VisitMarks, VisitWrites
    <2>5. Truthful(b, doc)'
      BY <2>2, <2>3, <2>4 DEF Truthful
    <2> QED
      BY <2>1, <2>4, <2>5, VisitWriteKeepsDocuments
  <1> QED
    BY <1>1, <1>2, <1>3, <1>4, <1>5, <1>6, <1>7, <1>8, <1>9, <1>10, <1>11,
         <1>12, <1>13, <1>14, <1>15, <1>16, <1>17, <1>18, <1>19, <1>20, <1>21,
         <1>22, <1>23 DEF Next, Pipeline, Faults, Others

LEMMA WatermarkStep ==
  ASSUME TypeOK, LoopInv, DocumentInv, WatermarkInv, TypeOK', [Next]_vars
  PROVE  WatermarkInv'
  <1> USE PipelineAssumption, LagAssumption
  <1>1. ASSUME NEW a \in Alerts, Insert(a)
        PROVE  WatermarkInv'
    <2> PICK t \in 0 .. now : t >= now - CommitLag /\ born' = [born EXCEPT ![a] = t]
      BY <1>1 DEF Insert
    <2>1. \A b \in rows : born'[b] = born[b]
      BY <1>1 DEF Insert, TypeOK
    <2>2. born'[a] = t /\ t \in Int /\ t <= now
      BY DEF TypeOK
    <2>3. t >= watermark /\ t >= now - Overlap
      BY DEF TypeOK, WatermarkInv
    <2>4. NoneLeftBehind'
      BY <1>1, <2>1, <2>2, <2>3 DEF Insert, TypeOK, WatermarkInv,
           NoneLeftBehind, loopVars, historyVars, visitVars
    <2>5. (watermark <= 0 \/ watermark <= now - Overlap)' /\ (batch \subseteq rows)'
          /\ (\A b \in rows : born[b] <= now)' /\ (batch \ todo \subseteq done \union dropped)'
      BY <1>1, <2>1, <2>2 DEF Insert, WatermarkInv, loopVars, historyVars, visitVars
    <2>6. ASSUME NEW b \in rows', NEW m \in batch',
                 born'[b] >= watermark', born'[b] < born'[m] - Overlap
          PROVE  b \in batch'
      <3>1. m \in batch /\ m \in rows /\ born'[m] = born[m] /\ born[m] <= now /\ born[m] \in Int
        BY <1>1, <2>1, <2>6 DEF Insert, WatermarkInv, TypeOK, loopVars
      <3>2. b # a
        BY <2>2, <2>3, <2>6, <3>1 DEF TypeOK
      <3> QED BY <1>1, <2>1, <2>6, <3>1, <3>2 DEF Insert, WatermarkInv, loopVars
    <2> QED BY <2>4, <2>5, <2>6 DEF WatermarkInv
  <1>2. CASE Tick
    BY <1>2 DEF TypeOK, LoopInv, DocumentInv, Truthful, WatermarkInv,
         NoneLeftBehind, Tick, alertVars, loopVars, historyVars, visitVars
  <1>3. CASE LoadBatch
    BY <1>3 DEF TypeOK, LoopInv, DocumentInv, Truthful, WatermarkInv,
         NoneLeftBehind, LoadBatch, Selection, Eligible, Unprocessed, Loaded,
         alertVars, loopVars, historyVars, visitVars
  <1>4. CASE CommitTriaged
    BY <1>4 DEF TypeOK, LoopInv, DocumentInv, Truthful, WatermarkInv,
         NoneLeftBehind, CommitTriaged, WriteAlert, alertVars, loopVars,
         historyVars, visitVars
  <1>5. ASSUME NEW a \in Alerts, SubmitTask(a)
        PROVE  WatermarkInv'
    BY <1>5 DEF TypeOK, LoopInv, DocumentInv, Truthful, WatermarkInv,
         NoneLeftBehind, SubmitTask, Upcoming, Earliest, NeedsTask, alertVars,
         loopVars, historyVars, visitVars
  <1>6. ASSUME NEW a \in Alerts, CommitAlert(a)
        PROVE  WatermarkInv'
    BY <1>6 DEF TypeOK, LoopInv, DocumentInv, Truthful, WatermarkInv,
         NoneLeftBehind, CommitAlert, WriteAlert, Upcoming, Earliest, NeedsTask,
         alertVars, loopVars, historyVars, visitVars
  <1>7. CASE NothingToCorrelate
    BY <1>7 DEF TypeOK, LoopInv, DocumentInv, Truthful, WatermarkInv,
         NoneLeftBehind, NothingToCorrelate, BatchDone, Followed, Settled,
         Lesser, CloseSession, Loaded, Latest, alertVars, loopVars, historyVars, visitVars
  <1>8. CASE LoadForCorrelation
    BY <1>8 DEF TypeOK, LoopInv, DocumentInv, Truthful, WatermarkInv,
         NoneLeftBehind, LoadForCorrelation, BatchDone, Followed, Uncorrelated,
         Loaded, Latest, alertVars, loopVars, historyVars, visitVars
  <1>9. CASE CommitIncidents
    BY <1>9 DEF TypeOK, LoopInv, DocumentInv, Truthful, WatermarkInv,
         NoneLeftBehind, CommitIncidents, alertVars, loopVars, historyVars, visitVars
  <1>10. CASE MarkCorrelated
    BY <1>10 DEF TypeOK, LoopInv, DocumentInv, Truthful, WatermarkInv,
         NoneLeftBehind, MarkCorrelated, Settled, Lesser, CloseSession, Loaded,
         HasPipeline, PipelineKeys, alertVars, loopVars, historyVars, visitVars
  <1>11. ASSUME NEW a \in Alerts, ReadForBackfill(a)
        PROVE  WatermarkInv'
    BY <1>11 DEF TypeOK, LoopInv, DocumentInv, Truthful, WatermarkInv,
         NoneLeftBehind, ReadForBackfill, alertVars, loopVars, historyVars, visitVars
  <1>12. ASSUME NEW a \in Alerts, NEW doc \in SUBSET Keys, CommitBackfill(a, doc)
        PROVE  WatermarkInv'
    BY <1>12 DEF TypeOK, LoopInv, DocumentInv, Truthful, WatermarkInv,
         NoneLeftBehind, CommitBackfill, alertVars, loopVars, historyVars, visitVars
  <1>13. ASSUME NEW a \in Alerts, AttemptFails(a)
        PROVE  WatermarkInv'
    BY <1>13 DEF TypeOK, LoopInv, DocumentInv, Truthful, WatermarkInv,
         NoneLeftBehind, AttemptFails, Fail, Fault, CloseSession, Upcoming, Earliest,
         Loaded, alertVars, loopVars, historyVars, visitVars
  <1>14. ASSUME NEW a \in Alerts, CommitFails(a)
        PROVE  WatermarkInv'
    BY <1>14 DEF TypeOK, LoopInv, DocumentInv, Truthful, WatermarkInv,
         NoneLeftBehind, CommitFails, Fail, Fault, CloseSession, Upcoming, Earliest,
         NeedsTask, Loaded, alertVars, loopVars, historyVars, visitVars
  <1>15. CASE CorrelationFails
    BY <1>15 DEF Fault, TypeOK, LoopInv, DocumentInv, Truthful, WatermarkInv,
         NoneLeftBehind, CorrelationFails, CloseSession, Loaded, alertVars,
         loopVars, historyVars, visitVars
  <1>16. CASE Restart
    BY <1>16 DEF Fault, TypeOK, LoopInv, DocumentInv, Truthful, WatermarkInv,
         NoneLeftBehind, Restart, CloseSession, Loaded, alertVars, loopVars,
         historyVars, visitVars
  <1>17. CASE UNCHANGED vars
    BY <1>17 DEF TypeOK, LoopInv, DocumentInv, Truthful, WatermarkInv,
         NoneLeftBehind, vars, alertVars, loopVars, historyVars, visitVars
  <1>18. ASSUME NEW v \in Visits, NEW a \in Alerts, VisitLoads(v, a)
        PROVE  WatermarkInv'
    BY <1>18 DEF TypeOK, WatermarkInv, NoneLeftBehind, VisitLoads, Fault,
         alertVars, loopVars, historyVars
  <1>19. ASSUME NEW v \in Visits, VisitSubmits(v)
        PROVE  WatermarkInv'
    BY <1>19 DEF TypeOK, WatermarkInv, NoneLeftBehind, VisitSubmits,
         alertVars, loopVars, historyVars
  <1>20. ASSUME NEW v \in Visits, VisitCommits(v)
        PROVE  WatermarkInv'
    <2>1. /\ UNCHANGED <<now, born, rows, watermark, batch, todo, dropped>>
          /\ done \subseteq done'
      BY <1>20 DEF VisitCommits, VisitWrites, alertVars, loopVars
    <2> QED
      BY <2>1 DEF WatermarkInv, NoneLeftBehind
  <1>21. ASSUME NEW v \in Visits, NEW a \in Alerts, VisitPends(v, a)
        PROVE  WatermarkInv'
    BY <1>21 DEF TypeOK, WatermarkInv, NoneLeftBehind, VisitPends,
         Uncorrelated, Fault, alertVars, loopVars, historyVars
  <1>22. ASSUME NEW v \in Visits, VisitGroups(v)
        PROVE  WatermarkInv'
    BY <1>22 DEF TypeOK, WatermarkInv, NoneLeftBehind, VisitGroups, alertVars,
         loopVars, historyVars
  <1>23. ASSUME NEW v \in Visits, VisitMarks(v)
        PROVE  WatermarkInv'
    BY <1>23 DEF TypeOK, WatermarkInv, NoneLeftBehind, VisitMarks,
         VisitWrites, alertVars, loopVars, historyVars
  <1> QED
    BY <1>1, <1>2, <1>3, <1>4, <1>5, <1>6, <1>7, <1>8, <1>9, <1>10, <1>11,
         <1>12, <1>13, <1>14, <1>15, <1>16, <1>17, <1>18, <1>19, <1>20, <1>21,
         <1>22, <1>23 DEF Next, Pipeline, Faults, Others

LEMMA TaskStep ==
  ASSUME TypeOK, LoopInv, DocumentInv, TaskInv, TypeOK', [Next]_vars
  PROVE  TaskInv'
  <1> USE PipelineAssumption, LagAssumption
  <1>1. ASSUME NEW a \in Alerts, Insert(a)
        PROVE  TaskInv'
    BY <1>1 DEF TypeOK, LoopInv, DocumentInv, Truthful, TaskInv, Holds, Loses, Insert,
         alertVars, loopVars, historyVars, visitVars
  <1>2. CASE Tick
    BY <1>2 DEF TypeOK, LoopInv, DocumentInv, Truthful, TaskInv, Holds, Loses, Tick,
         alertVars, loopVars, historyVars, visitVars
  <1>3. CASE LoadBatch
    BY <1>3 DEF TypeOK, LoopInv, DocumentInv, Truthful, TaskInv, Holds, Loses, LoadBatch,
         Selection, Eligible, Unprocessed, Loaded, alertVars, loopVars,
         historyVars, visitVars
  <1>4. CASE CommitTriaged
    BY <1>4 DEF TypeOK, LoopInv, DocumentInv, Truthful, TaskInv, Holds, Loses, CommitTriaged,
         WriteAlert, alertVars, loopVars, historyVars, visitVars
  <1>5. ASSUME NEW a \in Alerts, SubmitTask(a)
        PROVE  TaskInv'
    BY <1>5 DEF TypeOK, LoopInv, DocumentInv, Truthful, TaskInv, Holds, Loses, SubmitTask,
         Upcoming, Earliest, NeedsTask, alertVars, loopVars, historyVars, visitVars
  <1>6. ASSUME NEW a \in Alerts, CommitAlert(a)
        PROVE  TaskInv'
    BY <1>6 DEF TypeOK, LoopInv, DocumentInv, Truthful, TaskInv, Holds, Loses, CommitAlert,
         WriteAlert, Upcoming, Earliest, NeedsTask, alertVars, loopVars,
         historyVars, visitVars
  <1>7. CASE NothingToCorrelate
    BY <1>7 DEF TypeOK, LoopInv, DocumentInv, Truthful, TaskInv, Holds, Loses,
         NothingToCorrelate, BatchDone, Followed, Settled, Lesser, CloseSession,
         Loaded, Latest, alertVars, loopVars, historyVars, visitVars
  <1>8. CASE LoadForCorrelation
    BY <1>8 DEF TypeOK, LoopInv, DocumentInv, Truthful, TaskInv, Holds, Loses,
         LoadForCorrelation, BatchDone, Followed, Uncorrelated, Loaded, Latest,
         alertVars, loopVars, historyVars, visitVars
  <1>9. CASE CommitIncidents
    BY <1>9 DEF TypeOK, LoopInv, DocumentInv, Truthful, TaskInv, Holds, Loses,
         CommitIncidents, alertVars, loopVars, historyVars, visitVars
  <1>10. CASE MarkCorrelated
    BY <1>10 DEF TypeOK, LoopInv, DocumentInv, Truthful, TaskInv, Holds, Loses,
         MarkCorrelated, Settled, Lesser, CloseSession, Loaded, HasPipeline,
         PipelineKeys, alertVars, loopVars, historyVars, visitVars
  <1>11. ASSUME NEW a \in Alerts, ReadForBackfill(a)
        PROVE  TaskInv'
    BY <1>11 DEF TypeOK, LoopInv, DocumentInv, Truthful, TaskInv, Holds, Loses,
         ReadForBackfill, alertVars, loopVars, historyVars, visitVars
  <1>12. ASSUME NEW a \in Alerts, NEW doc \in SUBSET Keys, CommitBackfill(a, doc)
        PROVE  TaskInv'
    BY <1>12 DEF TypeOK, LoopInv, DocumentInv, Truthful, TaskInv, Holds, Loses,
         CommitBackfill, alertVars, loopVars, historyVars, visitVars
  <1>13. ASSUME NEW a \in Alerts, AttemptFails(a)
        PROVE  TaskInv'
    BY <1>13 DEF TypeOK, LoopInv, DocumentInv, Truthful, TaskInv, Holds, Loses, AttemptFails,
         Fail, Fault, CloseSession, Upcoming, Earliest, Loaded, alertVars, loopVars,
         historyVars, visitVars
  <1>14. ASSUME NEW a \in Alerts, CommitFails(a)
        PROVE  TaskInv'
    BY <1>14 DEF TypeOK, LoopInv, DocumentInv, Truthful, TaskInv, Holds, Loses, CommitFails,
         Fail, Fault, CloseSession, Upcoming, Earliest, NeedsTask, Loaded, alertVars,
         loopVars, historyVars, visitVars
  <1>15. CASE CorrelationFails
    BY <1>15 DEF Fault, TypeOK, LoopInv, DocumentInv, Truthful, TaskInv, Holds, Loses,
         CorrelationFails, CloseSession, Loaded, alertVars, loopVars,
         historyVars, visitVars
  <1>16. CASE Restart
    BY <1>16 DEF Fault, TypeOK, LoopInv, DocumentInv, Truthful, TaskInv, Holds, Loses, Restart,
         CloseSession, Loaded, alertVars, loopVars, historyVars, visitVars
  <1>17. CASE UNCHANGED vars
    BY <1>17 DEF TypeOK, LoopInv, DocumentInv, Truthful, TaskInv, Holds, Loses, vars,
         alertVars, loopVars, historyVars, visitVars
  <1>18. ASSUME NEW v \in Visits, NEW a \in Alerts, VisitLoads(v, a)
        PROVE  TaskInv'
    BY <1>18 DEF TypeOK, LoopInv, DocumentInv, Truthful, TaskInv, Holds,
         Loses, VisitLoads, Fault, alertVars, loopVars, historyVars
  <1>19. ASSUME NEW v \in Visits, VisitSubmits(v)
        PROVE  TaskInv'
    BY <1>19 DEF TypeOK, LoopInv, DocumentInv, Truthful, TaskInv, Holds,
         Loses, VisitSubmits, alertVars, loopVars, historyVars
  <1>20. ASSUME NEW v \in Visits, VisitCommits(v)
        PROVE  TaskInv'
    <2> PICK marks : /\ VisitWrites(v, copy[v] \union marks)
                     /\ \/ stage[v] = "loaded" /\ marks = {"threat_intel", "processed_at"}
                        \/ /\ stage[v] = "submitted"
                           /\ marks = {"threat_intel", "processed_at", "ai_task_id"}
      BY <1>20 DEF VisitCommits
    <2>1. visited[v] \in Alerts /\ Holds(v, visited[v])
      BY DEF TypeOK, Holds
    <2>2. /\ UNCHANGED <<tasks, todo, current, seen, contested>>
          /\ unmarked \subseteq unmarked'
          /\ Loses(visited[v], copy[v]) => visited[v] \in unmarked'
          /\ stage' = [stage EXCEPT ![v] = "over"]
          /\ visited' = [visited EXCEPT ![v] = NoAlert]
          /\ copy' = [copy EXCEPT ![v] = {}]
          /\ raw' = [raw EXCEPT ![visited[v]] = copy[v] \union marks]
      BY DEF VisitWrites, loopVars
    <2>3. \A w \in Visits, a \in Alerts :
            Holds(w, a)' => w # v /\ Holds(w, a) /\ stage'[w] = stage[w] /\ copy'[w] = copy[w]
      BY <2>2 DEF TypeOK, Holds
    <2>4. \A w \in Visits, a \in Alerts : Holds(w, a) /\ w # v => Holds(w, a)' /\ stage'[w] = stage[w]
      BY <2>2 DEF TypeOK, Holds
    <2> SUFFICES ASSUME NEW a \in Alerts \ (unmarked' \union contested')
                 PROVE  /\ tasks[a] = 1 =>
                             \/ current = a
                             \/ \E w \in Visits : Holds(w, a)' /\ stage'[w] = "submitted"
                             \/ "ai_task_id" \in raw'[a]
      BY <2>2, <2>3 DEF TaskInv
    <2>5. CASE a = visited[v]
      <3>1. stage[v] = "submitted" => "ai_task_id" \in raw'[a]
        BY <2>1, <2>2, <2>5 DEF TypeOK
      <3>2. stage[v] = "loaded" /\ tasks[a] = 1 => "ai_task_id" \in raw'[a]
        BY <2>1, <2>2, <2>5 DEF TypeOK, TaskInv
      <3> QED
        BY <3>1, <3>2
    <2>6. CASE a # visited[v]
      <3>1. raw'[a] = raw[a]
        BY <2>2, <2>6 DEF TypeOK
      <3>2. \A w \in Visits : Holds(w, a) => w # v
        BY <2>6 DEF Holds
      <3> QED
        BY <2>2, <2>4, <3>1, <3>2 DEF TaskInv
    <2> QED
      BY <2>5, <2>6
  <1>21. ASSUME NEW v \in Visits, NEW a \in Alerts, VisitPends(v, a)
        PROVE  TaskInv'
    BY <1>21 DEF TypeOK, LoopInv, DocumentInv, Truthful, TaskInv, Holds,
         Loses, VisitPends, Uncorrelated, Fault, alertVars, loopVars,
         historyVars
  <1>22. ASSUME NEW v \in Visits, VisitGroups(v)
        PROVE  TaskInv'
    BY <1>22 DEF TypeOK, LoopInv, DocumentInv, Truthful, TaskInv, Holds,
         Loses, VisitGroups, alertVars, loopVars, historyVars
  <1>23. ASSUME NEW v \in Visits, VisitMarks(v)
        PROVE  TaskInv'
    BY <1>23 DEF TypeOK, LoopInv, DocumentInv, Truthful, TaskInv, Holds,
         Loses, VisitMarks, VisitWrites, alertVars, loopVars, historyVars
  <1> QED
    BY <1>1, <1>2, <1>3, <1>4, <1>5, <1>6, <1>7, <1>8, <1>9, <1>10, <1>11,
         <1>12, <1>13, <1>14, <1>15, <1>16, <1>17, <1>18, <1>19, <1>20, <1>21,
         <1>22, <1>23 DEF Next, Pipeline, Faults, Others

THEOREM InitInv == Init => PipelineInv
  <1> SUFFICES ASSUME Init PROVE PipelineInv
    OBVIOUS
  <1>1. TypeOK /\ LoopInv
    <2>1. /\ raw \in [Alerts -> Documents] /\ seen \in [Alerts -> Documents]
          /\ fills \in [Alerts -> SUBSET Documents]
      BY DEF Init, Documents
    <2>2. batch \in SUBSET Alerts /\ todo \in SUBSET batch /\ pending \in SUBSET rows
      BY DEF Init
    <2>3. /\ grouped \in SUBSET Alerts /\ done \in SUBSET Alerts
          /\ dropped \in SUBSET Alerts /\ unmarked \in SUBSET Alerts
          /\ contested \in SUBSET Alerts
      BY DEF Init
    <2>4. txn \in BOOLEAN
      BY DEF Init
    <2>5. /\ now \in Nat /\ watermark \in Int /\ faults \in Nat
          /\ tasks \in [Alerts -> Nat] /\ answers \in [Alerts -> Nat]
          /\ born \in [Alerts -> Nat] /\ rows \in SUBSET Alerts
      BY DEF Init
    <2>6. pc \in Steps /\ current \in Alerts \union {NoAlert} /\ (pc = "submitted" <=> current # NoAlert)
      BY DEF Init, Steps
    <2>7. LoopInv
      BY DEF Init, LoopInv
    <2>8. /\ stage \in [Visits -> Stages] /\ copy \in [Visits -> Documents]
          /\ visited \in [Visits -> Alerts \union {NoAlert}]
          /\ \A v \in Visits : stage[v] \notin {"none", "over"} => visited[v] \in Alerts
      BY DEF Init, Stages, Documents
    <2> QED BY <2>1, <2>2, <2>3, <2>4, <2>5, <2>6, <2>7, <2>8 DEF TypeOK
  <1>2. DocumentInv
    BY DEF Init, DocumentInv, Truthful
  <1>3. WatermarkInv
    BY DEF Init, WatermarkInv, NoneLeftBehind
  <1>4. TaskInv
    BY DEF Init, TaskInv, Holds
  <1> QED
    BY <1>1, <1>2, <1>3, <1>4 DEF PipelineInv

THEOREM Invariance == Spec => []PipelineInv
  <1>1. Init => PipelineInv
    BY InitInv
  <1>2. PipelineInv /\ [Next]_vars => PipelineInv'
    BY TypeStep, DocumentStep, WatermarkStep, TaskStep DEF PipelineInv
  <1> QED
    BY <1>1, <1>2, PTL DEF Spec

(* The variables have their types.                                         *)
THEOREM TypeCorrect == Spec => []TypeOK
  BY Invariance, PTL DEF PipelineInv

(* The watermark passes only alerts that were marked processed once, or    *)
(* that _enrich_and_triage went on without after an exception.             *)
THEOREM WatermarkSafe == Spec => []NoneLeftBehind
  BY Invariance, PTL DEF PipelineInv, WatermarkInv

(* Whichever of the three writers of raw_data writes last, a committed row *)
(* names only what has happened, and no severe alert is marked processed   *)
(* without its AI task.                                                    *)
THEOREM RowsTruthful == Spec => []RowTruthful
  <1>1. DocumentInv => RowTruthful
    BY DEF DocumentInv, Truthful, RowTruthful
  <1> QED
    BY <1>1, Invariance, PTL DEF PipelineInv

(* An alert gets a second AI task only after its row lost the first, or    *)
(* after two pipelines had it in a batch at once: for any number of other  *)
(* pipelines, faults and backfills.                                        *)
THEOREM ResubmissionsNeedLoss == Spec => []ResubmitNeedsLoss
  <1>1. TypeOK /\ TaskInv => ResubmitNeedsLoss
    BY DEF TypeOK, TaskInv, ResubmitNeedsLoss
  <1> QED
    BY <1>1, Invariance, PTL DEF PipelineInv

(* A batch that leaves an eligible row out is full.                        *)
LEMMA LeftOutOfFullBatch ==
  ASSUME TypeOK, NEW B, Selection(B), NEW a \in Eligible \ B
  PROVE  IsFiniteSet(B) /\ Cardinality(B) = BatchSize
  <1>1. IsFiniteSet(Eligible) /\ B \subseteq Eligible
    <2>1. Eligible \subseteq Alerts
      BY DEF Eligible, TypeOK
    <2> QED
      BY <2>1, PipelineAssumption, FS_Subset DEF Selection
  <1>2. Cardinality(B) # Cardinality(Eligible)
    BY <1>1, FS_Subset
  <1>3. IsFiniteSet(B)
    BY <1>1, FS_Subset
  <1> QED
    BY <1>2, <1>3 DEF Selection, Lesser

(* No unprocessed alert waits at a batch that is neither its own nor moves *)
(* the watermark, unless BatchSize alerts crowd the overlap in front of    *)
(* it: it is never behind the watermark, and a full batch is the oldest.   *)
THEOREM EveryBatchAdvances == Spec => BatchAdvances
  <1> DEFINE Progress ==
        pc = "sleeping" /\ pc' = "batch" =>
          \A a \in rows \ (done \union dropped) :
            \/ a \in todo'
            \/ \E m \in batch' : born[m] - Overlap > watermark
            \/ Jammed(a)
  <1>1. PipelineInv /\ [Next]_vars => [Progress]_vars
    <2> SUFFICES ASSUME PipelineInv, [Next]_vars, pc = "sleeping", pc' = "batch",
                        NEW a \in rows \ (done \union dropped),
                        a \notin todo',
                        \A m \in batch' : ~(born[m] - Overlap > watermark)
                 PROVE  Jammed(a)
      OBVIOUS
    <2>1. TypeOK
      BY DEF PipelineInv
    <2>2. LoadBatch
      BY DEF Next, Pipeline, Faults, Insert, Tick, CommitTriaged, SubmitTask, CommitAlert,
             NothingToCorrelate, LoadForCorrelation, CommitIncidents, MarkCorrelated,
             ReadForBackfill, CommitBackfill, AttemptFails, CommitFails, CorrelationFails,
             Restart, Others, VisitLoads, VisitSubmits, VisitCommits, VisitWrites, VisitPends,
             VisitGroups, VisitMarks, Upcoming, BatchDone, loopVars, vars
    <2>3. PICK B \in SUBSET rows : Selection(B) /\ batch' = B /\ todo' = Unprocessed(B)
      BY <2>2 DEF LoadBatch
    <2>4. a \in Eligible
      BY DEF PipelineInv, WatermarkInv, NoneLeftBehind, Eligible, TypeOK
    <2>5. a \notin B
      <3>1. "processed_at" \notin raw[a]
        BY <2>1 DEF PipelineInv, DocumentInv, Truthful, TypeOK
      <3> QED
        BY <2>3, <3>1 DEF Unprocessed
    <2>6. IsFiniteSet(B) /\ Cardinality(B) = BatchSize
      BY <2>1, <2>3, <2>4, <2>5, LeftOutOfFullBatch
    <2> DEFINE J == {b \in rows : /\ born[b] \in watermark .. watermark + Overlap
                                 /\ born[b] <= born[a]}
    <2>7. B \subseteq J
      <3> SUFFICES ASSUME NEW b \in B
                   PROVE  b \in J
        OBVIOUS
      <3>1. b \in rows /\ born[b] \in Nat /\ watermark \in Int /\ born[a] \in Nat
        BY <2>1 DEF TypeOK
      <3>2. born[b] >= watermark /\ born[b] <= born[a]
        BY <2>3, <2>4, <2>5 DEF Selection, Eligible
      <3>3. born[b] <= watermark + Overlap
        BY <2>3, <3>1, PipelineAssumption
      <3> QED
        BY <3>1, <3>2, <3>3, PipelineAssumption
    <2>8. IsFiniteSet(J)
      <3>1. J \subseteq Alerts
        BY <2>1 DEF TypeOK
      <3> QED
        BY <3>1, PipelineAssumption, FS_Subset
    <2>9. Cardinality(B) <= Cardinality(J) /\ Cardinality(J) \in Nat /\ Cardinality(B) \in Nat
      BY <2>7, <2>8, <2>6, FS_Subset, FS_CardinalityType
    <2> QED
      BY <2>6, <2>9, PipelineAssumption DEF Jammed
  <1> QED
    BY <1>1, Invariance, PTL DEF Spec, BatchAdvances
=============================================================================
