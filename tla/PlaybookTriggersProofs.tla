------------------------ MODULE PlaybookTriggersProofs ------------------------
(***************************************************************************)
(* Proofs about PlaybookTriggers.  The two kinds of triggers share only    *)
(* the column type, so each has an inductive invariant of its own that a   *)
(* step of the other leaves alone.                                         *)
(*                                                                         *)
(* Deliveries: a row exists from the INSERT to the end, and is committed   *)
(* when the handler has ended (Rows); no two rows have one key (OneRow);   *)
(* of two like deliveries past their check, one was on its way when the    *)
(* other was checked, unless a row is missing or old (Overlaps).           *)
(*                                                                         *)
(* Schedules: whoever executes a trigger has its lock (HasLock), so nobody *)
(* executes it for the same slot (Apart); a slot the trigger was run for   *)
(* is stamped when the run ends (Stamped), and until then, and for as long *)
(* as a replica holds a listing from before, the lock is set (Fenced).     *)
(***************************************************************************)
EXTENDS PlaybookTriggers, TLAPS

-----------------------------------------------------------------------------
(* Deliveries.                                                             *)

Open(d) == stage[d] \in {"preparing", "running"}

Past(d) == Committed(d) \/ stage[d] \in {"recording", "preparing", "running", "lost"}

SameKey(d, e) == request[d].key = request[e].key /\ request[d].key # NoKey

(* The row and the run of a delivery at each stage.                        *)
RowOf(d) ==
  /\ invocation[d] = "pending" <=> Open(d)
  /\ Committed(d) => stage[d] \in {"answered", "raised"}
  /\ stage[d] = "raised" => Committed(d)
  /\ Committed(d) => (invocation[d] = "success" <=> run[d] = "success")
  /\ run[d] \in {"none", "running"} \/ Committed(d)
  /\ d \in ran => stage[d] \in {"running", "lost"} \/ Committed(d)

Rows == \A d \in Deliveries : RowOf(d)

OneRow ==
  \A d, e \in Deliveries :
    d # e /\ invocation[d] # "none" /\ invocation[e] # "none" => ~SameKey(d, e)

Overlaps ==
  \A d, e \in Deliveries : d # e /\ Alike(d, e) /\ Past(d) /\ Past(e) =>
     \/ e \in hidden[d] \/ d \in hidden[e]
     \/ stage[d] = "lost" \/ stage[e] = "lost"
     \/ d \in expired \/ e \in expired

-----------------------------------------------------------------------------
(* Schedules.                                                              *)

Clock ==
  /\ \A r \in Replicas : at[r] <= slot /\ (running[r] => current[r] \in Triggers)
  /\ \A t \in Triggers : last[t] <= slot

HasLock ==
  \A r \in Replicas, t \in Triggers :
    current[r] = t /\ Job(r, t) \notin excused => t \in locked

Apart ==
  \A r, q \in Replicas, t \in Triggers :
    r # q /\ current[r] = t /\ current[q] = t => Job(r, t) \in excused \/ Job(q, t) \in excused

RunsNow(t, s) == \E r \in Replicas : current[r] = t /\ at[r] = s /\ running[r]

Stamped ==
  \A t \in Triggers, s \in 1..MaxSlot :
    <<t, s>> \in attempted \ excused => s <= last[t] \/ RunsNow(t, s)

Fenced ==
  \A r \in Replicas, t \in Triggers :
    t \in due[r] /\ Job(r, t) \in attempted \ excused => t \in locked

Fresh ==
  \A r \in Replicas, t \in Triggers :
    current[r] = t /\ ~running[r] => Job(r, t) \notin attempted \ excused

CronInv == Clock /\ HasLock /\ Apart /\ Stamped /\ Fenced /\ Fresh /\ CronOnce

WebhookInv == Rows /\ OneRow /\ Overlaps /\ AnswersAgree /\ RefusalExplained

TriggersInv == TypeOK /\ WebhookInv /\ CronInv

-----------------------------------------------------------------------------
(* A delivery preserves each part.                                         *)

LEMMA WebhookTypes ==
  ASSUME WebhookTypeOK, WebhookNext
  PROVE  WebhookTypeOK'
  <1> USE WebhookAssumption DEF WebhookTypeOK, webhookVars
  <1>1. ASSUME NEW d \in Deliveries, CheckHash(d)
        PROVE  WebhookTypeOK'
    <2>1. answer' \in [Deliveries -> Deliveries \union {NoDelivery}]
      <3>1. CASE answer' = answer
        BY <3>1
      <3>2. CASE \E e \in Deliveries : answer' = [answer EXCEPT ![d] = e]
        BY <3>2
      <3> QED
        BY <1>1, <3>1, <3>2 DEF CheckHash, AnswerFrom, RowsByHash
    <2>2. hidden' \in [Deliveries -> SUBSET Deliveries]
      BY <1>1 DEF CheckHash, Unseen
    <2>3. \E s \in {"answered", "recording", "refused"} : stage' = [stage EXCEPT ![d] = s]
      BY <1>1 DEF CheckHash, Goto, AnswerFrom
    <2> QED
      BY <1>1, <2>1, <2>2, <2>3 DEF CheckHash
  <1>2. ASSUME NEW d \in Deliveries, Record(d)
        PROVE  WebhookTypeOK'
    BY <1>2 DEF Record, Goto, AnswerFrom, Unseen
  <1>3. ASSUME NEW d \in Deliveries, RecordFails(d)
        PROVE  WebhookTypeOK'
    BY <1>3 DEF RecordFails, Goto, AnswerFrom, Unseen
  <1>4. ASSUME NEW d \in Deliveries, NothingToRun(d)
        PROVE  WebhookTypeOK'
    BY <1>4 DEF NothingToRun, Goto, AnswerFrom, Unseen
  <1>5. ASSUME NEW d \in Deliveries, StartPlaybook(d)
        PROVE  WebhookTypeOK'
    BY <1>5 DEF StartPlaybook, Goto, AnswerFrom, Unseen
  <1>6. ASSUME NEW d \in Deliveries, PlaybookRaises(d)
        PROVE  WebhookTypeOK'
    BY <1>6 DEF PlaybookRaises, Goto, AnswerFrom, Unseen
  <1>7. ASSUME NEW d \in Deliveries, NEW status \in Outcomes, FinishPlaybook(d, status)
        PROVE  WebhookTypeOK'
    BY <1>7 DEF FinishPlaybook, Goto, AnswerFrom, Unseen
  <1>8. ASSUME NEW d \in Deliveries, CutOff(d)
        PROVE  WebhookTypeOK'
    BY <1>8 DEF CutOff, Goto, AnswerFrom, Unseen
  <1>9. ASSUME NEW d \in Deliveries, Expire(d)
        PROVE  WebhookTypeOK'
    BY <1>9 DEF Expire, Goto, AnswerFrom, Unseen
  <1>10. ASSUME NEW d \in Deliveries, NEW r \in Traffic, Receive(d, r)
        PROVE  WebhookTypeOK'
    <2>1. answer' \in [Deliveries -> Deliveries \union {NoDelivery}]
      <3>1. CASE answer' = answer
        BY <3>1
      <3>2. CASE \E e \in Deliveries : answer' = [answer EXCEPT ![d] = e]
        BY <3>2
      <3> QED
        BY <1>10, <3>1, <3>2 DEF Receive, AnswerFrom, RowsByKey
    <2>2. request' \in [Deliveries -> Traffic \union {NoRequest}]
      BY <1>10 DEF Receive
    <2>3. \E s \in {"answered", "hashing"} : stage' = [stage EXCEPT ![d] = s]
      BY <1>10 DEF Receive, Goto, AnswerFrom
    <2> QED
      BY <1>10, <2>1, <2>2, <2>3 DEF Receive
  <1> QED
    BY <1>1, <1>2, <1>3, <1>4, <1>5, <1>6, <1>7, <1>8, <1>9, <1>10
         DEF WebhookNext, DeliveryNext

LEMMA RowsStep ==
  ASSUME WebhookTypeOK, Rows, WebhookNext
  PROVE  Rows'
  <1> USE WebhookAssumption DEF WebhookTypeOK, Rows, RowOf, Open, Committed, webhookVars
  <1>1. ASSUME NEW d \in Deliveries, CheckHash(d)
        PROVE  Rows'
    BY <1>1 DEF CheckHash, Goto, AnswerFrom
  <1>2. ASSUME NEW d \in Deliveries, Record(d)
        PROVE  Rows'
    BY <1>2 DEF Record, Goto, AnswerFrom
  <1>3. ASSUME NEW d \in Deliveries, RecordFails(d)
        PROVE  Rows'
    BY <1>3 DEF RecordFails, Goto, AnswerFrom
  <1>4. ASSUME NEW d \in Deliveries, NothingToRun(d)
        PROVE  Rows'
    BY <1>4 DEF NothingToRun, Goto, AnswerFrom
  <1>5. ASSUME NEW d \in Deliveries, StartPlaybook(d)
        PROVE  Rows'
    BY <1>5 DEF StartPlaybook, Goto, AnswerFrom
  <1>6. ASSUME NEW d \in Deliveries, PlaybookRaises(d)
        PROVE  Rows'
    BY <1>6 DEF PlaybookRaises, Goto, AnswerFrom
  <1>7. ASSUME NEW d \in Deliveries, NEW status \in Outcomes, FinishPlaybook(d, status)
        PROVE  Rows'
    BY <1>7 DEF FinishPlaybook, Goto, AnswerFrom
  <1>8. ASSUME NEW d \in Deliveries, CutOff(d)
        PROVE  Rows'
    BY <1>8 DEF CutOff, Goto, AnswerFrom
  <1>9. ASSUME NEW d \in Deliveries, Expire(d)
        PROVE  Rows'
    BY <1>9 DEF Expire, Goto, AnswerFrom
  <1>10. ASSUME NEW d \in Deliveries, NEW r \in Traffic, Receive(d, r)
        PROVE  Rows'
    BY <1>10 DEF Receive, Goto, AnswerFrom
  <1> QED
    BY <1>1, <1>2, <1>3, <1>4, <1>5, <1>6, <1>7, <1>8, <1>9, <1>10
         DEF WebhookNext, DeliveryNext

LEMMA OneRowStep ==
  ASSUME WebhookTypeOK, Rows, OneRow, WebhookNext
  PROVE  OneRow'
  <1> USE DEF WebhookTypeOK, Rows, RowOf, Open, Committed, OneRow, SameKey, webhookVars
  <1>1. ASSUME NEW d \in Deliveries, CheckHash(d)
        PROVE  OneRow'
    BY <1>1 DEF CheckHash, Goto, AnswerFrom, KeyHolders
  <1>2. ASSUME NEW d \in Deliveries, Record(d)
        PROVE  OneRow'
    BY <1>2 DEF Record, Goto, AnswerFrom, KeyHolders
  <1>3. ASSUME NEW d \in Deliveries, RecordFails(d)
        PROVE  OneRow'
    BY <1>3 DEF RecordFails, Goto, AnswerFrom, KeyHolders
  <1>4. ASSUME NEW d \in Deliveries, NothingToRun(d)
        PROVE  OneRow'
    BY <1>4 DEF NothingToRun, Goto, AnswerFrom, KeyHolders
  <1>5. ASSUME NEW d \in Deliveries, StartPlaybook(d)
        PROVE  OneRow'
    BY <1>5 DEF StartPlaybook, Goto, AnswerFrom, KeyHolders
  <1>6. ASSUME NEW d \in Deliveries, PlaybookRaises(d)
        PROVE  OneRow'
    BY <1>6 DEF PlaybookRaises, Goto, AnswerFrom, KeyHolders
  <1>7. ASSUME NEW d \in Deliveries, NEW status \in Outcomes, FinishPlaybook(d, status)
        PROVE  OneRow'
    BY <1>7 DEF FinishPlaybook, Goto, AnswerFrom, KeyHolders
  <1>8. ASSUME NEW d \in Deliveries, CutOff(d)
        PROVE  OneRow'
    BY <1>8 DEF CutOff, Goto, AnswerFrom, KeyHolders
  <1>9. ASSUME NEW d \in Deliveries, Expire(d)
        PROVE  OneRow'
    BY <1>9 DEF Expire, Goto, AnswerFrom, KeyHolders
  <1>10. ASSUME NEW d \in Deliveries, NEW r \in Traffic, Receive(d, r)
        PROVE  OneRow'
    BY <1>10 DEF Receive, Goto, AnswerFrom, KeyHolders
  <1> QED
    BY <1>1, <1>2, <1>3, <1>4, <1>5, <1>6, <1>7, <1>8, <1>9, <1>10
         DEF WebhookNext, DeliveryNext

LEMMA OverlapsStep ==
  ASSUME WebhookTypeOK, Rows, Overlaps, WebhookNext
  PROVE  Overlaps'
  <1> USE DEF WebhookTypeOK, Rows, RowOf, Open, Committed, Overlaps, Past, Alike, webhookVars
  <1>1. ASSUME NEW d \in Deliveries, CheckHash(d)
        PROVE  Overlaps'
    BY <1>1 DEF CheckHash, Goto, AnswerFrom, Unseen, RowsByHash, RowsByKey
  <1>2. ASSUME NEW d \in Deliveries, Record(d)
        PROVE  Overlaps'
    BY <1>2 DEF Record, Goto, AnswerFrom, Unseen, RowsByHash, RowsByKey
  <1>3. ASSUME NEW d \in Deliveries, RecordFails(d)
        PROVE  Overlaps'
    BY <1>3 DEF RecordFails, Goto, AnswerFrom, Unseen, RowsByHash, RowsByKey
  <1>4. ASSUME NEW d \in Deliveries, NothingToRun(d)
        PROVE  Overlaps'
    BY <1>4 DEF NothingToRun, Goto, AnswerFrom, Unseen, RowsByHash, RowsByKey
  <1>5. ASSUME NEW d \in Deliveries, StartPlaybook(d)
        PROVE  Overlaps'
    BY <1>5 DEF StartPlaybook, Goto, AnswerFrom, Unseen, RowsByHash, RowsByKey
  <1>6. ASSUME NEW d \in Deliveries, PlaybookRaises(d)
        PROVE  Overlaps'
    BY <1>6 DEF PlaybookRaises, Goto, AnswerFrom, Unseen, RowsByHash, RowsByKey
  <1>7. ASSUME NEW d \in Deliveries, NEW status \in Outcomes, FinishPlaybook(d, status)
        PROVE  Overlaps'
    BY <1>7 DEF FinishPlaybook, Goto, AnswerFrom, Unseen, RowsByHash, RowsByKey
  <1>8. ASSUME NEW d \in Deliveries, CutOff(d)
        PROVE  Overlaps'
    BY <1>8 DEF CutOff, Goto, AnswerFrom, Unseen, RowsByHash, RowsByKey
  <1>9. ASSUME NEW d \in Deliveries, Expire(d)
        PROVE  Overlaps'
    BY <1>9 DEF Expire, Goto, AnswerFrom, Unseen, RowsByHash, RowsByKey
  <1>10. ASSUME NEW d \in Deliveries, NEW r \in Traffic, Receive(d, r)
        PROVE  Overlaps'
    BY <1>10 DEF Receive, Goto, AnswerFrom, Unseen, RowsByHash, RowsByKey
  <1> QED
    BY <1>1, <1>2, <1>3, <1>4, <1>5, <1>6, <1>7, <1>8, <1>9, <1>10
         DEF WebhookNext, DeliveryNext

LEMMA AnswersStep ==
  ASSUME WebhookTypeOK, Rows, AnswersAgree, WebhookNext
  PROVE  AnswersAgree'
  <1> USE DEF WebhookTypeOK, Rows, RowOf, Open, Committed, AnswersAgree, webhookVars
  <1>1. ASSUME NEW d \in Deliveries, CheckHash(d)
        PROVE  AnswersAgree'
    BY <1>1 DEF CheckHash, Goto, AnswerFrom, RowsByHash, RowsByKey
  <1>2. ASSUME NEW d \in Deliveries, Record(d)
        PROVE  AnswersAgree'
    BY <1>2 DEF Record, Goto, AnswerFrom, RowsByHash, RowsByKey
  <1>3. ASSUME NEW d \in Deliveries, RecordFails(d)
        PROVE  AnswersAgree'
    BY <1>3 DEF RecordFails, Goto, AnswerFrom, RowsByHash, RowsByKey
  <1>4. ASSUME NEW d \in Deliveries, NothingToRun(d)
        PROVE  AnswersAgree'
    BY <1>4 DEF NothingToRun, Goto, AnswerFrom, RowsByHash, RowsByKey
  <1>5. ASSUME NEW d \in Deliveries, StartPlaybook(d)
        PROVE  AnswersAgree'
    BY <1>5 DEF StartPlaybook, Goto, AnswerFrom, RowsByHash, RowsByKey
  <1>6. ASSUME NEW d \in Deliveries, PlaybookRaises(d)
        PROVE  AnswersAgree'
    BY <1>6 DEF PlaybookRaises, Goto, AnswerFrom, RowsByHash, RowsByKey
  <1>7. ASSUME NEW d \in Deliveries, NEW status \in Outcomes, FinishPlaybook(d, status)
        PROVE  AnswersAgree'
    BY <1>7 DEF FinishPlaybook, Goto, AnswerFrom, RowsByHash, RowsByKey
  <1>8. ASSUME NEW d \in Deliveries, CutOff(d)
        PROVE  AnswersAgree'
    BY <1>8 DEF CutOff, Goto, AnswerFrom, RowsByHash, RowsByKey
  <1>9. ASSUME NEW d \in Deliveries, Expire(d)
        PROVE  AnswersAgree'
    BY <1>9 DEF Expire, Goto, AnswerFrom, RowsByHash, RowsByKey
  <1>10. ASSUME NEW d \in Deliveries, NEW r \in Traffic, Receive(d, r)
        PROVE  AnswersAgree'
    BY <1>10 DEF Receive, Goto, AnswerFrom, RowsByHash, RowsByKey
  <1> QED
    BY <1>1, <1>2, <1>3, <1>4, <1>5, <1>6, <1>7, <1>8, <1>9, <1>10
         DEF WebhookNext, DeliveryNext

LEMMA RefusalStep ==
  ASSUME WebhookTypeOK, Rows, Overlaps, RefusalExplained, WebhookNext
  PROVE  RefusalExplained'
  <1> USE DEF WebhookTypeOK, Rows, RowOf, Open, Committed, RefusalExplained, Overlaps, Past, Alike, webhookVars
  <1>1. ASSUME NEW d \in Deliveries, CheckHash(d)
        PROVE  RefusalExplained'
    BY <1>1 DEF CheckHash, Goto, AnswerFrom, RowsByHash, RowsByKey
  <1>2. ASSUME NEW d \in Deliveries, Record(d)
        PROVE  RefusalExplained'
    BY <1>2 DEF Record, Goto, AnswerFrom, RowsByHash, RowsByKey
  <1>3. ASSUME NEW d \in Deliveries, RecordFails(d)
        PROVE  RefusalExplained'
    BY <1>3 DEF RecordFails, Goto, AnswerFrom, RowsByHash, RowsByKey
  <1>4. ASSUME NEW d \in Deliveries, NothingToRun(d)
        PROVE  RefusalExplained'
    BY <1>4 DEF NothingToRun, Goto, AnswerFrom, RowsByHash, RowsByKey
  <1>5. ASSUME NEW d \in Deliveries, StartPlaybook(d)
        PROVE  RefusalExplained'
    BY <1>5 DEF StartPlaybook, Goto, AnswerFrom, RowsByHash, RowsByKey
  <1>6. ASSUME NEW d \in Deliveries, PlaybookRaises(d)
        PROVE  RefusalExplained'
    BY <1>6 DEF PlaybookRaises, Goto, AnswerFrom, RowsByHash, RowsByKey
  <1>7. ASSUME NEW d \in Deliveries, NEW status \in Outcomes, FinishPlaybook(d, status)
        PROVE  RefusalExplained'
    BY <1>7 DEF FinishPlaybook, Goto, AnswerFrom, RowsByHash, RowsByKey
  <1>8. ASSUME NEW d \in Deliveries, CutOff(d)
        PROVE  RefusalExplained'
    BY <1>8 DEF CutOff, Goto, AnswerFrom, RowsByHash, RowsByKey
  <1>9. ASSUME NEW d \in Deliveries, Expire(d)
        PROVE  RefusalExplained'
    BY <1>9 DEF Expire, Goto, AnswerFrom, RowsByHash, RowsByKey
  <1>10. ASSUME NEW d \in Deliveries, NEW r \in Traffic, Receive(d, r)
        PROVE  RefusalExplained'
    BY <1>10 DEF Receive, Goto, AnswerFrom, RowsByHash, RowsByKey
  <1> QED
    BY <1>1, <1>2, <1>3, <1>4, <1>5, <1>6, <1>7, <1>8, <1>9, <1>10
         DEF WebhookNext, DeliveryNext

-----------------------------------------------------------------------------
(* A scheduler preserves each part.                                        *)

LEMMA CronTypes ==
  ASSUME CronTypeOK, Clock, CronNext
  PROVE  CronTypeOK'
  <1> USE CronAssumption DEF CronTypeOK, Clock, cronVars, clockVars, passVars, cronHistory
  <1>1. ASSUME Tick
        PROVE  CronTypeOK'
    BY <1>1 DEF Tick, Leave, Outage, AcquireLock, Job, Idle
  <1>2. ASSUME MinutePasses
        PROVE  CronTypeOK'
    BY <1>2 DEF MinutePasses, Leave, Outage, AcquireLock, Job, Idle
  <1>3. ASSUME NEW r \in Replicas, ListTriggers(r)
        PROVE  CronTypeOK'
    BY <1>3 DEF ListTriggers, Leave, Outage, AcquireLock, Job, Idle
  <1>4. ASSUME NEW r \in Replicas, NEW t \in Triggers, Skip(r, t)
        PROVE  CronTypeOK'
    BY <1>4 DEF Skip, Leave, Outage, AcquireLock, Job, Idle
  <1>5. ASSUME NEW r \in Replicas, NEW t \in Triggers, Take(r, t)
        PROVE  CronTypeOK'
    BY <1>5 DEF Take, Leave, Outage, AcquireLock, Job, Idle
  <1>6. ASSUME NEW r \in Replicas, NEW t \in Triggers, TakeInVain(r, t)
        PROVE  CronTypeOK'
    BY <1>6 DEF TakeInVain, Leave, Outage, AcquireLock, Job, Idle
  <1>7. ASSUME NEW r \in Replicas, NEW t \in Triggers, RemoveFromPending(r, t)
        PROVE  CronTypeOK'
    BY <1>7 DEF RemoveFromPending, Leave, Outage, AcquireLock, Job, Idle
  <1>8. ASSUME NEW r \in Replicas, NoPlaybook(r)
        PROVE  CronTypeOK'
    BY <1>8 DEF NoPlaybook, Leave, Outage, AcquireLock, Job, Idle
  <1>9. ASSUME NEW r \in Replicas, StartRun(r)
        PROVE  CronTypeOK'
    BY <1>9 DEF StartRun, Leave, Outage, AcquireLock, Job, Idle
  <1>10. ASSUME NEW r \in Replicas, FinishRun(r)
        PROVE  CronTypeOK'
    BY <1>10 DEF FinishRun, Leave, Outage, AcquireLock, Job, Idle
  <1>11. ASSUME NEW r \in Replicas, RunRaises(r)
        PROVE  CronTypeOK'
    BY <1>11 DEF RunRaises, Leave, Outage, AcquireLock, Job, Idle
  <1>12. ASSUME NEW r \in Replicas, SessionBreaks(r)
        PROVE  CronTypeOK'
    BY <1>12 DEF SessionBreaks, Abandon, Leave, Outage, AcquireLock, Job, Idle
  <1>13. ASSUME NEW r \in Replicas, Restart(r)
        PROVE  CronTypeOK'
    BY <1>13 DEF Restart, Abandon, Leave, Outage, AcquireLock, Job, Idle
  <1>15. ASSUME NEW r \in Replicas, PassBreaks(r)
        PROVE  CronTypeOK'
    BY <1>15 DEF PassBreaks, Abandon, Leave, Outage, AcquireLock, Job, Idle
  <1>14. ASSUME NEW t \in Triggers, LockExpires(t)
        PROVE  CronTypeOK'
    <2>1. \A q \in Replicas : Job(q, t) \in Triggers \X (1..MaxSlot)
      BY DEF Job
    <2>2. excused' \in SUBSET (Triggers \X (1..MaxSlot))
      BY <1>14, <2>1 DEF LockExpires
    <2> QED
      BY <1>14, <2>2 DEF LockExpires
  <1> QED
    BY <1>1, <1>2, <1>3, <1>4, <1>5, <1>6, <1>7, <1>8, <1>9, <1>10, <1>11,
         <1>12, <1>13, <1>14, <1>15 DEF CronNext, ReplicaNext

LEMMA ClockStep ==
  ASSUME CronTypeOK, Clock, CronNext
  PROVE  Clock'
  <1> USE CronAssumption DEF CronTypeOK, Clock, cronVars, clockVars, passVars, cronHistory
  <1>1. ASSUME Tick
        PROVE  Clock'
    BY <1>1 DEF Tick, Leave, Outage, AcquireLock, Idle
  <1>2. ASSUME MinutePasses
        PROVE  Clock'
    BY <1>2 DEF MinutePasses, Leave, Outage, AcquireLock, Idle
  <1>3. ASSUME NEW r \in Replicas, ListTriggers(r)
        PROVE  Clock'
    BY <1>3 DEF ListTriggers, Leave, Outage, AcquireLock, Idle
  <1>4. ASSUME NEW r \in Replicas, NEW t \in Triggers, Skip(r, t)
        PROVE  Clock'
    BY <1>4 DEF Skip, Leave, Outage, AcquireLock, Idle
  <1>5. ASSUME NEW r \in Replicas, NEW t \in Triggers, Take(r, t)
        PROVE  Clock'
    BY <1>5 DEF Take, Leave, Outage, AcquireLock, Idle
  <1>6. ASSUME NEW r \in Replicas, NEW t \in Triggers, TakeInVain(r, t)
        PROVE  Clock'
    BY <1>6 DEF TakeInVain, Leave, Outage, AcquireLock, Idle
  <1>7. ASSUME NEW r \in Replicas, NEW t \in Triggers, RemoveFromPending(r, t)
        PROVE  Clock'
    BY <1>7 DEF RemoveFromPending, Leave, Outage, AcquireLock, Idle
  <1>8. ASSUME NEW r \in Replicas, NoPlaybook(r)
        PROVE  Clock'
    BY <1>8 DEF NoPlaybook, Leave, Outage, AcquireLock, Idle
  <1>9. ASSUME NEW r \in Replicas, StartRun(r)
        PROVE  Clock'
    BY <1>9 DEF StartRun, Leave, Outage, AcquireLock, Idle
  <1>10. ASSUME NEW r \in Replicas, FinishRun(r)
        PROVE  Clock'
    BY <1>10 DEF FinishRun, Leave, Outage, AcquireLock, Idle
  <1>11. ASSUME NEW r \in Replicas, RunRaises(r)
        PROVE  Clock'
    BY <1>11 DEF RunRaises, Leave, Outage, AcquireLock, Idle
  <1>12. ASSUME NEW r \in Replicas, SessionBreaks(r)
        PROVE  Clock'
    BY <1>12 DEF SessionBreaks, Abandon, Leave, Outage, AcquireLock, Idle
  <1>13. ASSUME NEW r \in Replicas, Restart(r)
        PROVE  Clock'
    BY <1>13 DEF Restart, Abandon, Leave, Outage, AcquireLock, Idle
  <1>15. ASSUME NEW r \in Replicas, PassBreaks(r)
        PROVE  Clock'
    BY <1>15 DEF PassBreaks, Abandon, Leave, Outage, AcquireLock, Idle
  <1>14. ASSUME NEW t \in Triggers, LockExpires(t)
        PROVE  Clock'
    BY <1>14 DEF LockExpires, Leave, Outage, AcquireLock, Idle
  <1> QED
    BY <1>1, <1>2, <1>3, <1>4, <1>5, <1>6, <1>7, <1>8, <1>9, <1>10, <1>11,
         <1>12, <1>13, <1>14, <1>15 DEF CronNext, ReplicaNext

LEMMA HasLockStep ==
  ASSUME CronTypeOK, Clock, HasLock, CronNext
  PROVE  HasLock'
  <1> USE CronAssumption DEF CronTypeOK, Clock, HasLock, cronVars, clockVars, passVars, cronHistory
  <1>1. ASSUME Tick
        PROVE  HasLock'
    BY <1>1 DEF Tick, Leave, Outage, AcquireLock, Job, Idle
  <1>2. ASSUME MinutePasses
        PROVE  HasLock'
    BY <1>2 DEF MinutePasses, Leave, Outage, AcquireLock, Job, Idle
  <1>3. ASSUME NEW r \in Replicas, ListTriggers(r)
        PROVE  HasLock'
    BY <1>3 DEF ListTriggers, Leave, Outage, AcquireLock, Job, Idle
  <1>4. ASSUME NEW r \in Replicas, NEW t \in Triggers, Skip(r, t)
        PROVE  HasLock'
    BY <1>4 DEF Skip, Leave, Outage, AcquireLock, Job, Idle
  <1>5. ASSUME NEW r \in Replicas, NEW t \in Triggers, Take(r, t)
        PROVE  HasLock'
    BY <1>5 DEF Take, Leave, Outage, AcquireLock, Job, Idle
  <1>6. ASSUME NEW r \in Replicas, NEW t \in Triggers, TakeInVain(r, t)
        PROVE  HasLock'
    BY <1>6 DEF TakeInVain, Leave, Outage, AcquireLock, Job, Idle
  <1>7. ASSUME NEW r \in Replicas, NEW t \in Triggers, RemoveFromPending(r, t)
        PROVE  HasLock'
    BY <1>7 DEF RemoveFromPending, Leave, Outage, AcquireLock, Job, Idle
  <1>8. ASSUME NEW r \in Replicas, NoPlaybook(r)
        PROVE  HasLock'
    BY <1>8 DEF NoPlaybook, Leave, Outage, AcquireLock, Job, Idle
  <1>9. ASSUME NEW r \in Replicas, StartRun(r)
        PROVE  HasLock'
    BY <1>9 DEF StartRun, Leave, Outage, AcquireLock, Job, Idle
  <1>10. ASSUME NEW r \in Replicas, FinishRun(r)
        PROVE  HasLock'
    BY <1>10 DEF FinishRun, Leave, Outage, AcquireLock, Job, Idle
  <1>11. ASSUME NEW r \in Replicas, RunRaises(r)
        PROVE  HasLock'
    BY <1>11 DEF RunRaises, Leave, Outage, AcquireLock, Job, Idle
  <1>12. ASSUME NEW r \in Replicas, SessionBreaks(r)
        PROVE  HasLock'
    BY <1>12 DEF SessionBreaks, Abandon, Leave, Outage, AcquireLock, Job, Idle
  <1>13. ASSUME NEW r \in Replicas, Restart(r)
        PROVE  HasLock'
    BY <1>13 DEF Restart, Abandon, Leave, Outage, AcquireLock, Job, Idle
  <1>15. ASSUME NEW r \in Replicas, PassBreaks(r)
        PROVE  HasLock'
    BY <1>15 DEF PassBreaks, Abandon, Leave, Outage, AcquireLock, Job, Idle
  <1>14. ASSUME NEW t \in Triggers, LockExpires(t)
        PROVE  HasLock'
    BY <1>14 DEF LockExpires, Leave, Outage, AcquireLock, Job, Idle
  <1> QED
    BY <1>1, <1>2, <1>3, <1>4, <1>5, <1>6, <1>7, <1>8, <1>9, <1>10, <1>11,
         <1>12, <1>13, <1>14, <1>15 DEF CronNext, ReplicaNext

LEMMA ApartStep ==
  ASSUME CronTypeOK, Clock, HasLock, Apart, CronNext
  PROVE  Apart'
  <1> USE CronAssumption DEF CronTypeOK, Clock, HasLock, Apart, cronVars, clockVars, passVars, cronHistory
  <1>1. ASSUME Tick
        PROVE  Apart'
    BY <1>1 DEF Tick, Leave, Outage, AcquireLock, Job, Idle
  <1>2. ASSUME MinutePasses
        PROVE  Apart'
    BY <1>2 DEF MinutePasses, Leave, Outage, AcquireLock, Job, Idle
  <1>3. ASSUME NEW r \in Replicas, ListTriggers(r)
        PROVE  Apart'
    BY <1>3 DEF ListTriggers, Leave, Outage, AcquireLock, Job, Idle
  <1>4. ASSUME NEW r \in Replicas, NEW t \in Triggers, Skip(r, t)
        PROVE  Apart'
    BY <1>4 DEF Skip, Leave, Outage, AcquireLock, Job, Idle
  <1>5. ASSUME NEW r \in Replicas, NEW t \in Triggers, Take(r, t)
        PROVE  Apart'
    BY <1>5 DEF Take, Leave, Outage, AcquireLock, Job, Idle
  <1>6. ASSUME NEW r \in Replicas, NEW t \in Triggers, TakeInVain(r, t)
        PROVE  Apart'
    BY <1>6 DEF TakeInVain, Leave, Outage, AcquireLock, Job, Idle
  <1>7. ASSUME NEW r \in Replicas, NEW t \in Triggers, RemoveFromPending(r, t)
        PROVE  Apart'
    BY <1>7 DEF RemoveFromPending, Leave, Outage, AcquireLock, Job, Idle
  <1>8. ASSUME NEW r \in Replicas, NoPlaybook(r)
        PROVE  Apart'
    BY <1>8 DEF NoPlaybook, Leave, Outage, AcquireLock, Job, Idle
  <1>9. ASSUME NEW r \in Replicas, StartRun(r)
        PROVE  Apart'
    BY <1>9 DEF StartRun, Leave, Outage, AcquireLock, Job, Idle
  <1>10. ASSUME NEW r \in Replicas, FinishRun(r)
        PROVE  Apart'
    BY <1>10 DEF FinishRun, Leave, Outage, AcquireLock, Job, Idle
  <1>11. ASSUME NEW r \in Replicas, RunRaises(r)
        PROVE  Apart'
    BY <1>11 DEF RunRaises, Leave, Outage, AcquireLock, Job, Idle
  <1>12. ASSUME NEW r \in Replicas, SessionBreaks(r)
        PROVE  Apart'
    BY <1>12 DEF SessionBreaks, Abandon, Leave, Outage, AcquireLock, Job, Idle
  <1>13. ASSUME NEW r \in Replicas, Restart(r)
        PROVE  Apart'
    BY <1>13 DEF Restart, Abandon, Leave, Outage, AcquireLock, Job, Idle
  <1>15. ASSUME NEW r \in Replicas, PassBreaks(r)
        PROVE  Apart'
    BY <1>15 DEF PassBreaks, Abandon, Leave, Outage, AcquireLock, Job, Idle
  <1>14. ASSUME NEW t \in Triggers, LockExpires(t)
        PROVE  Apart'
    BY <1>14 DEF LockExpires, Leave, Outage, AcquireLock, Job, Idle
  <1> QED
    BY <1>1, <1>2, <1>3, <1>4, <1>5, <1>6, <1>7, <1>8, <1>9, <1>10, <1>11,
         <1>12, <1>13, <1>14, <1>15 DEF CronNext, ReplicaNext

LEMMA StampedStep ==
  ASSUME CronTypeOK, Clock, Stamped, CronNext
  PROVE  Stamped'
  <1> USE CronAssumption DEF CronTypeOK, Clock, Stamped, RunsNow, cronVars, clockVars, passVars, cronHistory
  <1>1. ASSUME Tick
        PROVE  Stamped'
    BY <1>1 DEF Tick, Leave, Outage, AcquireLock, Job, Idle
  <1>2. ASSUME MinutePasses
        PROVE  Stamped'
    BY <1>2 DEF MinutePasses, Leave, Outage, AcquireLock, Job, Idle
  <1>3. ASSUME NEW r \in Replicas, ListTriggers(r)
        PROVE  Stamped'
    BY <1>3 DEF ListTriggers, Leave, Outage, AcquireLock, Job, Idle
  <1>4. ASSUME NEW r \in Replicas, NEW t \in Triggers, Skip(r, t)
        PROVE  Stamped'
    BY <1>4 DEF Skip, Leave, Outage, AcquireLock, Job, Idle
  <1>5. ASSUME NEW r \in Replicas, NEW t \in Triggers, Take(r, t)
        PROVE  Stamped'
    BY <1>5 DEF Take, Leave, Outage, AcquireLock, Job, Idle
  <1>6. ASSUME NEW r \in Replicas, NEW t \in Triggers, TakeInVain(r, t)
        PROVE  Stamped'
    BY <1>6 DEF TakeInVain, Leave, Outage, AcquireLock, Job, Idle
  <1>7. ASSUME NEW r \in Replicas, NEW t \in Triggers, RemoveFromPending(r, t)
        PROVE  Stamped'
    BY <1>7 DEF RemoveFromPending, Leave, Outage, AcquireLock, Job, Idle
  <1>8. ASSUME NEW r \in Replicas, NoPlaybook(r)
        PROVE  Stamped'
    BY <1>8 DEF NoPlaybook, Leave, Outage, AcquireLock, Job, Idle
  <1>9. ASSUME NEW r \in Replicas, StartRun(r)
        PROVE  Stamped'
    BY <1>9 DEF StartRun, Leave, Outage, AcquireLock, Job, Idle
  <1>10. ASSUME NEW r \in Replicas, FinishRun(r)
        PROVE  Stamped'
    BY <1>10 DEF FinishRun, Leave, Outage, AcquireLock, Job, Idle
  <1>11. ASSUME NEW r \in Replicas, RunRaises(r)
        PROVE  Stamped'
    BY <1>11 DEF RunRaises, Leave, Outage, AcquireLock, Job, Idle
  <1>12. ASSUME NEW r \in Replicas, SessionBreaks(r)
        PROVE  Stamped'
    BY <1>12 DEF SessionBreaks, Abandon, Leave, Outage, AcquireLock, Job, Idle
  <1>13. ASSUME NEW r \in Replicas, Restart(r)
        PROVE  Stamped'
    BY <1>13 DEF Restart, Abandon, Leave, Outage, AcquireLock, Job, Idle
  <1>15. ASSUME NEW r \in Replicas, PassBreaks(r)
        PROVE  Stamped'
    BY <1>15 DEF PassBreaks, Abandon, Leave, Outage, AcquireLock, Job, Idle
  <1>14. ASSUME NEW t \in Triggers, LockExpires(t)
        PROVE  Stamped'
    BY <1>14 DEF LockExpires, Leave, Outage, AcquireLock, Job, Idle
  <1> QED
    BY <1>1, <1>2, <1>3, <1>4, <1>5, <1>6, <1>7, <1>8, <1>9, <1>10, <1>11,
         <1>12, <1>13, <1>14, <1>15 DEF CronNext, ReplicaNext

LEMMA FencedStep ==
  ASSUME CronTypeOK, Clock, HasLock, Stamped, Fenced, CronNext
  PROVE  Fenced'
  <1> USE CronAssumption DEF CronTypeOK, Clock, HasLock, Stamped, RunsNow, Fenced, cronVars, clockVars, passVars, cronHistory
  <1>1. ASSUME Tick
        PROVE  Fenced'
    BY <1>1 DEF Tick, Leave, Outage, AcquireLock, Job, Idle, IsDue
  <1>2. ASSUME MinutePasses
        PROVE  Fenced'
    BY <1>2 DEF MinutePasses, Leave, Outage, AcquireLock, Job, Idle, IsDue
  <1>3. ASSUME NEW r \in Replicas, ListTriggers(r)
        PROVE  Fenced'
    BY <1>3 DEF ListTriggers, Leave, Outage, AcquireLock, Job, Idle, IsDue
  <1>4. ASSUME NEW r \in Replicas, NEW t \in Triggers, Skip(r, t)
        PROVE  Fenced'
    BY <1>4 DEF Skip, Leave, Outage, AcquireLock, Job, Idle, IsDue
  <1>5. ASSUME NEW r \in Replicas, NEW t \in Triggers, Take(r, t)
        PROVE  Fenced'
    BY <1>5 DEF Take, Leave, Outage, AcquireLock, Job, Idle, IsDue
  <1>6. ASSUME NEW r \in Replicas, NEW t \in Triggers, TakeInVain(r, t)
        PROVE  Fenced'
    BY <1>6 DEF TakeInVain, Leave, Outage, AcquireLock, Job, Idle, IsDue
  <1>7. ASSUME NEW r \in Replicas, NEW t \in Triggers, RemoveFromPending(r, t)
        PROVE  Fenced'
    BY <1>7 DEF RemoveFromPending, Leave, Outage, AcquireLock, Job, Idle, IsDue
  <1>8. ASSUME NEW r \in Replicas, NoPlaybook(r)
        PROVE  Fenced'
    BY <1>8 DEF NoPlaybook, Leave, Outage, AcquireLock, Job, Idle, IsDue
  <1>9. ASSUME NEW r \in Replicas, StartRun(r)
        PROVE  Fenced'
    BY <1>9 DEF StartRun, Leave, Outage, AcquireLock, Job, Idle, IsDue
  <1>10. ASSUME NEW r \in Replicas, FinishRun(r)
        PROVE  Fenced'
    BY <1>10 DEF FinishRun, Leave, Outage, AcquireLock, Job, Idle, IsDue
  <1>11. ASSUME NEW r \in Replicas, RunRaises(r)
        PROVE  Fenced'
    BY <1>11 DEF RunRaises, Leave, Outage, AcquireLock, Job, Idle, IsDue
  <1>12. ASSUME NEW r \in Replicas, SessionBreaks(r)
        PROVE  Fenced'
    BY <1>12 DEF SessionBreaks, Abandon, Leave, Outage, AcquireLock, Job, Idle, IsDue
  <1>13. ASSUME NEW r \in Replicas, Restart(r)
        PROVE  Fenced'
    BY <1>13 DEF Restart, Abandon, Leave, Outage, AcquireLock, Job, Idle, IsDue
  <1>15. ASSUME NEW r \in Replicas, PassBreaks(r)
        PROVE  Fenced'
    BY <1>15 DEF PassBreaks, Abandon, Leave, Outage, AcquireLock, Job, Idle, IsDue
  <1>14. ASSUME NEW t \in Triggers, LockExpires(t)
        PROVE  Fenced'
    <2> SUFFICES ASSUME NEW q \in Replicas, NEW u \in Triggers, u \in due[q],
                        Job(q, u) \in attempted, Job(q, u) \notin excused'
                 PROVE  u \in locked'
      BY <1>14 DEF LockExpires, Job
    <2>1. excused \subseteq excused'
      BY <1>14 DEF LockExpires
    <2>2. u \in locked
      BY <2>1
    <2>3. u # t
      BY <1>14 DEF LockExpires
    <2> QED
      BY <1>14, <2>2, <2>3 DEF LockExpires
  <1> QED
    BY <1>1, <1>2, <1>3, <1>4, <1>5, <1>6, <1>7, <1>8, <1>9, <1>10, <1>11,
         <1>12, <1>13, <1>14, <1>15 DEF CronNext, ReplicaNext

LEMMA FreshStep ==
  ASSUME CronTypeOK, Clock, Apart, Fenced, Fresh, CronNext
  PROVE  Fresh'
  <1> USE CronAssumption DEF CronTypeOK, Clock, Apart, Fenced, Fresh, cronVars, clockVars, passVars, cronHistory
  <1>1. ASSUME Tick
        PROVE  Fresh'
    BY <1>1 DEF Tick, Leave, Outage, AcquireLock, Job, Idle
  <1>2. ASSUME MinutePasses
        PROVE  Fresh'
    BY <1>2 DEF MinutePasses, Leave, Outage, AcquireLock, Job, Idle
  <1>3. ASSUME NEW r \in Replicas, ListTriggers(r)
        PROVE  Fresh'
    BY <1>3 DEF ListTriggers, Leave, Outage, AcquireLock, Job, Idle
  <1>4. ASSUME NEW r \in Replicas, NEW t \in Triggers, Skip(r, t)
        PROVE  Fresh'
    BY <1>4 DEF Skip, Leave, Outage, AcquireLock, Job, Idle
  <1>5. ASSUME NEW r \in Replicas, NEW t \in Triggers, Take(r, t)
        PROVE  Fresh'
    BY <1>5 DEF Take, Leave, Outage, AcquireLock, Job, Idle
  <1>6. ASSUME NEW r \in Replicas, NEW t \in Triggers, TakeInVain(r, t)
        PROVE  Fresh'
    BY <1>6 DEF TakeInVain, Leave, Outage, AcquireLock, Job, Idle
  <1>7. ASSUME NEW r \in Replicas, NEW t \in Triggers, RemoveFromPending(r, t)
        PROVE  Fresh'
    BY <1>7 DEF RemoveFromPending, Leave, Outage, AcquireLock, Job, Idle
  <1>8. ASSUME NEW r \in Replicas, NoPlaybook(r)
        PROVE  Fresh'
    BY <1>8 DEF NoPlaybook, Leave, Outage, AcquireLock, Job, Idle
  <1>9. ASSUME NEW r \in Replicas, StartRun(r)
        PROVE  Fresh'
    BY <1>9 DEF StartRun, Leave, Outage, AcquireLock, Job, Idle
  <1>10. ASSUME NEW r \in Replicas, FinishRun(r)
        PROVE  Fresh'
    BY <1>10 DEF FinishRun, Leave, Outage, AcquireLock, Job, Idle
  <1>11. ASSUME NEW r \in Replicas, RunRaises(r)
        PROVE  Fresh'
    BY <1>11 DEF RunRaises, Leave, Outage, AcquireLock, Job, Idle
  <1>12. ASSUME NEW r \in Replicas, SessionBreaks(r)
        PROVE  Fresh'
    BY <1>12 DEF SessionBreaks, Abandon, Leave, Outage, AcquireLock, Job, Idle
  <1>13. ASSUME NEW r \in Replicas, Restart(r)
        PROVE  Fresh'
    BY <1>13 DEF Restart, Abandon, Leave, Outage, AcquireLock, Job, Idle
  <1>15. ASSUME NEW r \in Replicas, PassBreaks(r)
        PROVE  Fresh'
    BY <1>15 DEF PassBreaks, Abandon, Leave, Outage, AcquireLock, Job, Idle
  <1>14. ASSUME NEW t \in Triggers, LockExpires(t)
        PROVE  Fresh'
    BY <1>14 DEF LockExpires, Leave, Outage, AcquireLock, Job, Idle
  <1> QED
    BY <1>1, <1>2, <1>3, <1>4, <1>5, <1>6, <1>7, <1>8, <1>9, <1>10, <1>11,
         <1>12, <1>13, <1>14, <1>15 DEF CronNext, ReplicaNext

LEMMA OnceStep ==
  ASSUME CronTypeOK, Clock, Fresh, CronOnce, CronNext
  PROVE  CronOnce'
  <1> USE CronAssumption DEF CronTypeOK, Clock, Fresh, CronOnce, cronVars, clockVars, passVars, cronHistory
  <1>1. ASSUME Tick
        PROVE  CronOnce'
    BY <1>1 DEF Tick, Leave, Outage, AcquireLock, Job, Idle
  <1>2. ASSUME MinutePasses
        PROVE  CronOnce'
    BY <1>2 DEF MinutePasses, Leave, Outage, AcquireLock, Job, Idle
  <1>3. ASSUME NEW r \in Replicas, ListTriggers(r)
        PROVE  CronOnce'
    BY <1>3 DEF ListTriggers, Leave, Outage, AcquireLock, Job, Idle
  <1>4. ASSUME NEW r \in Replicas, NEW t \in Triggers, Skip(r, t)
        PROVE  CronOnce'
    BY <1>4 DEF Skip, Leave, Outage, AcquireLock, Job, Idle
  <1>5. ASSUME NEW r \in Replicas, NEW t \in Triggers, Take(r, t)
        PROVE  CronOnce'
    BY <1>5 DEF Take, Leave, Outage, AcquireLock, Job, Idle
  <1>6. ASSUME NEW r \in Replicas, NEW t \in Triggers, TakeInVain(r, t)
        PROVE  CronOnce'
    BY <1>6 DEF TakeInVain, Leave, Outage, AcquireLock, Job, Idle
  <1>7. ASSUME NEW r \in Replicas, NEW t \in Triggers, RemoveFromPending(r, t)
        PROVE  CronOnce'
    BY <1>7 DEF RemoveFromPending, Leave, Outage, AcquireLock, Job, Idle
  <1>8. ASSUME NEW r \in Replicas, NoPlaybook(r)
        PROVE  CronOnce'
    BY <1>8 DEF NoPlaybook, Leave, Outage, AcquireLock, Job, Idle
  <1>9. ASSUME NEW r \in Replicas, StartRun(r)
        PROVE  CronOnce'
    BY <1>9 DEF StartRun, Leave, Outage, AcquireLock, Job, Idle
  <1>10. ASSUME NEW r \in Replicas, FinishRun(r)
        PROVE  CronOnce'
    BY <1>10 DEF FinishRun, Leave, Outage, AcquireLock, Job, Idle
  <1>11. ASSUME NEW r \in Replicas, RunRaises(r)
        PROVE  CronOnce'
    BY <1>11 DEF RunRaises, Leave, Outage, AcquireLock, Job, Idle
  <1>12. ASSUME NEW r \in Replicas, SessionBreaks(r)
        PROVE  CronOnce'
    BY <1>12 DEF SessionBreaks, Abandon, Leave, Outage, AcquireLock, Job, Idle
  <1>13. ASSUME NEW r \in Replicas, Restart(r)
        PROVE  CronOnce'
    BY <1>13 DEF Restart, Abandon, Leave, Outage, AcquireLock, Job, Idle
  <1>15. ASSUME NEW r \in Replicas, PassBreaks(r)
        PROVE  CronOnce'
    BY <1>15 DEF PassBreaks, Abandon, Leave, Outage, AcquireLock, Job, Idle
  <1>14. ASSUME NEW t \in Triggers, LockExpires(t)
        PROVE  CronOnce'
    BY <1>14 DEF LockExpires, Leave, Outage, AcquireLock, Job, Idle
  <1> QED
    BY <1>1, <1>2, <1>3, <1>4, <1>5, <1>6, <1>7, <1>8, <1>9, <1>10, <1>11,
         <1>12, <1>13, <1>14, <1>15 DEF CronNext, ReplicaNext

-----------------------------------------------------------------------------

LEMMA InvariantInit ==
  ASSUME Init
  PROVE  TriggersInv
  <1> USE WebhookAssumption, CronAssumption, TableAssumption
      DEF Init, TableInit, WebhookInit, CronInit
  <1>1. TypeOK
    <2>1. WebhookTypeOK
      BY DEF WebhookTypeOK
    <2>2. CronTypeOK
      <3>1. slot \in 1..MaxSlot /\ outages \in 0..MaxOutages
        OBVIOUS
      <3>2. near \in BOOLEAN
        OBVIOUS
      <3>3. last \in [Triggers -> 0..MaxSlot]
        OBVIOUS
      <3>4. /\ due \in [Replicas -> SUBSET Triggers] /\ at \in [Replicas -> 1..MaxSlot]
            /\ pending \in [Replicas -> SUBSET Triggers]
        OBVIOUS
      <3>5. /\ current \in [Replicas -> Triggers \union {NoTrigger}]
            /\ running \in [Replicas -> BOOLEAN] /\ broken \in [Replicas -> BOOLEAN]
        OBVIOUS
      <3> QED
        BY <3>1, <3>2, <3>3, <3>4, <3>5 DEF CronTypeOK
    <2> QED
      BY <2>1, <2>2 DEF TypeOK
  <1>2. WebhookInv
    BY DEF WebhookInv, Rows, RowOf, Open, Committed, OneRow, Overlaps, Past, Alike,
           AnswersAgree, RefusalExplained
  <1>3. CronInv
    BY DEF CronInv, Clock, HasLock, Apart, Stamped, Fenced, Fresh, CronOnce
  <1> QED
    BY <1>1, <1>2, <1>3 DEF TriggersInv

(* A step of the webhooks leaves the schedules alone, and the reverse.     *)
LEMMA WebhookFrame ==
  ASSUME WebhookTypeOK, WebhookInv, UNCHANGED webhookVars
  PROVE  WebhookTypeOK' /\ WebhookInv'
  BY DEF webhookVars, WebhookTypeOK, WebhookInv, Rows, RowOf, Open, Committed, OneRow,
         SameKey, Overlaps, Past, Alike, AnswersAgree, RefusalExplained

LEMMA CronFrame ==
  ASSUME CronTypeOK, CronInv, UNCHANGED cronVars
  PROVE  CronTypeOK' /\ CronInv'
  BY DEF cronVars, CronTypeOK, CronInv, Clock, HasLock, Apart, Stamped, RunsNow, Fenced,
         Fresh, CronOnce, Job

LEMMA InvariantStep ==
  ASSUME TriggersInv, [Next]_vars
  PROVE  TriggersInv'
  <1> USE DEF TriggersInv, TypeOK
  <1>1. CASE WebhookNext /\ UNCHANGED cronVars
    <2>1. WebhookTypeOK' /\ WebhookInv'
      BY <1>1, WebhookTypes, RowsStep, OneRowStep, OverlapsStep, AnswersStep, RefusalStep
         DEF WebhookInv
    <2>2. CronTypeOK' /\ CronInv'
      BY <1>1, CronFrame
    <2>3. type' \in Deployments
      BY <1>1 DEF WebhookNext
    <2> QED
      BY <2>1, <2>2, <2>3
  <1>2. CASE CronNext /\ UNCHANGED webhookVars
    <2>1. CronTypeOK' /\ CronInv'
      BY <1>2, CronTypes, ClockStep, HasLockStep, ApartStep, StampedStep, FencedStep,
         FreshStep, OnceStep DEF CronInv
    <2>2. WebhookTypeOK' /\ WebhookInv'
      BY <1>2, WebhookFrame
    <2>3. type' \in Deployments
      BY <1>2 DEF CronNext
    <2> QED
      BY <2>1, <2>2, <2>3
  <1>3. CASE UNCHANGED vars
    <2>1. UNCHANGED webhookVars /\ UNCHANGED cronVars /\ UNCHANGED type
      BY <1>3 DEF vars
    <2> QED
      BY <2>1, WebhookFrame, CronFrame
  <1> QED
    BY <1>1, <1>2, <1>3 DEF Next

THEOREM Invariance == Spec => []TriggersInv
  <1> QED
    BY InvariantInit, InvariantStep, PTL DEF Spec

-----------------------------------------------------------------------------
(* The properties.                                                         *)

(* The variables have their types.                                         *)
THEOREM TypeCorrect == Spec => []TypeOK
  <1>1. TriggersInv => TypeOK
    BY DEF TriggersInv
  <1> QED
    BY <1>1, Invariance, PTL

(* For any number of deliveries, triggers, keys and payloads: one key runs *)
(* one playbook that commits.                                              *)
THEOREM KeysRunOnce == Spec => []KeyOnce
  <1>1. TriggersInv => KeyOnce
    BY DEF TriggersInv, TypeOK, WebhookTypeOK, WebhookInv, Rows, RowOf, Open, Committed,
           OneRow, SameKey, KeyOnce
  <1> QED
    BY <1>1, Invariance, PTL

(* A request without a key runs twice only if two deliveries overlapped,   *)
(* one was cut off or one is older than 24 hours.                          *)
THEOREM RepeatsHaveCause == Spec => []RepeatsExplained
  <1>1. TriggersInv => RepeatsExplained
    BY DEF TriggersInv, TypeOK, WebhookTypeOK, WebhookInv, Rows, RowOf, Overlaps, Past,
           RepeatsExplained
  <1> QED
    BY <1>1, Invariance, PTL

(* A request is refused for a double row only after two of its deliveries  *)
(* overlapped.                                                             *)
THEOREM RefusalsHaveCause == Spec => []RefusalExplained
  <1>1. TriggersInv => RefusalExplained
    BY DEF TriggersInv, WebhookInv
  <1> QED
    BY <1>1, Invariance, PTL

(* Replies name committed invocations that agree with their run.           *)
THEOREM AnswersTruthful == Spec => []AnswersAgree
  <1>1. TriggersInv => AnswersAgree
    BY DEF TriggersInv, WebhookInv
  <1> QED
    BY <1>1, Invariance, PTL

(* For any number of replicas, triggers and slots: a slot is run twice     *)
(* only where the lock did not hold or the run did not commit.             *)
THEOREM SlotsRunOnce == Spec => []CronOnce
  <1>1. TriggersInv => CronOnce
    BY DEF TriggersInv, CronInv
  <1> QED
    BY <1>1, Invariance, PTL

(* Two replicas run a trigger at a time only when a lock did not hold.     *)
THEOREM ReplicasApart == Spec => []RunsApart
  <1>1. TriggersInv => RunsApart
    BY DEF TriggersInv, TypeOK, CronTypeOK, CronInv, Apart, RunsApart, Idle, Job
  <1> QED
    BY <1>1, Invariance, PTL

-----------------------------------------------------------------------------
(* The rows of the deliveries implement idempotency keys.                  *)

KeyOf(d) == request[d].key

(* A delivery with an open transaction has its key alone and for now.      *)
LEMMA OpenHasKey ==
  ASSUME WebhookTypeOK, OneRow, NEW d \in Deliveries, invocation[d] = "pending", KeyOf(d) \in Keys
  PROVE  Owner[KeyOf(d)] = {d} /\ KeyOf(d) \notin Kept
  <1>1. KeyOf(d) # NoKey
    BY WebhookAssumption
  <1>2. \A e \in Deliveries : invocation[e] # "none" /\ KeyOf(e) = KeyOf(d) => e = d
    BY <1>1 DEF OneRow, SameKey, KeyOf
  <1>3. Owner[KeyOf(d)] = {e \in Deliveries : invocation[e] # "none" /\ KeyOf(e) = KeyOf(d)}
    BY DEF Owner, KeyOf
  <1>4. Owner[KeyOf(d)] = {d}
    BY <1>2, <1>3
  <1>5. KeyOf(d) \notin Kept
    BY <1>2 DEF Kept, Committed, KeyOf
  <1> QED
    BY <1>4, <1>5

(* A step that adds and removes no row and starts no playbook, and changes *)
(* the request of no delivery with either, leaves the keys alone.          *)
LEMMA KeysUntouched ==
  ASSUME invocation' = invocation, ran' = ran,
         \A e \in Deliveries : invocation[e] # "none" \/ e \in ran => request'[e] = request[e],
         WebhookTypeOK
  PROVE  UNCHANGED Register!keyVars
  <1>1. Owner' = Owner
    BY DEF Owner
  <1>2. Begun' = Begun
    BY DEF Begun, WebhookTypeOK
  <1>3. Kept' = Kept
    BY DEF Kept, Committed
  <1> QED
    BY <1>1, <1>2, <1>3 DEF Register!keyVars

(* Only a change of a row concerns its key, and only that one.             *)
LEMMA RowChange ==
  ASSUME WebhookTypeOK, NEW d \in Deliveries, NEW s \in {"none", "pending", "success", "failed"},
         invocation' = [invocation EXCEPT ![d] = s], UNCHANGED <<request, ran>>
  PROVE  /\ Begun' = Begun
         /\ \A k \in Keys : k # KeyOf(d) => Owner'[k] = Owner[k] /\ (k \in Kept' <=> k \in Kept)
         /\ KeyOf(d) \in Keys =>
              Owner'[KeyOf(d)] = IF s = "none" THEN Owner[KeyOf(d)] \ {d} ELSE Owner[KeyOf(d)] \union {d}
  <1> USE DEF WebhookTypeOK
  <1>1. Begun' = Begun
    BY DEF Begun
  <1>2. ASSUME NEW k \in Keys, k # KeyOf(d)
        PROVE  Owner'[k] = Owner[k] /\ (k \in Kept' <=> k \in Kept)
    <2>1. \A e \in Deliveries : KeyOf(e) = k => invocation'[e] = invocation[e]
      BY <1>2 DEF KeyOf
    <2>2. Owner'[k] = Owner[k]
      BY <2>1 DEF Owner, KeyOf
    <2>3. k \in Kept' <=> k \in Kept
      BY <2>1 DEF Kept, Committed, KeyOf
    <2> QED
      BY <2>2, <2>3
  <1>3. ASSUME KeyOf(d) \in Keys
        PROVE  Owner'[KeyOf(d)] = IF s = "none" THEN Owner[KeyOf(d)] \ {d} ELSE Owner[KeyOf(d)] \union {d}
    <2>1. /\ Owner[KeyOf(d)] = {e \in Deliveries : invocation[e] # "none" /\ KeyOf(e) = KeyOf(d)}
          /\ Owner'[KeyOf(d)] = {e \in Deliveries : invocation'[e] # "none" /\ KeyOf(e) = KeyOf(d)}
      BY <1>3 DEF Owner, KeyOf
    <2>2. invocation'[d] = s /\ \A e \in Deliveries : e # d => invocation'[e] = invocation[e]
      OBVIOUS
    <2> QED
      BY <2>1, <2>2
  <1> QED
    BY <1>1, <1>2, <1>3

(* A commit keeps the key of the delivery, if it has one.                  *)
LEMMA CommitRefines ==
  ASSUME WebhookTypeOK, OneRow, NEW d \in Deliveries, NEW s \in {"success", "failed"},
         invocation[d] = "pending",
         invocation' = [invocation EXCEPT ![d] = s], UNCHANGED <<request, ran>>
  PROVE  Register!Next \/ UNCHANGED Register!keyVars
  <1>1. /\ Begun' = Begun
        /\ \A k \in Keys : k # KeyOf(d) => Owner'[k] = Owner[k] /\ (k \in Kept' <=> k \in Kept)
        /\ KeyOf(d) \in Keys => Owner'[KeyOf(d)] = Owner[KeyOf(d)] \union {d}
    BY RowChange
  <1>2. CASE KeyOf(d) \in Keys
    <2>1. Owner[KeyOf(d)] = {d} /\ KeyOf(d) \notin Kept
      BY <1>2, OpenHasKey
    <2>2. Owner' = Owner
      <3>1. \A k \in Keys : Owner'[k] = Owner[k]
        BY <1>1, <2>1
      <3> QED
        BY <3>1 DEF Owner
    <2>3. KeyOf(d) \in Kept'
      BY <1>2 DEF Kept, Committed, KeyOf, WebhookTypeOK
    <2>4. Kept' = Kept \union {KeyOf(d)}
      BY <1>1, <2>3 DEF Kept
    <2>5. Register!Keep(KeyOf(d))
      BY <1>1, <2>1, <2>2, <2>4 DEF Register!Keep
    <2> QED
      BY <1>2, <2>5 DEF Register!Next
  <1>3. CASE KeyOf(d) \notin Keys
    <2>1. \A k \in Keys : Owner'[k] = Owner[k] /\ (k \in Kept' <=> k \in Kept)
      BY <1>1, <1>3
    <2>2. Owner' = Owner
      BY <2>1 DEF Owner
    <2>3. Kept' = Kept
      BY <2>1 DEF Kept
    <2> QED
      BY <1>1, <2>2, <2>3 DEF Register!keyVars
  <1> QED
    BY <1>2, <1>3

(* The INSERT takes the key, which the unique index found free.            *)
LEMMA RecordRefines ==
  ASSUME WebhookTypeOK, Rows, NEW d \in Deliveries, Record(d)
  PROVE  Register!Next \/ UNCHANGED Register!keyVars
  <1>1. /\ Begun' = Begun
        /\ \A k \in Keys : k # KeyOf(d) => Owner'[k] = Owner[k] /\ (k \in Kept' <=> k \in Kept)
        /\ KeyOf(d) \in Keys => Owner'[KeyOf(d)] = Owner[KeyOf(d)] \union {d}
    BY RowChange DEF Record
  <1>2. Kept' = Kept
    <2>1. ~Committed(d) /\ ~Committed(d)'
      BY DEF Record, Rows, RowOf, Committed, WebhookTypeOK
    <2>2. \A e \in Deliveries : Committed(e)' <=> Committed(e)
      BY <2>1 DEF Record, Committed, WebhookTypeOK
    <2>3. request' = request
      BY DEF Record
    <2> QED
      BY <2>2, <2>3 DEF Kept
  <1>3. CASE KeyOf(d) \in Keys
    <2>1. Owner[KeyOf(d)] = {}
      <3>1. KeyOf(d) # NoKey
        BY <1>3, WebhookAssumption
      <3> QED
        BY <1>3, <3>1 DEF Owner, KeyOf, Record, KeyHolders
    <2>2. Owner' = [Owner EXCEPT ![KeyOf(d)] = {d}]
      <3>1. \A k \in Keys : Owner'[k] = [Owner EXCEPT ![KeyOf(d)] = {d}][k]
        BY <1>1, <1>3, <2>1 DEF Owner
      <3> QED
        BY <3>1 DEF Owner
    <2>3. Register!Acquire(KeyOf(d), d)
      BY <1>1, <1>2, <2>1, <2>2 DEF Register!Acquire
    <2> QED
      BY <1>3, <2>3 DEF Register!Next
  <1>4. CASE KeyOf(d) \notin Keys
    <2>1. Owner' = Owner
      <3>1. \A k \in Keys : Owner'[k] = Owner[k]
        BY <1>1, <1>4
      <3> QED
        BY <3>1 DEF Owner
    <2> QED
      BY <1>1, <1>2, <2>1 DEF Register!keyVars
  <1> QED
    BY <1>3, <1>4

(* The rollback gives the key back.                                        *)
LEMMA CutOffRefines ==
  ASSUME WebhookTypeOK, Rows, OneRow, NEW d \in Deliveries, CutOff(d)
  PROVE  Register!Next \/ UNCHANGED Register!keyVars
  <1>1. /\ Begun' = Begun
        /\ \A k \in Keys : k # KeyOf(d) => Owner'[k] = Owner[k] /\ (k \in Kept' <=> k \in Kept)
        /\ KeyOf(d) \in Keys => Owner'[KeyOf(d)] = Owner[KeyOf(d)] \ {d}
    BY RowChange DEF CutOff
  <1>2. invocation[d] = "pending"
    BY DEF CutOff, Rows, RowOf, Open
  <1>3. Kept' = Kept
    <2>1. \A e \in Deliveries : Committed(e)' <=> Committed(e)
      BY <1>2 DEF CutOff, Committed, WebhookTypeOK
    <2>2. request' = request
      BY DEF CutOff
    <2> QED
      BY <2>1, <2>2 DEF Kept
  <1>4. CASE KeyOf(d) \in Keys
    <2>1. Owner[KeyOf(d)] = {d} /\ KeyOf(d) \notin Kept
      BY <1>2, <1>4, OpenHasKey
    <2>2. Owner' = [Owner EXCEPT ![KeyOf(d)] = {}]
      <3>1. \A k \in Keys : Owner'[k] = [Owner EXCEPT ![KeyOf(d)] = {}][k]
        BY <1>1, <1>4, <2>1 DEF Owner
      <3> QED
        BY <3>1 DEF Owner
    <2>3. Register!GiveBack(KeyOf(d))
      BY <1>1, <1>3, <2>1, <2>2 DEF Register!GiveBack
    <2> QED
      BY <1>4, <2>3 DEF Register!Next
  <1>5. CASE KeyOf(d) \notin Keys
    <2>1. Owner' = Owner
      <3>1. \A k \in Keys : Owner'[k] = Owner[k]
        BY <1>1, <1>5
      <3> QED
        BY <3>1 DEF Owner
    <2> QED
      BY <1>1, <1>3, <2>1 DEF Register!keyVars
  <1> QED
    BY <1>4, <1>5

(* The playbook is begun once, by the delivery that has the key.           *)
LEMMA StartRefines ==
  ASSUME WebhookTypeOK, Rows, OneRow, NEW d \in Deliveries, StartPlaybook(d)
  PROVE  Register!Next \/ UNCHANGED Register!keyVars
  <1>1. invocation[d] = "pending" /\ d \notin ran
    BY DEF StartPlaybook, Rows, RowOf, Open, Committed
  <1>2. /\ invocation' = invocation /\ request' = request
        /\ ran' = ran \union {d}
    BY DEF StartPlaybook
  <1>3. Owner' = Owner /\ Kept' = Kept
    BY <1>2 DEF Owner, Kept, Committed
  <1>4. \A k \in Keys : Begun'[k] = IF k = KeyOf(d) THEN Begun[k] \union {d} ELSE Begun[k]
    BY <1>2 DEF Begun, KeyOf
  <1>5. CASE KeyOf(d) \in Keys
    <2>1. Owner[KeyOf(d)] = {d} /\ KeyOf(d) \notin Kept
      BY <1>1, <1>5, OpenHasKey
    <2>2. d \notin Begun[KeyOf(d)]
      BY <1>1, <1>5 DEF Begun
    <2>3. Begun' = [Begun EXCEPT ![KeyOf(d)] = @ \union {d}]
      BY <1>4 DEF Begun
    <2>4. Register!Begin(KeyOf(d), d)
      BY <1>3, <2>1, <2>2, <2>3 DEF Register!Begin
    <2> QED
      BY <1>5, <2>4 DEF Register!Next
  <1>6. CASE KeyOf(d) \notin Keys
    <2>1. Begun' = Begun
      BY <1>4, <1>6 DEF Begun
    <2> QED
      BY <1>3, <2>1 DEF Register!keyVars
  <1> QED
    BY <1>5, <1>6

LEMMA DeliveryRefines ==
  ASSUME WebhookTypeOK, Rows, OneRow, WebhookNext
  PROVE  Register!Next \/ UNCHANGED Register!keyVars
  <1>1. ASSUME NEW d \in Deliveries, CheckHash(d) \/ RecordFails(d) \/ Expire(d)
        PROVE  UNCHANGED Register!keyVars
    BY <1>1, KeysUntouched DEF CheckHash, RecordFails, Expire
  <1>2. ASSUME NEW d \in Deliveries, NEW r \in Traffic, Receive(d, r)
        PROVE  UNCHANGED Register!keyVars
    <2>1. invocation[d] = "none" /\ d \notin ran
      BY <1>2 DEF Receive, WebhookTypeOK, Rows, RowOf, Open, Committed
    <2> QED
      BY <1>2, <2>1, KeysUntouched DEF Receive, WebhookTypeOK
  <1>3. ASSUME NEW d \in Deliveries, Record(d)
        PROVE  Register!Next \/ UNCHANGED Register!keyVars
    BY <1>3, RecordRefines
  <1>4. ASSUME NEW d \in Deliveries, NothingToRun(d) \/ PlaybookRaises(d)
        PROVE  Register!Next \/ UNCHANGED Register!keyVars
    <2>1. invocation[d] = "pending"
      BY <1>4 DEF NothingToRun, PlaybookRaises, Rows, RowOf, Open
    <2> QED
      BY <1>4, <2>1, CommitRefines DEF NothingToRun, PlaybookRaises
  <1>5. ASSUME NEW d \in Deliveries, NEW status \in Outcomes, FinishPlaybook(d, status)
        PROVE  Register!Next \/ UNCHANGED Register!keyVars
    <2>1. invocation[d] = "pending"
      BY <1>5 DEF FinishPlaybook, Rows, RowOf, Open
    <2> QED
      BY <1>5, <2>1, CommitRefines DEF FinishPlaybook
  <1>6. ASSUME NEW d \in Deliveries, StartPlaybook(d)
        PROVE  Register!Next \/ UNCHANGED Register!keyVars
    BY <1>6, StartRefines
  <1>7. ASSUME NEW d \in Deliveries, CutOff(d)
        PROVE  Register!Next \/ UNCHANGED Register!keyVars
    BY <1>7, CutOffRefines
  <1> QED
    BY <1>1, <1>2, <1>3, <1>4, <1>5, <1>6, <1>7 DEF WebhookNext, DeliveryNext

(* For any number of deliveries, triggers and keys: the invocation rows    *)
(* implement idempotency keys, each had by one delivery at a time and kept *)
(* by the first that commits.                                              *)
THEOREM RowsImplementKeys == Spec => ImplementsIdempotencyKeys
  <1>1. Init => Register!Init
    BY DEF Init, WebhookInit, Register!Init, Owner, Begun, Kept, Committed
  <1>2. TriggersInv /\ [Next]_vars => [Register!Next]_(Register!keyVars)
    <2> SUFFICES ASSUME TriggersInv, [Next]_vars
                 PROVE  Register!Next \/ UNCHANGED Register!keyVars
      OBVIOUS
    <2>1. WebhookTypeOK /\ Rows /\ OneRow
      BY DEF TriggersInv, TypeOK, WebhookInv
    <2>2. CASE WebhookNext
      BY <2>1, <2>2, DeliveryRefines
    <2>3. CASE UNCHANGED webhookVars
      BY <2>1, <2>3, KeysUntouched DEF webhookVars
    <2> QED
      BY <2>2, <2>3 DEF Next, vars
  <1> QED
    BY <1>1, <1>2, Invariance, PTL DEF Spec, ImplementsIdempotencyKeys, Register!Spec
=============================================================================
