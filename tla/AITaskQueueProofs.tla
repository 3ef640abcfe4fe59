-------------------------- MODULE AITaskQueueProofs --------------------------
(***************************************************************************)
(* Proofs about AITaskQueue.  The argument: the chance of a task to be     *)
(* attempted is a token that moves from the submitting request into the    *)
(* queue, to the processor loop, to a worker and, on a retry, back into    *)
(* the queue.  A process never has more than one token of a task; none     *)
(* before its row exists and none once the row is completed, unless the    *)
(* commit was reported as failed; and, while no other replica has the task *)
(* in its queue, every retry pays for one more attempt before the token    *)
(* can reach the model again.                                              *)
(***************************************************************************)
EXTENDS AITaskQueue, FiniteSetTheorems, TLAPS

Attempting == Live \union {"stopping"}

Busy(w, t) == job[w] = t /\ pc[w] \in Attempting

(* No attempt of t is under way or to come here, unless a restart finds it. *)
NoToken(t) ==
  /\ t \notin submitting
  /\ waiting[t] = 0
  /\ held # t
  /\ \A w \in Workers : ~Busy(w, t)

(* The places a token can be in exclude each other.                        *)
OneToken(t) ==
  /\ \A v, w \in Workers : Busy(v, t) /\ Busy(w, t) => v = w
  /\ waiting[t] <= 1
  /\ t \in submitting => waiting[t] = 0 /\ held # t
  /\ waiting[t] > 0 => held # t
  /\ t \in submitting \/ waiting[t] > 0 \/ held = t => \A w \in Workers : ~Busy(w, t)

(* A row that does not exist yet has no token; one that is completed has   *)
(* at most a worker that has done so, is being stopped, or was told that   *)
(* its commit failed.                                                      *)
Spent(t) ==
  /\ status[t] = "absent" => NoToken(t)
  /\ status[t] = "completed" /\ t \notin elsewhere =>
       /\ t \notin submitting /\ waiting[t] = 0 /\ held # t
       /\ \A w \in Workers :
            Busy(w, t) => pc[w] \in {"committed", "stopping"} \/ (pc[w] = "handling" /\ t \in raised)

(* Where a worker is that has marked the row and not yet left the attempt. *)
Marked == {"marking", "calling", "committed", "retrying", "stopping"} \union Handling

(* A token that has not reached the model has an attempt to spend, as long *)
(* as no other replica spends it, too.                                     *)
Funded(t) ==
  t \notin elsewhere =>
    /\ attempts[t] <= 1 + retries[t]
    /\ status[t] \in {"absent", "pending"} => attempts[t] <= retries[t]
    /\ t \in submitting \/ waiting[t] > 0 \/ held = t => attempts[t] <= retries[t]
    /\ \A w \in Workers :
         job[w] = t /\ pc[w] \in {"starting", "marking", "requeueing"} => attempts[t] <= retries[t]
    /\ \A w \in Workers : job[w] = t /\ pc[w] \in Marked => status[t] # "pending"

(* Workers have a task, and are registered under no other.                 *)
Employed ==
  /\ \A w \in Workers : pc[w] # "free" => job[w] \in Tasks
  /\ \A t \in Tasks : running[t] # NoWorker => job[running[t]] = t /\ pc[running[t]] # "free"

(* A process that is down remembers nothing.                               *)
Down == ~up => \A t \in Tasks : NoToken(t)

TokenInv ==
  /\ TypeOK
  /\ Employed
  /\ Down
  /\ \A t \in Tasks : OneToken(t) /\ Spent(t) /\ Funded(t)

-----------------------------------------------------------------------------

LEMMA TypeStep ==
  ASSUME TypeOK, Employed, [Next]_vars
  PROVE  TypeOK'
  <1> USE QueueAssumption DEF procVars, rowVars, apiVars, loopVars, workerVars, otherVars,
          OnlyRowAndWorker, SetStatus, Goto, Put, Mishap,
          TypeOK, Active, Terminal, Live, Handling
  <1>1. ASSUME NEW t \in Tasks, Submit(t)
        PROVE  TypeOK'
    BY <1>1 DEF Submit
  <1>2. ASSUME NEW t \in Tasks, Enqueue(t)
        PROVE  TypeOK'
    BY <1>2 DEF Enqueue
  <1>3. ASSUME NEW t \in Tasks, Take(t)
        PROVE  TypeOK'
    <2>1. waiting' \in [Tasks -> Nat]
      BY <1>3 DEF Take, FirstInLine
    <2>2. held' \in Tasks \union {NoTask}
      BY <1>3 DEF Take
    <2>3. /\ job' \in [Workers -> Tasks \union {NoTask}]
          /\ pc' \in [Workers -> Live \union {"free", "stopping", "leaving"}]
          /\ running' \in [Tasks -> Workers \union {NoWorker}]
      BY <1>3 DEF Take, Spawn
    <2> QED
      BY <1>3, <2>1, <2>2, <2>3 DEF Take
  <1>4. ASSUME NEW t \in Tasks, PollReads(t)
        PROVE  TypeOK'
    BY <1>4 DEF PollReads
  <1>5. ASSUME NEW t \in Tasks, PollWrites(t)
        PROVE  TypeOK'
    BY <1>5 DEF PollWrites
  <1>6. ASSUME NEW t \in Tasks, CancelReads(t)
        PROVE  TypeOK'
    BY <1>6 DEF CancelReads
  <1>7. ASSUME NEW t \in Tasks, CancelWrites(t)
        PROVE  TypeOK'
    BY <1>7 DEF CancelWrites
  <1>8. ASSUME NEW t \in Tasks, CancelStops(t)
        PROVE  TypeOK'
    BY <1>8 DEF CancelStops, Interrupted
  <1>9. ASSUME NEW t \in Tasks, RequestRaises(t)
        PROVE  TypeOK'
    BY <1>9 DEF RequestRaises
  <1>10. CASE StartHeld
    BY <1>10 DEF StartHeld, Spawn
  <1>11. ASSUME NEW w \in Workers, MarkProcessing(w)
        PROVE  TypeOK'
    BY <1>11 DEF MarkProcessing
  <1>12. ASSUME NEW w \in Workers, CallModel(w)
        PROVE  TypeOK'
    <2>1. job[w] \in Tasks
      BY <1>12 DEF CallModel, Employed
    <2>2. attempts' \in [Tasks -> Nat]
      BY <1>12, <2>1 DEF CallModel
    <2> QED
      BY <1>12, <2>2 DEF CallModel
  <1>13. ASSUME NEW w \in Workers, ModelAnswers(w)
        PROVE  TypeOK'
    BY <1>13 DEF ModelAnswers
  <1>14. ASSUME NEW w \in Workers, EndAttempt(w)
        PROVE  TypeOK'
    BY <1>14 DEF EndAttempt
  <1>15. ASSUME NEW w \in Workers, ModelTimesOut(w)
        PROVE  TypeOK'
    BY <1>15 DEF ModelTimesOut
  <1>16. ASSUME NEW w \in Workers, TimeOutTask(w)
        PROVE  TypeOK'
    BY <1>16 DEF TimeOutTask
  <1>17. ASSUME NEW w \in Workers, ModelFails(w)
        PROVE  TypeOK'
    BY <1>17 DEF ModelFails
  <1>18. ASSUME NEW w \in Workers, FailTask(w)
        PROVE  TypeOK'
    BY <1>18 DEF FailTask
  <1>19. ASSUME NEW w \in Workers, Stop(w)
        PROVE  TypeOK'
    BY <1>19 DEF Stop
  <1>20. ASSUME NEW w \in Workers, Retry(w)
        PROVE  TypeOK'
    <2>1. job[w] \in Tasks
      BY <1>20 DEF Retry, Employed
    <2>2. retries' \in [Tasks -> 0..MaxRetries]
      BY <1>20, <2>1 DEF Retry
    <2> QED
      BY <1>20, <2>2 DEF Retry
  <1>21. ASSUME NEW w \in Workers, GiveUp(w)
        PROVE  TypeOK'
    BY <1>21 DEF GiveUp
  <1>22. ASSUME NEW w \in Workers, Requeue(w)
        PROVE  TypeOK'
    <2>1. job[w] \in Tasks
      BY <1>22 DEF Requeue, Employed
    <2>2. waiting' \in [Tasks -> Nat]
      BY <1>22, <2>1 DEF Requeue
    <2> QED
      BY <1>22, <2>2 DEF Requeue
  <1>23. ASSUME NEW w \in Workers, Leave(w)
        PROVE  TypeOK'
    BY <1>23 DEF Leave
  <1>24. ASSUME NEW w \in Workers, WorkerRaises(w)
        PROVE  TypeOK'
    BY <1>24 DEF WorkerRaises
  <1>25. CASE Crash
    <2>1. waiting' \in [Tasks -> Nat] /\ mishaps' \in 0..MaxMishaps
      BY <1>25 DEF Crash, EmptyQueue
    <2>2. /\ job' \in [Workers -> Tasks \union {NoTask}]
          /\ pc' \in [Workers -> Live \union {"free", "stopping", "leaving"}]
          /\ running' \in [Tasks -> Workers \union {NoWorker}]
      BY <1>25 DEF Crash, NoWorkers
    <2>3. canceller' \in [Tasks -> {"idle", "read", "written"}]
      BY <1>25 DEF Crash
    <2>4. poller' \in [Tasks -> {"idle", "overdue"}]
      BY <1>25 DEF Crash
    <2>5. \A S \in {raised', submitting', afar', cancelled', elsewhere', orphans'} : S \subseteq Tasks
      BY <1>25 DEF Crash
    <2>6. up' \in BOOLEAN /\ held' \in Tasks \union {NoTask} /\ UNCHANGED <<status, retries, attempts>>
      BY <1>25 DEF Crash
    <2> QED
      BY <2>1, <2>2, <2>3, <2>4, <2>5, <2>6
  <1>26. CASE Restart
    BY <1>26 DEF Restart
  <1>27. CASE ReplicaStarts
    BY <1>27 DEF ReplicaStarts
  <1>28. ASSUME NEW t \in Tasks, SubmitElsewhere(t)
        PROVE  TypeOK'
    BY <1>28 DEF SubmitElsewhere
  <1>29. ASSUME NEW t \in Tasks, FailOrphan(t)
        PROVE  TypeOK'
    BY <1>29 DEF FailOrphan
  <1>30. ASSUME NEW t \in Tasks, OtherWrites(t)
        PROVE  TypeOK'
    BY <1>30 DEF OtherWrites
  <1>31. CASE UNCHANGED vars
    BY <1>31 DEF vars
  <1> QED
    BY <1>1, <1>2, <1>3, <1>4, <1>5, <1>6, <1>7, <1>8, <1>9, <1>10, <1>11,
       <1>12, <1>13, <1>14, <1>15, <1>16, <1>17, <1>18, <1>19, <1>20, <1>21,
       <1>22, <1>23, <1>24, <1>25, <1>26, <1>27, <1>28, <1>29, <1>30, <1>31
    DEF Next, WorkerStep

LEMMA EmployedStep ==
  ASSUME TypeOK, Employed, [Next]_vars
  PROVE  Employed'
  <1> USE QueueAssumption DEF procVars, rowVars, apiVars, loopVars, workerVars, otherVars,
          OnlyRowAndWorker, SetStatus, Goto, Put, Mishap, Employed, TypeOK
  <1>1. ASSUME NEW t \in Tasks, Submit(t)
        PROVE  Employed'
    BY <1>1 DEF Submit
  <1>2. ASSUME NEW t \in Tasks, Enqueue(t)
        PROVE  Employed'
    BY <1>2 DEF Enqueue
  <1>3. ASSUME NEW t \in Tasks, Take(t)
        PROVE  Employed'
    BY <1>3 DEF Take, Spawn
  <1>4. ASSUME NEW t \in Tasks, PollReads(t)
        PROVE  Employed'
    BY <1>4 DEF PollReads
  <1>5. ASSUME NEW t \in Tasks, PollWrites(t)
        PROVE  Employed'
    BY <1>5 DEF PollWrites
  <1>6. ASSUME NEW t \in Tasks, CancelReads(t)
        PROVE  Employed'
    BY <1>6 DEF CancelReads
  <1>7. ASSUME NEW t \in Tasks, CancelWrites(t)
        PROVE  Employed'
    BY <1>7 DEF CancelWrites
  <1>8. ASSUME NEW t \in Tasks, CancelStops(t)
        PROVE  Employed'
    BY <1>8 DEF CancelStops
  <1>9. ASSUME NEW t \in Tasks, RequestRaises(t)
        PROVE  Employed'
    BY <1>9 DEF RequestRaises
  <1>10. CASE StartHeld
    BY <1>10 DEF StartHeld, Spawn
  <1>11. ASSUME NEW w \in Workers, MarkProcessing(w)
        PROVE  Employed'
    BY <1>11 DEF MarkProcessing
  <1>12. ASSUME NEW w \in Workers, CallModel(w)
        PROVE  Employed'
    BY <1>12 DEF CallModel
  <1>13. ASSUME NEW w \in Workers, ModelAnswers(w)
        PROVE  Employed'
    BY <1>13 DEF ModelAnswers
  <1>14. ASSUME NEW w \in Workers, EndAttempt(w)
        PROVE  Employed'
    BY <1>14 DEF EndAttempt
  <1>15. ASSUME NEW w \in Workers, ModelTimesOut(w)
        PROVE  Employed'
    BY <1>15 DEF ModelTimesOut
  <1>16. ASSUME NEW w \in Workers, TimeOutTask(w)
        PROVE  Employed'
    BY <1>16 DEF TimeOutTask
  <1>17. ASSUME NEW w \in Workers, ModelFails(w)
        PROVE  Employed'
    BY <1>17 DEF ModelFails
  <1>18. ASSUME NEW w \in Workers, FailTask(w)
        PROVE  Employed'
    BY <1>18 DEF FailTask
  <1>19. ASSUME NEW w \in Workers, Stop(w)
        PROVE  Employed'
    BY <1>19 DEF Stop
  <1>20. ASSUME NEW w \in Workers, Retry(w)
        PROVE  Employed'
    BY <1>20 DEF Retry
  <1>21. ASSUME NEW w \in Workers, GiveUp(w)
        PROVE  Employed'
    BY <1>21 DEF GiveUp
  <1>22. ASSUME NEW w \in Workers, Requeue(w)
        PROVE  Employed'
    BY <1>22 DEF Requeue
  <1>23. ASSUME NEW w \in Workers, Leave(w)
        PROVE  Employed'
    BY <1>23 DEF Leave
  <1>24. ASSUME NEW w \in Workers, WorkerRaises(w)
        PROVE  Employed'
    BY <1>24 DEF WorkerRaises
  <1>25. CASE Crash
    BY <1>25 DEF Crash, NoWorkers
  <1>26. CASE Restart
    BY <1>26 DEF Restart
  <1>27. CASE ReplicaStarts
    BY <1>27 DEF ReplicaStarts
  <1>28. ASSUME NEW t \in Tasks, SubmitElsewhere(t)
        PROVE  Employed'
    BY <1>28 DEF SubmitElsewhere
  <1>29. ASSUME NEW t \in Tasks, FailOrphan(t)
        PROVE  Employed'
    BY <1>29 DEF FailOrphan
  <1>30. ASSUME NEW t \in Tasks, OtherWrites(t)
        PROVE  Employed'
    BY <1>30 DEF OtherWrites
  <1>31. CASE UNCHANGED vars
    BY <1>31 DEF vars
  <1> QED
    BY <1>1, <1>2, <1>3, <1>4, <1>5, <1>6, <1>7, <1>8, <1>9, <1>10, <1>11,
       <1>12, <1>13, <1>14, <1>15, <1>16, <1>17, <1>18, <1>19, <1>20, <1>21,
       <1>22, <1>23, <1>24, <1>25, <1>26, <1>27, <1>28, <1>29, <1>30, <1>31
    DEF Next, WorkerStep

LEMMA DownStep ==
  ASSUME TypeOK, Employed, Down, [Next]_vars
  PROVE  Down'
  <1> USE QueueAssumption DEF procVars, rowVars, apiVars, loopVars, workerVars, otherVars,
          OnlyRowAndWorker, SetStatus, Goto, Put, Mishap,
          TypeOK, Employed, Down, NoToken, Busy, Attempting, Live, Handling
  <1>1. ASSUME NEW t \in Tasks, Submit(t)
        PROVE  Down'
    BY <1>1 DEF Submit
  <1>2. ASSUME NEW t \in Tasks, Enqueue(t)
        PROVE  Down'
    BY <1>2 DEF Enqueue
  <1>3. ASSUME NEW t \in Tasks, Take(t)
        PROVE  Down'
    BY <1>3 DEF Take, Spawn
  <1>4. ASSUME NEW t \in Tasks, PollReads(t)
        PROVE  Down'
    BY <1>4 DEF PollReads
  <1>5. ASSUME NEW t \in Tasks, PollWrites(t)
        PROVE  Down'
    BY <1>5 DEF PollWrites
  <1>6. ASSUME NEW t \in Tasks, CancelReads(t)
        PROVE  Down'
    BY <1>6 DEF CancelReads
  <1>7. ASSUME NEW t \in Tasks, CancelWrites(t)
        PROVE  Down'
    BY <1>7 DEF CancelWrites
  <1>8. ASSUME NEW t \in Tasks, CancelStops(t)
        PROVE  Down'
    BY <1>8 DEF CancelStops, Interrupted
  <1>9. ASSUME NEW t \in Tasks, RequestRaises(t)
        PROVE  Down'
    BY <1>9 DEF RequestRaises
  <1>10. CASE StartHeld
    BY <1>10 DEF StartHeld, Spawn
  <1>11. ASSUME NEW w \in Workers, MarkProcessing(w)
        PROVE  Down'
    BY <1>11 DEF MarkProcessing
  <1>12. ASSUME NEW w \in Workers, CallModel(w)
        PROVE  Down'
    BY <1>12 DEF CallModel
  <1>13. ASSUME NEW w \in Workers, ModelAnswers(w)
        PROVE  Down'
    BY <1>13 DEF ModelAnswers
  <1>14. ASSUME NEW w \in Workers, EndAttempt(w)
        PROVE  Down'
    BY <1>14 DEF EndAttempt
  <1>15. ASSUME NEW w \in Workers, ModelTimesOut(w)
        PROVE  Down'
    BY <1>15 DEF ModelTimesOut
  <1>16. ASSUME NEW w \in Workers, TimeOutTask(w)
        PROVE  Down'
    BY <1>16 DEF TimeOutTask
  <1>17. ASSUME NEW w \in Workers, ModelFails(w)
        PROVE  Down'
    BY <1>17 DEF ModelFails
  <1>18. ASSUME NEW w \in Workers, FailTask(w)
        PROVE  Down'
    BY <1>18 DEF FailTask
  <1>19. ASSUME NEW w \in Workers, Stop(w)
        PROVE  Down'
    BY <1>19 DEF Stop
  <1>20. ASSUME NEW w \in Workers, Retry(w)
        PROVE  Down'
    BY <1>20 DEF Retry
  <1>21. ASSUME NEW w \in Workers, GiveUp(w)
        PROVE  Down'
    BY <1>21 DEF GiveUp
  <1>22. ASSUME NEW w \in Workers, Requeue(w)
        PROVE  Down'
    BY <1>22 DEF Requeue
  <1>23. ASSUME NEW w \in Workers, Leave(w)
        PROVE  Down'
    BY <1>23 DEF Leave
  <1>24. ASSUME NEW w \in Workers, WorkerRaises(w)
        PROVE  Down'
    BY <1>24 DEF WorkerRaises
  <1>25. CASE Crash
    BY <1>25 DEF Crash, EmptyQueue
  <1>26. CASE Restart
    BY <1>26 DEF Restart
  <1>27. CASE ReplicaStarts
    BY <1>27 DEF ReplicaStarts
  <1>28. ASSUME NEW t \in Tasks, SubmitElsewhere(t)
        PROVE  Down'
    BY <1>28 DEF SubmitElsewhere
  <1>29. ASSUME NEW t \in Tasks, FailOrphan(t)
        PROVE  Down'
    BY <1>29 DEF FailOrphan
  <1>30. ASSUME NEW t \in Tasks, OtherWrites(t)
        PROVE  Down'
    BY <1>30 DEF OtherWrites
  <1>31. CASE UNCHANGED vars
    BY <1>31 DEF vars
  <1> QED
    BY <1>1, <1>2, <1>3, <1>4, <1>5, <1>6, <1>7, <1>8, <1>9, <1>10, <1>11,
       <1>12, <1>13, <1>14, <1>15, <1>16, <1>17, <1>18, <1>19, <1>20, <1>21,
       <1>22, <1>23, <1>24, <1>25, <1>26, <1>27, <1>28, <1>29, <1>30, <1>31
    DEF Next, WorkerStep

LEMMA OneTokenStep ==
  ASSUME TypeOK, Employed, Down, \A t \in Tasks : OneToken(t) /\ Spent(t), [Next]_vars,
         NEW u \in Tasks
  PROVE  OneToken(u)'
  <1> USE QueueAssumption DEF procVars, rowVars, apiVars, loopVars, workerVars, otherVars,
          OnlyRowAndWorker, SetStatus, Goto, Put, Mishap,
          TypeOK, Employed, Busy, Attempting, Live, Handling, OneToken
  <1>1. ASSUME NEW t \in Tasks, Submit(t)
        PROVE  OneToken(u)'
    BY <1>1 DEF Submit, Spent, NoToken
  <1>2. ASSUME NEW t \in Tasks, Enqueue(t)
        PROVE  OneToken(u)'
    BY <1>2 DEF Enqueue
  <1>3. ASSUME NEW t \in Tasks, Take(t)
        PROVE  OneToken(u)'
    <2>1. /\ waiting[t] > 0 /\ held = NoTask /\ t # NoTask /\ u # NoTask
          /\ waiting[t] \in Nat /\ waiting[u] \in Nat
          /\ waiting' = [waiting EXCEPT ![t] = @ - 1] /\ submitting' = submitting
      BY <1>3 DEF Take, FirstInLine
    <2>2. waiting'[t] = waiting[t] - 1 /\ (u # t => waiting'[u] = waiting[u])
      BY <2>1
    <2>3. waiting[t] = 1 /\ t \notin submitting /\ \A w \in Workers : ~Busy(w, t)
      BY <2>1
    <2>4. CASE Spawn(t) /\ UNCHANGED held
      <3>1. PICK w \in Workers : /\ pc[w] = "free"
                                 /\ pc' = [pc EXCEPT ![w] = "starting"]
                                 /\ job' = [job EXCEPT ![w] = t]
        BY <2>4 DEF Spawn
      <3>2. \A v \in Workers : Busy(v, u)' <=> Busy(v, u) \/ (v = w /\ u = t)
        BY <3>1
      <3> HIDE DEF Busy
      <3>3. CASE u = t
        BY <2>1, <2>2, <2>3, <2>4, <3>2, <3>3
      <3>4. CASE u # t
        BY <2>1, <2>2, <2>4, <3>2, <3>4
      <3> QED
        BY <3>3, <3>4
    <2>5. CASE held' = t /\ UNCHANGED <<running, job, pc>>
      <3>1. \A v \in Workers : Busy(v, u)' <=> Busy(v, u)
        BY <2>5
      <3> HIDE DEF Busy
      <3>2. CASE u = t
        BY <2>1, <2>2, <2>3, <2>5, <3>1, <3>2
      <3>3. CASE u # t
        BY <2>1, <2>2, <2>5, <3>1, <3>3
      <3> QED
        BY <3>2, <3>3
    <2> QED
      BY <1>3, <2>4, <2>5 DEF Take
  <1>4. ASSUME NEW t \in Tasks, PollReads(t)
        PROVE  OneToken(u)'
    BY <1>4 DEF PollReads
  <1>5. ASSUME NEW t \in Tasks, PollWrites(t)
        PROVE  OneToken(u)'
    BY <1>5 DEF PollWrites
  <1>6. ASSUME NEW t \in Tasks, CancelReads(t)
        PROVE  OneToken(u)'
    BY <1>6 DEF CancelReads
  <1>7. ASSUME NEW t \in Tasks, CancelWrites(t)
        PROVE  OneToken(u)'
    BY <1>7 DEF CancelWrites
  <1>8. ASSUME NEW t \in Tasks, CancelStops(t)
        PROVE  OneToken(u)'
    BY <1>8 DEF CancelStops, Interrupted
  <1>9. ASSUME NEW t \in Tasks, RequestRaises(t)
        PROVE  OneToken(u)'
    BY <1>9 DEF RequestRaises
  <1>10. CASE StartHeld
    BY <1>10 DEF StartHeld, Spawn
  <1>11. ASSUME NEW w \in Workers, MarkProcessing(w)
        PROVE  OneToken(u)'
    BY <1>11 DEF MarkProcessing
  <1>12. ASSUME NEW w \in Workers, CallModel(w)
        PROVE  OneToken(u)'
    BY <1>12 DEF CallModel
  <1>13. ASSUME NEW w \in Workers, ModelAnswers(w)
        PROVE  OneToken(u)'
    BY <1>13 DEF ModelAnswers
  <1>14. ASSUME NEW w \in Workers, EndAttempt(w)
        PROVE  OneToken(u)'
    BY <1>14 DEF EndAttempt
  <1>15. ASSUME NEW w \in Workers, ModelTimesOut(w)
        PROVE  OneToken(u)'
    BY <1>15 DEF ModelTimesOut
  <1>16. ASSUME NEW w \in Workers, TimeOutTask(w)
        PROVE  OneToken(u)'
    BY <1>16 DEF TimeOutTask
  <1>17. ASSUME NEW w \in Workers, ModelFails(w)
        PROVE  OneToken(u)'
    BY <1>17 DEF ModelFails
  <1>18. ASSUME NEW w \in Workers, FailTask(w)
        PROVE  OneToken(u)'
    BY <1>18 DEF FailTask
  <1>19. ASSUME NEW w \in Workers, Stop(w)
        PROVE  OneToken(u)'
    BY <1>19 DEF Stop
  <1>20. ASSUME NEW w \in Workers, Retry(w)
        PROVE  OneToken(u)'
    BY <1>20 DEF Retry
  <1>21. ASSUME NEW w \in Workers, GiveUp(w)
        PROVE  OneToken(u)'
    BY <1>21 DEF GiveUp
  <1>22. ASSUME NEW w \in Workers, Requeue(w)
        PROVE  OneToken(u)'
    BY <1>22 DEF Requeue
  <1>23. ASSUME NEW w \in Workers, Leave(w)
        PROVE  OneToken(u)'
    BY <1>23 DEF Leave
  <1>24. ASSUME NEW w \in Workers, WorkerRaises(w)
        PROVE  OneToken(u)'
    BY <1>24 DEF WorkerRaises
  <1>25. CASE Crash
    BY <1>25 DEF Crash, EmptyQueue
  <1>26. CASE Restart
    BY <1>26 DEF Restart, Down, NoToken
  <1>27. CASE ReplicaStarts
    BY <1>27 DEF ReplicaStarts
  <1>28. ASSUME NEW t \in Tasks, SubmitElsewhere(t)
        PROVE  OneToken(u)'
    BY <1>28 DEF SubmitElsewhere
  <1>29. ASSUME NEW t \in Tasks, FailOrphan(t)
        PROVE  OneToken(u)'
    BY <1>29 DEF FailOrphan
  <1>30. ASSUME NEW t \in Tasks, OtherWrites(t)
        PROVE  OneToken(u)'
    BY <1>30 DEF OtherWrites
  <1>31. CASE UNCHANGED vars
    BY <1>31 DEF vars
  <1> QED
    BY <1>1, <1>2, <1>3, <1>4, <1>5, <1>6, <1>7, <1>8, <1>9, <1>10, <1>11,
       <1>12, <1>13, <1>14, <1>15, <1>16, <1>17, <1>18, <1>19, <1>20, <1>21,
       <1>22, <1>23, <1>24, <1>25, <1>26, <1>27, <1>28, <1>29, <1>30, <1>31
    DEF Next, WorkerStep

LEMMA SpentStep ==
  ASSUME TypeOK, Employed, Down, \A t \in Tasks : OneToken(t) /\ Spent(t), [Next]_vars,
         NEW u \in Tasks
  PROVE  Spent(u)'
  <1> USE QueueAssumption DEF procVars, rowVars, apiVars, loopVars, workerVars, otherVars,
          OnlyRowAndWorker, SetStatus, Goto, Put, Mishap,
          TypeOK, Employed, Busy, Attempting, Live, Handling, Spent, NoToken
  <1>1. ASSUME NEW t \in Tasks, Submit(t)
        PROVE  Spent(u)'
    BY <1>1 DEF Submit
  <1>2. ASSUME NEW t \in Tasks, Enqueue(t)
        PROVE  Spent(u)'
    BY <1>2 DEF Enqueue
  <1>3. ASSUME NEW t \in Tasks, Take(t)
        PROVE  Spent(u)'
    BY <1>3 DEF Take, FirstInLine, Spawn
  <1>4. ASSUME NEW t \in Tasks, PollReads(t)
        PROVE  Spent(u)'
    BY <1>4 DEF PollReads
  <1>5. ASSUME NEW t \in Tasks, PollWrites(t)
        PROVE  Spent(u)'
    BY <1>5 DEF PollWrites
  <1>6. ASSUME NEW t \in Tasks, CancelReads(t)
        PROVE  Spent(u)'
    BY <1>6 DEF CancelReads
  <1>7. ASSUME NEW t \in Tasks, CancelWrites(t)
        PROVE  Spent(u)'
    BY <1>7 DEF CancelWrites
  <1>8. ASSUME NEW t \in Tasks, CancelStops(t)
        PROVE  Spent(u)'
    BY <1>8 DEF CancelStops, Interrupted
  <1>9. ASSUME NEW t \in Tasks, RequestRaises(t)
        PROVE  Spent(u)'
    BY <1>9 DEF RequestRaises
  <1>10. CASE StartHeld
    BY <1>10 DEF StartHeld, Spawn
  <1>11. ASSUME NEW w \in Workers, MarkProcessing(w)
        PROVE  Spent(u)'
    BY <1>11 DEF MarkProcessing
  <1>12. ASSUME NEW w \in Workers, CallModel(w)
        PROVE  Spent(u)'
    BY <1>12 DEF CallModel
  <1>13. ASSUME NEW w \in Workers, ModelAnswers(w)
        PROVE  Spent(u)'
    BY <1>13 DEF ModelAnswers, OneToken
  <1>14. ASSUME NEW w \in Workers, EndAttempt(w)
        PROVE  Spent(u)'
    BY <1>14 DEF EndAttempt
  <1>15. ASSUME NEW w \in Workers, ModelTimesOut(w)
        PROVE  Spent(u)'
    BY <1>15 DEF ModelTimesOut
  <1>16. ASSUME NEW w \in Workers, TimeOutTask(w)
        PROVE  Spent(u)'
    BY <1>16 DEF TimeOutTask
  <1>17. ASSUME NEW w \in Workers, ModelFails(w)
        PROVE  Spent(u)'
    BY <1>17 DEF ModelFails
  <1>18. ASSUME NEW w \in Workers, FailTask(w)
        PROVE  Spent(u)'
    BY <1>18 DEF FailTask
  <1>19. ASSUME NEW w \in Workers, Stop(w)
        PROVE  Spent(u)'
    BY <1>19 DEF Stop
  <1>20. ASSUME NEW w \in Workers, Retry(w)
        PROVE  Spent(u)'
    BY <1>20 DEF Retry, OneToken
  <1>21. ASSUME NEW w \in Workers, GiveUp(w)
        PROVE  Spent(u)'
    BY <1>21 DEF GiveUp
  <1>22. ASSUME NEW w \in Workers, Requeue(w)
        PROVE  Spent(u)'
    BY <1>22 DEF Requeue
  <1>23. ASSUME NEW w \in Workers, Leave(w)
        PROVE  Spent(u)'
    BY <1>23 DEF Leave
  <1>24. ASSUME NEW w \in Workers, WorkerRaises(w)
        PROVE  Spent(u)'
    BY <1>24 DEF WorkerRaises
  <1>25. CASE Crash
    BY <1>25 DEF Crash, EmptyQueue
  <1>26. CASE Restart
    BY <1>26 DEF Restart, Down
  <1>27. CASE ReplicaStarts
    BY <1>27 DEF ReplicaStarts
  <1>28. ASSUME NEW t \in Tasks, SubmitElsewhere(t)
        PROVE  Spent(u)'
    BY <1>28 DEF SubmitElsewhere
  <1>29. ASSUME NEW t \in Tasks, FailOrphan(t)
        PROVE  Spent(u)'
    BY <1>29 DEF FailOrphan
  <1>30. ASSUME NEW t \in Tasks, OtherWrites(t)
        PROVE  Spent(u)'
    BY <1>30 DEF OtherWrites, Active, Terminal
  <1>31. CASE UNCHANGED vars
    BY <1>31 DEF vars
  <1> QED
    BY <1>1, <1>2, <1>3, <1>4, <1>5, <1>6, <1>7, <1>8, <1>9, <1>10, <1>11,
       <1>12, <1>13, <1>14, <1>15, <1>16, <1>17, <1>18, <1>19, <1>20, <1>21,
       <1>22, <1>23, <1>24, <1>25, <1>26, <1>27, <1>28, <1>29, <1>30, <1>31
    DEF Next, WorkerStep

LEMMA FundedStep ==
  ASSUME TypeOK, Employed, Down,
         \A t \in Tasks : OneToken(t) /\ Spent(t) /\ Funded(t), [Next]_vars,
         NEW u \in Tasks
  PROVE  Funded(u)'
  <1> USE QueueAssumption DEF procVars, rowVars, apiVars, loopVars, workerVars, otherVars,
          OnlyRowAndWorker, SetStatus, Goto, Put, Mishap,
          TypeOK, Employed, Busy, Attempting, Live, Handling, Marked, Funded
  <1>1. ASSUME NEW t \in Tasks, Submit(t)
        PROVE  Funded(u)'
    BY <1>1 DEF Submit, Spent, NoToken
  <1>2. ASSUME NEW t \in Tasks, Enqueue(t)
        PROVE  Funded(u)'
    BY <1>2 DEF Enqueue
  <1>3. ASSUME NEW t \in Tasks, Take(t)
        PROVE  Funded(u)'
    BY <1>3 DEF Take, FirstInLine, Spawn
  <1>4. ASSUME NEW t \in Tasks, PollReads(t)
        PROVE  Funded(u)'
    BY <1>4 DEF PollReads
  <1>5. ASSUME NEW t \in Tasks, PollWrites(t)
        PROVE  Funded(u)'
    BY <1>5 DEF PollWrites
  <1>6. ASSUME NEW t \in Tasks, CancelReads(t)
        PROVE  Funded(u)'
    BY <1>6 DEF CancelReads
  <1>7. ASSUME NEW t \in Tasks, CancelWrites(t)
        PROVE  Funded(u)'
    BY <1>7 DEF CancelWrites
  <1>8. ASSUME NEW t \in Tasks, CancelStops(t)
        PROVE  Funded(u)'
    BY <1>8 DEF CancelStops, Interrupted
  <1>9. ASSUME NEW t \in Tasks, RequestRaises(t)
        PROVE  Funded(u)'
    BY <1>9 DEF RequestRaises
  <1>10. CASE StartHeld
    BY <1>10 DEF StartHeld, Spawn
  <1>11. ASSUME NEW w \in Workers, MarkProcessing(w)
        PROVE  Funded(u)'
    BY <1>11 DEF MarkProcessing
  <1>12. ASSUME NEW w \in Workers, CallModel(w)
        PROVE  Funded(u)'
    BY <1>12 DEF CallModel, OneToken, Spent, NoToken
  <1>13. ASSUME NEW w \in Workers, ModelAnswers(w)
        PROVE  Funded(u)'
    BY <1>13 DEF ModelAnswers
  <1>14. ASSUME NEW w \in Workers, EndAttempt(w)
        PROVE  Funded(u)'
    BY <1>14 DEF EndAttempt
  <1>15. ASSUME NEW w \in Workers, ModelTimesOut(w)
        PROVE  Funded(u)'
    BY <1>15 DEF ModelTimesOut
  <1>16. ASSUME NEW w \in Workers, TimeOutTask(w)
        PROVE  Funded(u)'
    BY <1>16 DEF TimeOutTask
  <1>17. ASSUME NEW w \in Workers, ModelFails(w)
        PROVE  Funded(u)'
    BY <1>17 DEF ModelFails
  <1>18. ASSUME NEW w \in Workers, FailTask(w)
        PROVE  Funded(u)'
    BY <1>18 DEF FailTask
  <1>19. ASSUME NEW w \in Workers, Stop(w)
        PROVE  Funded(u)'
    BY <1>19 DEF Stop
  <1>20. ASSUME NEW w \in Workers, Retry(w)
        PROVE  Funded(u)'
    BY <1>20 DEF Retry, OneToken
  <1>21. ASSUME NEW w \in Workers, GiveUp(w)
        PROVE  Funded(u)'
    BY <1>21 DEF GiveUp
  <1>22. ASSUME NEW w \in Workers, Requeue(w)
        PROVE  Funded(u)'
    BY <1>22 DEF Requeue
  <1>23. ASSUME NEW w \in Workers, Leave(w)
        PROVE  Funded(u)'
    BY <1>23 DEF Leave
  <1>24. ASSUME NEW w \in Workers, WorkerRaises(w)
        PROVE  Funded(u)'
    BY <1>24 DEF WorkerRaises
  <1>25. CASE Crash
    BY <1>25 DEF Crash, EmptyQueue
  <1>26. CASE Restart
    BY <1>26 DEF Restart
  <1>27. CASE ReplicaStarts
    BY <1>27 DEF ReplicaStarts
  <1>28. ASSUME NEW t \in Tasks, SubmitElsewhere(t)
        PROVE  Funded(u)'
    BY <1>28 DEF SubmitElsewhere
  <1>29. ASSUME NEW t \in Tasks, FailOrphan(t)
        PROVE  Funded(u)'
    BY <1>29 DEF FailOrphan
  <1>30. ASSUME NEW t \in Tasks, OtherWrites(t)
        PROVE  Funded(u)'
    BY <1>30 DEF OtherWrites
  <1>31. CASE UNCHANGED vars
    BY <1>31 DEF vars
  <1> QED
    BY <1>1, <1>2, <1>3, <1>4, <1>5, <1>6, <1>7, <1>8, <1>9, <1>10, <1>11,
       <1>12, <1>13, <1>14, <1>15, <1>16, <1>17, <1>18, <1>19, <1>20, <1>21,
       <1>22, <1>23, <1>24, <1>25, <1>26, <1>27, <1>28, <1>29, <1>30, <1>31
    DEF Next, WorkerStep

-----------------------------------------------------------------------------

LEMMA TokenStep == TokenInv /\ [Next]_vars => TokenInv'
  BY TypeStep, EmployedStep, DownStep, OneTokenStep, SpentStep, FundedStep DEF TokenInv

LEMMA TokenInvHolds == Spec => []TokenInv
  <1>1. Init => TokenInv
    <2> SUFFICES ASSUME Init PROVE TokenInv
      OBVIOUS
    <2>1. TypeOK
      BY QueueAssumption DEF Init, TypeOK, EmptyQueue, NoWorkers, Idle
    <2>2. Employed /\ Down
      BY DEF Init, Employed, Down, NoWorkers
    <2>3. ASSUME NEW t \in Tasks
          PROVE  NoToken(t)
      BY QueueAssumption DEF Init, NoToken, EmptyQueue, NoWorkers, Busy, Attempting,
                             Live, Handling
    <2>4. ASSUME NEW t \in Tasks
          PROVE  OneToken(t) /\ Spent(t)
      BY <2>3 DEF OneToken, Spent, NoToken
    <2>5. ASSUME NEW t \in Tasks
          PROVE  Funded(t)
      BY <2>1, <2>3 DEF Init, Funded, TypeOK, NoWorkers
    <2> QED
      BY <2>1, <2>2, <2>4, <2>5 DEF TokenInv
  <1> QED
    BY <1>1, TokenStep, PTL DEF Spec

(* Every variable has its type in every reachable state.                   *)
THEOREM TypeCorrect == Spec => []TypeOK
  <1>1. TokenInv => TypeOK
    BY DEF TokenInv
  <1> QED
    BY <1>1, TokenInvHolds, PTL

(* However many tasks, workers, retries, restarts and other replicas there *)
(* are, at most one attempt of a task is under way in a process: its queue *)
(* never holds a task twice.                                               *)
THEOREM AttemptedOnceAtATime == Spec => []OneAttempt
  <1>1. TokenInv => OneAttempt
    <2> SUFFICES ASSUME TokenInv, NEW t \in Tasks
                 PROVE  Cardinality(WorkersOf(t, Live)) <= 1
      BY DEF OneAttempt
    <2>1. \A v, w \in WorkersOf(t, Live) : v = w
      BY DEF TokenInv, OneToken, Busy, Attempting, WorkersOf
    <2>2. CASE WorkersOf(t, Live) = {}
      BY <2>2, FS_EmptySet
    <2>3. CASE \E w \in WorkersOf(t, Live) : WorkersOf(t, Live) = {w}
      <3>1. PICK w : WorkersOf(t, Live) = {w}
        BY <2>3
      <3>2. Cardinality({w}) = 1
        BY FS_Singleton
      <3> QED
        BY <3>1, <3>2
    <2> QED
      BY <2>1, <2>2, <2>3
  <1> QED
    BY <1>1, TokenInvHolds, PTL

(* However often the process restarts or database calls raise, a task is   *)
(* attempted at most once more than its row counts retries, and so at most *)
(* 1 + max_retries times, unless another replica has had it in its queue.  *)
THEOREM AttemptsAreBounded == Spec => []AttemptsBounded
  <1>1. TokenInv => AttemptsBounded
    BY DEF TokenInv, Funded, AttemptsBounded
  <1> QED
    BY <1>1, TokenInvHolds, PTL

(* Nothing overwrites a completed row but what CompletedIsFinal names: a   *)
(* stale poll, cancel or recovery, a worker interrupted after its commit,  *)
(* a commit wrongly reported as failed, and other replicas' workers.       *)
THEOREM CompletedStays == Spec => CompletedIsFinal
  <1> DEFINE Kept == \A t \in Tasks :
                          /\ status[t] = "completed"
                          /\ poller[t] = "idle" /\ canceller[t] # "read"
                          /\ WorkersOf(t, {"stopping"}) = {}
                          /\ t \notin orphans /\ Own(t)
                       => status'[t] = "completed"
  <1>1. TokenInv /\ [Next]_vars => [Kept]_vars
    <2> SUFFICES ASSUME TokenInv, [Next]_vars, NEW t \in Tasks,
                        status[t] = "completed", poller[t] = "idle", canceller[t] # "read",
                        WorkersOf(t, {"stopping"}) = {}, t \notin orphans, Own(t)
                 PROVE  status'[t] = "completed"
      OBVIOUS
    <2> USE DEF OnlyRowAndWorker, SetStatus
    <2>1. /\ t \notin elsewhere /\ t \notin raised
          /\ \A w \in Workers : Busy(w, t) => pc[w] = "committed"
      BY DEF TokenInv, Spent, Own, WorkersOf, Busy
    <2>2. TypeOK /\ Employed
      BY DEF TokenInv
    <2>3. ASSUME NEW u \in Tasks,
                 \/ Submit(u) \/ PollWrites(u) \/ CancelWrites(u)
                 \/ SubmitElsewhere(u) \/ FailOrphan(u) \/ OtherWrites(u)
          PROVE  status'[t] = "completed"
      <3>1. u # t
        BY <2>1, <2>3 DEF Submit, PollWrites, CancelWrites, SubmitElsewhere, FailOrphan, OtherWrites
      <3>2. \E s : status' = [status EXCEPT ![u] = s]
        BY <2>3 DEF Submit, PollWrites, CancelWrites, SubmitElsewhere, FailOrphan, OtherWrites
      <3> QED
        BY <2>2, <3>1, <3>2 DEF TypeOK
    <2>4. ASSUME NEW w \in Workers,
                 \/ MarkProcessing(w) \/ ModelAnswers(w) \/ TimeOutTask(w)
                 \/ FailTask(w) \/ Stop(w) \/ Retry(w)
          PROVE  status'[t] = "completed"
      <3>1. job[w] \in Tasks /\ Busy(w, job[w]) /\ pc[w] # "committed"
        BY <2>2, <2>4 DEF Employed, Busy, Attempting, Live, Handling, MarkProcessing,
                          ModelAnswers, TimeOutTask, FailTask, Stop, Retry
      <3>2. job[w] # t
        BY <2>1, <3>1
      <3>3. \E s : status' = [status EXCEPT ![job[w]] = s]
        BY <2>4 DEF MarkProcessing, ModelAnswers, TimeOutTask, FailTask, Stop, Retry
      <3> QED
        BY <2>2, <3>1, <3>2, <3>3 DEF TypeOK
    <2>5. CASE Restart
      BY <2>5 DEF Restart
    <2>6. CASE UNCHANGED status
      BY <2>6
    <2> QED
      BY <2>3, <2>4, <2>5, <2>6
      DEF Next, WorkerStep, Enqueue, Take, PollReads, CancelReads, CancelStops, RequestRaises,
          StartHeld, CallModel, EndAttempt, ModelTimesOut, ModelFails, GiveUp, Requeue, Leave,
          WorkerRaises, Crash, ReplicaStarts, rowVars, vars
  <1> QED
    BY <1>1, TokenInvHolds, PTL DEF Spec, CompletedIsFinal

-----------------------------------------------------------------------------

(* Somebody works at a processing row, unless it has been cancelled, a     *)
(* database call raised for it, or another replica has it.                 *)
Attended(t) ==
  up /\ status[t] = "processing" /\ t \notin cancelled /\ Own(t) =>
    \E w \in Workers : job[w] = t /\ pc[w] \in {"marking", "calling", "stopping"} \union Handling

(* A pending row has its token, with the same exceptions.                  *)
Remembered(t) ==
  up /\ status[t] = "pending" /\ t \notin cancelled /\ Own(t) =>
    \/ t \in submitting \/ waiting[t] > 0 \/ held = t
    \/ \E w \in Workers : job[w] = t /\ pc[w] \in {"starting", "requeueing"}

LEMMA AttendedStep ==
  ASSUME TypeOK, Employed, \A t \in Tasks : Attended(t), [Next]_vars,
         NEW u \in Tasks
  PROVE  Attended(u)'
  <1> USE QueueAssumption DEF procVars, rowVars, apiVars, loopVars, workerVars, otherVars,
          OnlyRowAndWorker, SetStatus, Goto, Put, Mishap,
          TypeOK, Employed, Handling, Own, Attended
  <1>1. ASSUME NEW t \in Tasks, Submit(t)
        PROVE  Attended(u)'
    BY <1>1 DEF Submit
  <1>2. ASSUME NEW t \in Tasks, Enqueue(t)
        PROVE  Attended(u)'
    BY <1>2 DEF Enqueue
  <1>3. ASSUME NEW t \in Tasks, Take(t)
        PROVE  Attended(u)'
    BY <1>3 DEF Take, Spawn
  <1>4. ASSUME NEW t \in Tasks, PollReads(t)
        PROVE  Attended(u)'
    BY <1>4 DEF PollReads
  <1>5. ASSUME NEW t \in Tasks, PollWrites(t)
        PROVE  Attended(u)'
    BY <1>5 DEF PollWrites
  <1>6. ASSUME NEW t \in Tasks, CancelReads(t)
        PROVE  Attended(u)'
    BY <1>6 DEF CancelReads
  <1>7. ASSUME NEW t \in Tasks, CancelWrites(t)
        PROVE  Attended(u)'
    BY <1>7 DEF CancelWrites
  <1>8. ASSUME NEW t \in Tasks, CancelStops(t)
        PROVE  Attended(u)'
    BY <1>8 DEF CancelStops, Interrupted
  <1>9. ASSUME NEW t \in Tasks, RequestRaises(t)
        PROVE  Attended(u)'
    BY <1>9 DEF RequestRaises
  <1>10. CASE StartHeld
    BY <1>10 DEF StartHeld, Spawn
  <1>11. ASSUME NEW w \in Workers, MarkProcessing(w)
        PROVE  Attended(u)'
    BY <1>11 DEF MarkProcessing
  <1>12. ASSUME NEW w \in Workers, CallModel(w)
        PROVE  Attended(u)'
    BY <1>12 DEF CallModel
  <1>13. ASSUME NEW w \in Workers, ModelAnswers(w)
        PROVE  Attended(u)'
    BY <1>13 DEF ModelAnswers
  <1>14. ASSUME NEW w \in Workers, EndAttempt(w)
        PROVE  Attended(u)'
    BY <1>14 DEF EndAttempt
  <1>15. ASSUME NEW w \in Workers, ModelTimesOut(w)
        PROVE  Attended(u)'
    BY <1>15 DEF ModelTimesOut
  <1>16. ASSUME NEW w \in Workers, TimeOutTask(w)
        PROVE  Attended(u)'
    BY <1>16 DEF TimeOutTask
  <1>17. ASSUME NEW w \in Workers, ModelFails(w)
        PROVE  Attended(u)'
    BY <1>17 DEF ModelFails
  <1>18. ASSUME NEW w \in Workers, FailTask(w)
        PROVE  Attended(u)'
    BY <1>18 DEF FailTask
  <1>19. ASSUME NEW w \in Workers, Stop(w)
        PROVE  Attended(u)'
    BY <1>19 DEF Stop
  <1>20. ASSUME NEW w \in Workers, Retry(w)
        PROVE  Attended(u)'
    BY <1>20 DEF Retry
  <1>21. ASSUME NEW w \in Workers, GiveUp(w)
        PROVE  Attended(u)'
    BY <1>21 DEF GiveUp
  <1>22. ASSUME NEW w \in Workers, Requeue(w)
        PROVE  Attended(u)'
    BY <1>22 DEF Requeue
  <1>23. ASSUME NEW w \in Workers, Leave(w)
        PROVE  Attended(u)'
    BY <1>23 DEF Leave
  <1>24. ASSUME NEW w \in Workers, WorkerRaises(w)
        PROVE  Attended(u)'
    BY <1>24 DEF WorkerRaises
  <1>25. CASE Crash
    BY <1>25 DEF Crash
  <1>26. CASE Restart
    BY <1>26 DEF Restart
  <1>27. CASE ReplicaStarts
    BY <1>27 DEF ReplicaStarts
  <1>28. ASSUME NEW t \in Tasks, SubmitElsewhere(t)
        PROVE  Attended(u)'
    BY <1>28 DEF SubmitElsewhere
  <1>29. ASSUME NEW t \in Tasks, FailOrphan(t)
        PROVE  Attended(u)'
    BY <1>29 DEF FailOrphan
  <1>30. ASSUME NEW t \in Tasks, OtherWrites(t)
        PROVE  Attended(u)'
    BY <1>30 DEF OtherWrites
  <1>31. CASE UNCHANGED vars
    BY <1>31 DEF vars
  <1> QED
    BY <1>1, <1>2, <1>3, <1>4, <1>5, <1>6, <1>7, <1>8, <1>9, <1>10, <1>11,
       <1>12, <1>13, <1>14, <1>15, <1>16, <1>17, <1>18, <1>19, <1>20, <1>21,
       <1>22, <1>23, <1>24, <1>25, <1>26, <1>27, <1>28, <1>29, <1>30, <1>31
    DEF Next, WorkerStep

LEMMA RememberedStep ==
  ASSUME TypeOK, Employed, \A t \in Tasks : Remembered(t), [Next]_vars,
         NEW u \in Tasks
  PROVE  Remembered(u)'
  <1> USE QueueAssumption DEF procVars, rowVars, apiVars, loopVars, workerVars, otherVars,
          OnlyRowAndWorker, SetStatus, Goto, Put, Mishap,
          TypeOK, Employed, Live, Handling, Own, Remembered
  <1>1. ASSUME NEW t \in Tasks, Submit(t)
        PROVE  Remembered(u)'
    BY <1>1 DEF Submit
  <1>2. ASSUME NEW t \in Tasks, Enqueue(t)
        PROVE  Remembered(u)'
    BY <1>2 DEF Enqueue
  <1>3. ASSUME NEW t \in Tasks, Take(t)
        PROVE  Remembered(u)'
    BY <1>3 DEF Take, Spawn
  <1>4. ASSUME NEW t \in Tasks, PollReads(t)
        PROVE  Remembered(u)'
    BY <1>4 DEF PollReads
  <1>5. ASSUME NEW t \in Tasks, PollWrites(t)
        PROVE  Remembered(u)'
    BY <1>5 DEF PollWrites
  <1>6. ASSUME NEW t \in Tasks, CancelReads(t)
        PROVE  Remembered(u)'
    BY <1>6 DEF CancelReads
  <1>7. ASSUME NEW t \in Tasks, CancelWrites(t)
        PROVE  Remembered(u)'
    BY <1>7 DEF CancelWrites
  <1>8. ASSUME NEW t \in Tasks, CancelStops(t)
        PROVE  Remembered(u)'
    BY <1>8 DEF CancelStops, Interrupted
  <1>9. ASSUME NEW t \in Tasks, RequestRaises(t)
        PROVE  Remembered(u)'
    BY <1>9 DEF RequestRaises
  <1>10. CASE StartHeld
    BY <1>10 DEF StartHeld, Spawn
  <1>11. ASSUME NEW w \in Workers, MarkProcessing(w)
        PROVE  Remembered(u)'
    BY <1>11 DEF MarkProcessing
  <1>12. ASSUME NEW w \in Workers, CallModel(w)
        PROVE  Remembered(u)'
    BY <1>12 DEF CallModel
  <1>13. ASSUME NEW w \in Workers, ModelAnswers(w)
        PROVE  Remembered(u)'
    BY <1>13 DEF ModelAnswers
  <1>14. ASSUME NEW w \in Workers, EndAttempt(w)
        PROVE  Remembered(u)'
    BY <1>14 DEF EndAttempt
  <1>15. ASSUME NEW w \in Workers, ModelTimesOut(w)
        PROVE  Remembered(u)'
    BY <1>15 DEF ModelTimesOut
  <1>16. ASSUME NEW w \in Workers, TimeOutTask(w)
        PROVE  Remembered(u)'
    BY <1>16 DEF TimeOutTask
  <1>17. ASSUME NEW w \in Workers, ModelFails(w)
        PROVE  Remembered(u)'
    BY <1>17 DEF ModelFails
  <1>18. ASSUME NEW w \in Workers, FailTask(w)
        PROVE  Remembered(u)'
    BY <1>18 DEF FailTask
  <1>19. ASSUME NEW w \in Workers, Stop(w)
        PROVE  Remembered(u)'
    BY <1>19 DEF Stop
  <1>20. ASSUME NEW w \in Workers, Retry(w)
        PROVE  Remembered(u)'
    BY <1>20 DEF Retry
  <1>21. ASSUME NEW w \in Workers, GiveUp(w)
        PROVE  Remembered(u)'
    BY <1>21 DEF GiveUp
  <1>22. ASSUME NEW w \in Workers, Requeue(w)
        PROVE  Remembered(u)'
    BY <1>22 DEF Requeue
  <1>23. ASSUME NEW w \in Workers, Leave(w)
        PROVE  Remembered(u)'
    BY <1>23 DEF Leave
  <1>24. ASSUME NEW w \in Workers, WorkerRaises(w)
        PROVE  Remembered(u)'
    BY <1>24 DEF WorkerRaises
  <1>25. CASE Crash
    BY <1>25 DEF Crash
  <1>26. CASE Restart
    BY <1>26 DEF Restart
  <1>27. CASE ReplicaStarts
    BY <1>27 DEF ReplicaStarts
  <1>28. ASSUME NEW t \in Tasks, SubmitElsewhere(t)
        PROVE  Remembered(u)'
    BY <1>28 DEF SubmitElsewhere
  <1>29. ASSUME NEW t \in Tasks, FailOrphan(t)
        PROVE  Remembered(u)'
    BY <1>29 DEF FailOrphan
  <1>30. ASSUME NEW t \in Tasks, OtherWrites(t)
        PROVE  Remembered(u)'
    BY <1>30 DEF OtherWrites
  <1>31. CASE UNCHANGED vars
    BY <1>31 DEF vars
  <1> QED
    BY <1>1, <1>2, <1>3, <1>4, <1>5, <1>6, <1>7, <1>8, <1>9, <1>10, <1>11,
       <1>12, <1>13, <1>14, <1>15, <1>16, <1>17, <1>18, <1>19, <1>20, <1>21,
       <1>22, <1>23, <1>24, <1>25, <1>26, <1>27, <1>28, <1>29, <1>30, <1>31
    DEF Next, WorkerStep

(* A processing row has a worker unless it has been cancelled, a database  *)
(* call raised for it since the process started, or another replica has    *)
(* it: no interleaving, stop or restart leaves a zombie behind.            *)
THEOREM NeverZombie == Spec => []NoZombie
  <1>1. Init => \A t \in Tasks : Attended(t)
    BY DEF Init, Attended
  <1>2. TokenInv /\ (\A t \in Tasks : Attended(t)) /\ [Next]_vars => (\A t \in Tasks : Attended(t))'
    BY AttendedStep DEF TokenInv
  <1>3. (\A t \in Tasks : Attended(t)) => NoZombie
    BY DEF Attended, NoZombie, WorkersOf
  <1> QED
    BY <1>1, <1>2, <1>3, TokenInvHolds, PTL DEF Spec

(* A pending row is not forgotten, with the same exceptions: every retry   *)
(* and every restart puts it back into the queue.                          *)
THEOREM NeverForgotten == Spec => []NoPendingForgotten
  <1>1. Init => \A t \in Tasks : Remembered(t)
    BY DEF Init, Remembered
  <1>2. TokenInv /\ (\A t \in Tasks : Remembered(t)) /\ [Next]_vars => (\A t \in Tasks : Remembered(t))'
    BY RememberedStep DEF TokenInv
  <1>3. (\A t \in Tasks : Remembered(t)) => NoPendingForgotten
    BY DEF Remembered, NoPendingForgotten, Scheduled, WorkersOf
  <1> QED
    BY <1>1, <1>2, <1>3, TokenInvHolds, PTL DEF Spec

(* Polls, cancellations and recoveries under way, and other replicas,      *)
(* concern rows that exist.                                                *)
Known ==
  \A t \in Tasks :
    poller[t] = "overdue" \/ canceller[t] # "idle" \/ t \in orphans \union elsewhere
      => status[t] # "absent"

LEMMA KnownStep ==
  ASSUME TypeOK, Employed, Known, [Next]_vars
  PROVE  Known'
  <1> USE QueueAssumption DEF procVars, rowVars, apiVars, loopVars, workerVars, otherVars,
          OnlyRowAndWorker, SetStatus, Goto, Put, Mishap,
          TypeOK, Employed, Active, Terminal, Known
  <1>1. ASSUME NEW t \in Tasks, Submit(t)
        PROVE  Known'
    BY <1>1 DEF Submit
  <1>2. ASSUME NEW t \in Tasks, Enqueue(t)
        PROVE  Known'
    BY <1>2 DEF Enqueue
  <1>3. ASSUME NEW t \in Tasks, Take(t)
        PROVE  Known'
    BY <1>3 DEF Take
  <1>4. ASSUME NEW t \in Tasks, PollReads(t)
        PROVE  Known'
    BY <1>4 DEF PollReads
  <1>5. ASSUME NEW t \in Tasks, PollWrites(t)
        PROVE  Known'
    BY <1>5 DEF PollWrites
  <1>6. ASSUME NEW t \in Tasks, CancelReads(t)
        PROVE  Known'
    BY <1>6 DEF CancelReads
  <1>7. ASSUME NEW t \in Tasks, CancelWrites(t)
        PROVE  Known'
    BY <1>7 DEF CancelWrites
  <1>8. ASSUME NEW t \in Tasks, CancelStops(t)
        PROVE  Known'
    BY <1>8 DEF CancelStops
  <1>9. ASSUME NEW t \in Tasks, RequestRaises(t)
        PROVE  Known'
    BY <1>9 DEF RequestRaises
  <1>10. CASE StartHeld
    BY <1>10 DEF StartHeld
  <1>11. ASSUME NEW w \in Workers, MarkProcessing(w)
        PROVE  Known'
    BY <1>11 DEF MarkProcessing
  <1>12. ASSUME NEW w \in Workers, CallModel(w)
        PROVE  Known'
    BY <1>12 DEF CallModel
  <1>13. ASSUME NEW w \in Workers, ModelAnswers(w)
        PROVE  Known'
    BY <1>13 DEF ModelAnswers
  <1>14. ASSUME NEW w \in Workers, EndAttempt(w)
        PROVE  Known'
    BY <1>14 DEF EndAttempt
  <1>15. ASSUME NEW w \in Workers, ModelTimesOut(w)
        PROVE  Known'
    BY <1>15 DEF ModelTimesOut
  <1>16. ASSUME NEW w \in Workers, TimeOutTask(w)
        PROVE  Known'
    BY <1>16 DEF TimeOutTask
  <1>17. ASSUME NEW w \in Workers, ModelFails(w)
        PROVE  Known'
    BY <1>17 DEF ModelFails
  <1>18. ASSUME NEW w \in Workers, FailTask(w)
        PROVE  Known'
    BY <1>18 DEF FailTask
  <1>19. ASSUME NEW w \in Workers, Stop(w)
        PROVE  Known'
    BY <1>19 DEF Stop
  <1>20. ASSUME NEW w \in Workers, Retry(w)
        PROVE  Known'
    BY <1>20 DEF Retry
  <1>21. ASSUME NEW w \in Workers, GiveUp(w)
        PROVE  Known'
    BY <1>21 DEF GiveUp
  <1>22. ASSUME NEW w \in Workers, Requeue(w)
        PROVE  Known'
    BY <1>22 DEF Requeue
  <1>23. ASSUME NEW w \in Workers, Leave(w)
        PROVE  Known'
    BY <1>23 DEF Leave
  <1>24. ASSUME NEW w \in Workers, WorkerRaises(w)
        PROVE  Known'
    BY <1>24 DEF WorkerRaises
  <1>25. CASE Crash
    BY <1>25 DEF Crash, Idle
  <1>26. CASE Restart
    BY <1>26 DEF Restart
  <1>27. CASE ReplicaStarts
    BY <1>27 DEF ReplicaStarts
  <1>28. ASSUME NEW t \in Tasks, SubmitElsewhere(t)
        PROVE  Known'
    BY <1>28 DEF SubmitElsewhere
  <1>29. ASSUME NEW t \in Tasks, FailOrphan(t)
        PROVE  Known'
    BY <1>29 DEF FailOrphan
  <1>30. ASSUME NEW t \in Tasks, OtherWrites(t)
        PROVE  Known'
    BY <1>30 DEF OtherWrites
  <1>31. CASE UNCHANGED vars
    BY <1>31 DEF vars
  <1> QED
    BY <1>1, <1>2, <1>3, <1>4, <1>5, <1>6, <1>7, <1>8, <1>9, <1>10, <1>11,
       <1>12, <1>13, <1>14, <1>15, <1>16, <1>17, <1>18, <1>19, <1>20, <1>21,
       <1>22, <1>23, <1>24, <1>25, <1>26, <1>27, <1>28, <1>29, <1>30, <1>31
    DEF Next, WorkerStep

LEMMA KnownHolds == Spec => []Known
  <1>1. Init => Known
    BY DEF Init, Known, Idle
  <1>2. TokenInv /\ Known /\ [Next]_vars => Known'
    BY KnownStep DEF TokenInv
  <1> QED
    BY <1>1, <1>2, TokenInvHolds, PTL DEF Spec

-----------------------------------------------------------------------------
(* The cap on first attempts.                                              *)

(* Until its first retry a task has one worker, counting those that leave, *)
(* and none while its id waits; a process that is down has none.           *)
Sole ==
  /\ ~up => \A w \in Workers : pc[w] = "free"
  /\ \A w \in Workers : pc[w] = "requeueing" => retries[job[w]] > 0
  /\ \A t \in Tasks : status[t] = "absent" => \A w \in Workers : pc[w] # "free" => job[w] # t
  /\ \A t \in Tasks : retries[t] = 0 =>
       /\ \A v, w \in Workers :
            job[v] = t /\ pc[v] # "free" /\ job[w] = t /\ pc[w] # "free" => v = w
       /\ t \in submitting \/ waiting[t] > 0 \/ held = t =>
            \A w \in Workers : pc[w] # "free" => job[w] # t

(* That worker is registered until it leaves or is stopped.                *)
Registered ==
  \A w \in Workers :
    /\ pc[w] \in {"starting", "marking", "calling", "committed", "retrying"} \union Handling
    /\ retries[job[w]] = 0
    => running[job[w]] = w

(* The tasks registered are no more than the cap allows.                   *)
RegisteredTasks == {t \in Tasks : running[t] # NoWorker}
SlotsBounded == Cardinality(RegisteredTasks) <= MaxConcurrent

(* A task's next worker appears when its id has been waiting, hence after  *)
(* the last one.                                                           *)
LEMMA SoleStep ==
  ASSUME Down, TypeOK, Employed, \A t \in Tasks : OneToken(t) /\ Spent(t), Sole,
         [Next]_vars
  PROVE  Sole'
  <1> USE QueueAssumption DEF procVars, rowVars, apiVars, loopVars, workerVars, otherVars,
          OnlyRowAndWorker, SetStatus, Goto, Put, Mishap,
          TypeOK, Employed, OneToken, Live, Handling, Sole
  <1>1. ASSUME NEW t \in Tasks, Submit(t)
        PROVE  Sole'
    BY <1>1 DEF Submit
  <1>2. ASSUME NEW t \in Tasks, Enqueue(t)
        PROVE  Sole'
    BY <1>2 DEF Enqueue
  <1>3. ASSUME NEW t \in Tasks, Take(t)
        PROVE  Sole'
    <2> USE DEF FirstInLine, Spent, NoToken
    <2>1. ~(t \in submitting) /\ held = NoTask /\ waiting'[t] = 0 /\ status[t] # "absent"
      BY <1>3 DEF Take
    <2>2. CASE SlotFree /\ Spawn(t) /\ UNCHANGED held
      BY <1>3, <2>1, <2>2 DEF Take, Spawn
    <2>3. CASE ~SlotFree /\ held' = t /\ UNCHANGED <<running, job, pc>>
      BY <1>3, <2>1, <2>3 DEF Take
    <2> QED
      BY <1>3, <2>2, <2>3 DEF Take
  <1>4. ASSUME NEW t \in Tasks, PollReads(t)
        PROVE  Sole'
    BY <1>4 DEF PollReads
  <1>5. ASSUME NEW t \in Tasks, PollWrites(t)
        PROVE  Sole'
    BY <1>5 DEF PollWrites
  <1>6. ASSUME NEW t \in Tasks, CancelReads(t)
        PROVE  Sole'
    BY <1>6 DEF CancelReads
  <1>7. ASSUME NEW t \in Tasks, CancelWrites(t)
        PROVE  Sole'
    BY <1>7 DEF CancelWrites
  <1>8. ASSUME NEW t \in Tasks, CancelStops(t)
        PROVE  Sole'
    BY <1>8 DEF CancelStops, Interrupted
  <1>9. ASSUME NEW t \in Tasks, RequestRaises(t)
        PROVE  Sole'
    BY <1>9 DEF RequestRaises
  <1>10. CASE StartHeld
    BY <1>10 DEF StartHeld, Spawn, Spent, NoToken, Down
  <1>11. ASSUME NEW w \in Workers, MarkProcessing(w)
        PROVE  Sole'
    BY <1>11 DEF MarkProcessing
  <1>12. ASSUME NEW w \in Workers, CallModel(w)
        PROVE  Sole'
    BY <1>12 DEF CallModel
  <1>13. ASSUME NEW w \in Workers, ModelAnswers(w)
        PROVE  Sole'
    BY <1>13 DEF ModelAnswers
  <1>14. ASSUME NEW w \in Workers, EndAttempt(w)
        PROVE  Sole'
    BY <1>14 DEF EndAttempt
  <1>15. ASSUME NEW w \in Workers, ModelTimesOut(w)
        PROVE  Sole'
    BY <1>15 DEF ModelTimesOut
  <1>16. ASSUME NEW w \in Workers, TimeOutTask(w)
        PROVE  Sole'
    BY <1>16 DEF TimeOutTask
  <1>17. ASSUME NEW w \in Workers, ModelFails(w)
        PROVE  Sole'
    BY <1>17 DEF ModelFails
  <1>18. ASSUME NEW w \in Workers, FailTask(w)
        PROVE  Sole'
    BY <1>18 DEF FailTask
  <1>19. ASSUME NEW w \in Workers, Stop(w)
        PROVE  Sole'
    BY <1>19 DEF Stop
  <1>20. ASSUME NEW w \in Workers, Retry(w)
        PROVE  Sole'
    BY <1>20 DEF Retry
  <1>21. ASSUME NEW w \in Workers, GiveUp(w)
        PROVE  Sole'
    BY <1>21 DEF GiveUp
  <1>22. ASSUME NEW w \in Workers, Requeue(w)
        PROVE  Sole'
    BY <1>22 DEF Requeue
  <1>23. ASSUME NEW w \in Workers, Leave(w)
        PROVE  Sole'
    BY <1>23 DEF Leave
  <1>24. ASSUME NEW w \in Workers, WorkerRaises(w)
        PROVE  Sole'
    BY <1>24 DEF WorkerRaises
  <1>25. CASE Crash
    BY <1>25 DEF Crash, NoWorkers, EmptyQueue
  <1>26. CASE Restart
    BY <1>26 DEF Restart
  <1>27. CASE ReplicaStarts
    BY <1>27 DEF ReplicaStarts
  <1>28. ASSUME NEW t \in Tasks, SubmitElsewhere(t)
        PROVE  Sole'
    BY <1>28 DEF SubmitElsewhere
  <1>29. ASSUME NEW t \in Tasks, FailOrphan(t)
        PROVE  Sole'
    BY <1>29 DEF FailOrphan
  <1>30. ASSUME NEW t \in Tasks, OtherWrites(t)
        PROVE  Sole'
    BY <1>30 DEF OtherWrites, Active, Terminal
  <1>31. CASE UNCHANGED vars
    BY <1>31 DEF vars
  <1> QED
    BY <1>1, <1>2, <1>3, <1>4, <1>5, <1>6, <1>7, <1>8, <1>9, <1>10, <1>11,
       <1>12, <1>13, <1>14, <1>15, <1>16, <1>17, <1>18, <1>19, <1>20, <1>21,
       <1>22, <1>23, <1>24, <1>25, <1>26, <1>27, <1>28, <1>29, <1>30, <1>31
    DEF Next, WorkerStep

(* A done callback can delete only its own registration before the first   *)
(* retry.                                                                  *)
LEMMA RegisteredStep ==
  ASSUME TypeOK, Employed, Sole, Registered, [Next]_vars
  PROVE  Registered'
  <1> USE QueueAssumption DEF procVars, rowVars, apiVars, loopVars, workerVars, otherVars,
          OnlyRowAndWorker, SetStatus, Goto, Put, Mishap,
          TypeOK, Employed, Live, Handling, Sole, Registered
  <1>1. ASSUME NEW t \in Tasks, Submit(t)
        PROVE  Registered'
    BY <1>1 DEF Submit
  <1>2. ASSUME NEW t \in Tasks, Enqueue(t)
        PROVE  Registered'
    BY <1>2 DEF Enqueue
  <1>3. ASSUME NEW t \in Tasks, Take(t)
        PROVE  Registered'
    BY <1>3 DEF Take, FirstInLine, Spawn
  <1>4. ASSUME NEW t \in Tasks, PollReads(t)
        PROVE  Registered'
    BY <1>4 DEF PollReads
  <1>5. ASSUME NEW t \in Tasks, PollWrites(t)
        PROVE  Registered'
    BY <1>5 DEF PollWrites
  <1>6. ASSUME NEW t \in Tasks, CancelReads(t)
        PROVE  Registered'
    BY <1>6 DEF CancelReads
  <1>7. ASSUME NEW t \in Tasks, CancelWrites(t)
        PROVE  Registered'
    BY <1>7 DEF CancelWrites
  <1>8. ASSUME NEW t \in Tasks, CancelStops(t)
        PROVE  Registered'
    BY <1>8 DEF CancelStops, Interrupted
  <1>9. ASSUME NEW t \in Tasks, RequestRaises(t)
        PROVE  Registered'
    BY <1>9 DEF RequestRaises
  <1>10. CASE StartHeld
    BY <1>10 DEF StartHeld, Spawn
  <1>11. ASSUME NEW w \in Workers, MarkProcessing(w)
        PROVE  Registered'
    BY <1>11 DEF MarkProcessing
  <1>12. ASSUME NEW w \in Workers, CallModel(w)
        PROVE  Registered'
    BY <1>12 DEF CallModel
  <1>13. ASSUME NEW w \in Workers, ModelAnswers(w)
        PROVE  Registered'
    BY <1>13 DEF ModelAnswers
  <1>14. ASSUME NEW w \in Workers, EndAttempt(w)
        PROVE  Registered'
    BY <1>14 DEF EndAttempt
  <1>15. ASSUME NEW w \in Workers, ModelTimesOut(w)
        PROVE  Registered'
    BY <1>15 DEF ModelTimesOut
  <1>16. ASSUME NEW w \in Workers, TimeOutTask(w)
        PROVE  Registered'
    BY <1>16 DEF TimeOutTask
  <1>17. ASSUME NEW w \in Workers, ModelFails(w)
        PROVE  Registered'
    BY <1>17 DEF ModelFails
  <1>18. ASSUME NEW w \in Workers, FailTask(w)
        PROVE  Registered'
    BY <1>18 DEF FailTask
  <1>19. ASSUME NEW w \in Workers, Stop(w)
        PROVE  Registered'
    BY <1>19 DEF Stop
  <1>20. ASSUME NEW w \in Workers, Retry(w)
        PROVE  Registered'
    BY <1>20 DEF Retry
  <1>21. ASSUME NEW w \in Workers, GiveUp(w)
        PROVE  Registered'
    BY <1>21 DEF GiveUp
  <1>22. ASSUME NEW w \in Workers, Requeue(w)
        PROVE  Registered'
    BY <1>22 DEF Requeue
  <1>23. ASSUME NEW w \in Workers, Leave(w)
        PROVE  Registered'
    BY <1>23 DEF Leave
  <1>24. ASSUME NEW w \in Workers, WorkerRaises(w)
        PROVE  Registered'
    BY <1>24 DEF WorkerRaises
  <1>25. CASE Crash
    BY <1>25 DEF Crash, NoWorkers, EmptyQueue
  <1>26. CASE Restart
    BY <1>26 DEF Restart
  <1>27. CASE ReplicaStarts
    BY <1>27 DEF ReplicaStarts
  <1>28. ASSUME NEW t \in Tasks, SubmitElsewhere(t)
        PROVE  Registered'
    BY <1>28 DEF SubmitElsewhere
  <1>29. ASSUME NEW t \in Tasks, FailOrphan(t)
        PROVE  Registered'
    BY <1>29 DEF FailOrphan
  <1>30. ASSUME NEW t \in Tasks, OtherWrites(t)
        PROVE  Registered'
    BY <1>30 DEF OtherWrites
  <1>31. CASE UNCHANGED vars
    BY <1>31 DEF vars
  <1> QED
    BY <1>1, <1>2, <1>3, <1>4, <1>5, <1>6, <1>7, <1>8, <1>9, <1>10, <1>11,
       <1>12, <1>13, <1>14, <1>15, <1>16, <1>17, <1>18, <1>19, <1>20, <1>21,
       <1>22, <1>23, <1>24, <1>25, <1>26, <1>27, <1>28, <1>29, <1>30, <1>31
    DEF Next, WorkerStep

(* Registering one task in a free slot, and forgetting tasks.              *)
LEMMA SlotsArithmetic ==
  ASSUME SlotsBounded, NEW t, RegisteredTasks' \subseteq RegisteredTasks \union {t},
         Cardinality(RegisteredTasks) < MaxConcurrent \/ RegisteredTasks' = RegisteredTasks
  PROVE  SlotsBounded'
  <1>1. IsFiniteSet(RegisteredTasks) /\ IsFiniteSet(RegisteredTasks \union {t})
    BY QueueAssumption, FS_Subset, FS_AddElement DEF RegisteredTasks
  <1>2. Cardinality(RegisteredTasks \union {t}) <= Cardinality(RegisteredTasks) + 1
    BY <1>1, FS_AddElement, FS_CardinalityType
  <1>3. /\ Cardinality(RegisteredTasks') <= Cardinality(RegisteredTasks \union {t})
        /\ Cardinality(RegisteredTasks') \in Nat
        /\ Cardinality(RegisteredTasks \union {t}) \in Nat
        /\ Cardinality(RegisteredTasks) \in Nat
    BY <1>1, FS_Subset, FS_CardinalityType
  <1> QED
    BY <1>2, <1>3, QueueAssumption DEF SlotsBounded

LEMMA SlotsShrink ==
  ASSUME SlotsBounded, RegisteredTasks' \subseteq RegisteredTasks
  PROVE  SlotsBounded'
  <1>1. IsFiniteSet(RegisteredTasks)
    BY QueueAssumption, FS_Subset DEF RegisteredTasks
  <1>2. /\ Cardinality(RegisteredTasks') <= Cardinality(RegisteredTasks)
        /\ Cardinality(RegisteredTasks') \in Nat
        /\ Cardinality(RegisteredTasks) \in Nat
    BY <1>1, FS_Subset, FS_CardinalityType
  <1> QED
    BY <1>2, QueueAssumption DEF SlotsBounded

(* A worker is spawned only into a free slot.                              *)
LEMMA SlotsStep ==
  ASSUME TypeOK, Employed, SlotsBounded, [Next]_vars
  PROVE  SlotsBounded'
  <1> USE QueueAssumption
  <1>1. ASSUME NEW t \in Tasks, Take(t) PROVE SlotsBounded'
    <2>1. RegisteredTasks' \subseteq RegisteredTasks \union {t}
      BY <1>1 DEF TypeOK, Take, Spawn, RegisteredTasks
    <2>2. Cardinality(RegisteredTasks) < MaxConcurrent \/ RegisteredTasks' = RegisteredTasks
      BY <1>1 DEF Take, SlotFree, RegisteredTasks
    <2> QED
      BY <2>1, <2>2, SlotsArithmetic
  <1>2. CASE StartHeld
    <2>1. RegisteredTasks' \subseteq RegisteredTasks \union {held}
      BY <1>2 DEF TypeOK, StartHeld, Spawn, RegisteredTasks
    <2>2. Cardinality(RegisteredTasks) < MaxConcurrent
      BY <1>2 DEF StartHeld, SlotFree, RegisteredTasks
    <2> QED
      BY <2>1, <2>2, SlotsArithmetic
  <1>3. ASSUME NEW t \in Tasks, CancelStops(t) PROVE SlotsBounded'
    <2>1. RegisteredTasks' \subseteq RegisteredTasks
      BY <1>3 DEF TypeOK, CancelStops, RegisteredTasks
    <2> QED
      BY <2>1, SlotsShrink
  <1>4. ASSUME NEW w \in Workers, Leave(w) PROVE SlotsBounded'
    <2>1. RegisteredTasks' \subseteq RegisteredTasks
      BY <1>4 DEF TypeOK, Employed, Leave, RegisteredTasks
    <2> QED
      BY <2>1, SlotsShrink
  <1>5. CASE Crash
    <2>1. RegisteredTasks' \subseteq RegisteredTasks
      BY <1>5 DEF Crash, RegisteredTasks
    <2> QED
      BY <2>1, SlotsShrink
  <1>6. CASE UNCHANGED running
    BY <1>6, SlotsShrink DEF RegisteredTasks
  <1> QED
    BY <1>1, <1>2, <1>3, <1>4, <1>5, <1>6
    DEF Next, WorkerStep, Submit, Enqueue, PollReads, PollWrites, CancelReads, CancelWrites,
        RequestRaises, MarkProcessing, CallModel, ModelAnswers, EndAttempt, ModelTimesOut,
        TimeOutTask, ModelFails, FailTask, Stop, Retry, GiveUp, Requeue, WorkerRaises, Restart,
        ReplicaStarts, SubmitElsewhere, FailOrphan, OtherWrites, OnlyRowAndWorker, loopVars, vars

(* First attempts are mapped one to one to the registered tasks.           *)
LEMMA FirstAttemptsInSlots ==
  ASSUME TypeOK, Employed, Registered, SlotsBounded
  PROVE  FirstAttemptsCapped
  <1> DEFINE First == {w \in Workers : pc[w] = "calling" /\ retries[job[w]] = 0}
             f == [w \in First |-> job[w]]
  <1>1. f \in Injection(First, RegisteredTasks)
    <2>1. \A w \in First : job[w] \in Tasks /\ running[job[w]] = w
      BY DEF Employed, Registered
    <2>2. \A w \in First : job[w] \in RegisteredTasks
      BY <2>1, QueueAssumption DEF RegisteredTasks
    <2> QED
      BY <2>1, <2>2 DEF Injection, IsInjective
  <1>2. IsFiniteSet(First) /\ IsFiniteSet(RegisteredTasks)
    BY QueueAssumption, FS_Subset DEF RegisteredTasks
  <1>3. Cardinality(First) <= Cardinality(RegisteredTasks)
    BY <1>1, <1>2, FS_Injection
  <1>4. Cardinality(First) \in Nat /\ Cardinality(RegisteredTasks) \in Nat
    BY <1>2, FS_CardinalityType
  <1> QED
    BY <1>3, <1>4, QueueAssumption DEF SlotsBounded, FirstAttemptsCapped

(* First attempts never exceed _max_concurrent, for any number of tasks    *)
(* and workers, whatever the done callbacks of failed attempts delete.     *)
THEOREM FirstAttemptsWithinCap == Spec => []FirstAttemptsCapped
  <1>1. Init => Sole /\ Registered /\ SlotsBounded
    <2> SUFFICES ASSUME Init PROVE Sole /\ Registered /\ SlotsBounded
      OBVIOUS
    <2>1. Sole /\ Registered
      BY DEF Init, NoWorkers, Handling, Sole, Registered
    <2>2. RegisteredTasks = {}
      BY DEF Init, RegisteredTasks
    <2> QED
      BY <2>1, <2>2, FS_EmptySet, QueueAssumption DEF SlotsBounded
  <1>2. /\ TokenInv /\ (Sole /\ Registered /\ SlotsBounded) /\ [Next]_vars
        => (Sole /\ Registered /\ SlotsBounded)'
    BY SoleStep, RegisteredStep, SlotsStep DEF TokenInv
  <1>3. TokenInv /\ Sole /\ Registered /\ SlotsBounded => FirstAttemptsCapped
    BY FirstAttemptsInSlots DEF TokenInv
  <1> QED
    BY <1>1, <1>2, <1>3, TokenInvHolds, PTL DEF Spec

(* Where no row may be retried, no attempt is a retry and the cap holds:   *)
(* only requeued tasks can ever exceed it.                                 *)
THEOREM CapHoldsWithoutRetries ==
  ASSUME MaxRetries = 0
  PROVE  Spec => []CapRespected
  <1>1. TokenInv /\ FirstAttemptsCapped => CapRespected
    <2> SUFFICES ASSUME TokenInv, FirstAttemptsCapped
                 PROVE  CapRespected
      OBVIOUS
    <2>1. ASSUME NEW w \in Workers, pc[w] = "calling"
          PROVE  retries[job[w]] = 0
      <3>1. job[w] \in Tasks
        BY <2>1 DEF TokenInv, Employed
      <3> QED
        BY <3>1 DEF TokenInv, TypeOK
    <2>2. {w \in Workers : pc[w] = "calling" /\ retries[job[w]] = 0}
            = {w \in Workers : pc[w] = "calling"}
      BY <2>1
    <2> QED
      BY <2>2 DEF FirstAttemptsCapped, CapRespected
  <1> QED
    BY <1>1, TokenInvHolds, FirstAttemptsWithinCap, PTL

-----------------------------------------------------------------------------
(* The refinement: what each step does to the stage of its task.           *)

Counted(t) == IF t \in elsewhere THEN 0 ELSE attempts[t]

(* Nothing that the abstract state is read from changes for any task but t. *)
OnlyOf(t) ==
  /\ elsewhere' = elsewhere
  /\ \A u \in Tasks \ {t} :
       /\ status'[u] = status[u] /\ waiting'[u] = waiting[u] /\ attempts'[u] = attempts[u]
       /\ u \in submitting' <=> u \in submitting
       /\ held' = u <=> held = u
       /\ \A w \in Workers, s \in Attempting :
            job'[w] = u /\ pc'[w] = s <=> job[w] = u /\ pc[w] = s

LEMMA SameStage ==
  ASSUME NEW u \in Tasks, elsewhere' = elsewhere,
         status'[u] = status[u], waiting'[u] = waiting[u],
         u \in submitting' <=> u \in submitting, held' = u <=> held = u,
         \A w \in Workers, s \in Attempting :
           job'[w] = u /\ pc'[w] = s <=> job[w] = u /\ pc[w] = s
  PROVE  Stage(u)' = Stage(u)
  <1>1. ASSUME NEW S, S \subseteq Attempting
        PROVE  At(u, S)' <=> At(u, S)
    BY <1>1 DEF At
  <1>2. /\ At(u, {"calling", "committed", "retrying", "stopping"} \union Handling)'
             <=> At(u, {"calling", "committed", "retrying", "stopping"} \union Handling)
        /\ At(u, {"starting", "marking", "requeueing"})'
             <=> At(u, {"starting", "marking", "requeueing"})
    BY <1>1 DEF Attempting, Live
  <1> QED
    BY <1>2 DEF Stage, InAttempt, Attemptable

LEMMA OthersKeepStage ==
  ASSUME NEW t \in Tasks, OnlyOf(t), NEW u \in Tasks \ {t}
  PROVE  Stage(u)' = Stage(u) /\ Counted(u)' = Counted(u)
  BY SameStage DEF OnlyOf, Counted

(* What happens to a shared task, the abstract queue does not see.         *)
LEMMA SharedStutters ==
  ASSUME NEW t \in Tasks, OnlyOf(t), t \in elsewhere
  PROVE  UNCHANGED Abstract!queueVars
  <1>1. Stage(t)' = Stage(t) /\ Counted(t)' = Counted(t)
    BY DEF OnlyOf, Stage, Counted
  <1>2. \A u \in Tasks : Stage(u)' = Stage(u) /\ Counted(u)' = Counted(u)
    BY <1>1, OthersKeepStage
  <1> QED
    BY <1>2 DEF Abstract!queueVars, Counted

(* A step that concerns t alone and moves it along the stages, without     *)
(* beginning an attempt.                                                   *)
Moves(t) ==
  \/ Stage(t)' = Stage(t)
  \/ Stage(t) = "new" /\ Stage(t)' = "ready"
  \/ Stage(t) \in {"ready", "attempt"} /\ Stage(t)' = "over"
  \/ Stage(t) = "attempt" /\ Stage(t)' = "ready" /\ Counted(t) <= MaxRetries

LEMMA MoveRefines ==
  ASSUME NEW t \in Tasks, OnlyOf(t), Moves(t), UNCHANGED attempts
  PROVE  [Abstract!Next]_(Abstract!queueVars)
  <1> DEFINE stages == [u \in Tasks |-> Stage(u)]
             counts == [u \in Tasks |-> IF u \in elsewhere THEN 0 ELSE attempts[u]]
  <1>1. stages' = [stages EXCEPT ![t] = Stage(t)']
    BY OthersKeepStage
  <1>2. stages[t] = Stage(t) /\ counts[t] = Counted(t)
    BY DEF Counted
  <1>3. counts' = counts
    BY DEF OnlyOf
  <1>4. CASE Stage(t)' = Stage(t)
    <2>1. stages' = stages
      BY <1>1, <1>2, <1>4
    <2> QED
      BY <1>3, <2>1 DEF Abstract!queueVars
  <1>5. CASE Stage(t) = "new" /\ Stage(t)' = "ready"
    BY <1>1, <1>2, <1>3, <1>5 DEF Abstract!Next, Abstract!Accept, Abstract!Move
  <1>6. CASE Stage(t) = "ready" /\ Stage(t)' = "over"
    BY <1>1, <1>2, <1>3, <1>6 DEF Abstract!Next, Abstract!Drop, Abstract!Move
  <1>7. CASE Stage(t) = "attempt" /\ Stage(t)' = "over"
    BY <1>1, <1>2, <1>3, <1>7 DEF Abstract!Next, Abstract!Finish, Abstract!Move
  <1>8. CASE Stage(t) = "attempt" /\ Stage(t)' = "ready" /\ Counted(t) <= MaxRetries
    BY <1>1, <1>2, <1>3, <1>8 DEF Abstract!Next, Abstract!Retry, Abstract!Move
  <1> QED
    BY <1>4, <1>5, <1>6, <1>7, <1>8 DEF Moves

(* The stage of a task, given where its token is.                          *)
LEMMA StageOfWorker ==
  ASSUME TokenInv, NEW w \in Workers, NEW t \in Tasks, t \notin elsewhere, Busy(w, t)
  PROVE  Stage(t) = IF pc[w] \in {"starting", "marking", "requeueing"} THEN "ready" ELSE "attempt"
  <1>1. OneToken(t) /\ Spent(t)
    BY DEF TokenInv
  <1>2. status[t] # "absent"
    BY <1>1 DEF Spent, NoToken
  <1>3. \A v \in Workers : job[v] = t /\ pc[v] \in Attempting => v = w
    BY <1>1 DEF OneToken, Busy
  <1> QED
    BY <1>2, <1>3 DEF Busy, Stage, InAttempt, Attemptable, At, Attempting, Live, Handling

LEMMA StageOfWaiting ==
  ASSUME TokenInv, NEW t \in Tasks, t \notin elsewhere,
         t \in submitting \/ waiting[t] > 0 \/ held = t
  PROVE  Stage(t) = "ready"
  <1>1. OneToken(t) /\ Spent(t)
    BY DEF TokenInv
  <1>2. status[t] # "absent"
    BY <1>1, QueueAssumption DEF Spent, NoToken, TokenInv, TypeOK
  <1>3. ~InAttempt(t)
    BY <1>1 DEF OneToken, Busy, InAttempt, At, Attempting, Live, Handling
  <1> QED
    BY <1>2, <1>3 DEF Stage, Attemptable

LEMMA StageOfIdle ==
  ASSUME TokenInv, NEW t \in Tasks, t \notin elsewhere, NoToken(t)
  PROVE  Stage(t) = IF status[t] = "absent" THEN "new"
                    ELSE IF status[t] = "pending" THEN "ready"
                    ELSE "over"
  BY DEF NoToken, Busy, TokenInv, TypeOK, Stage, InAttempt, Attemptable, At, Attempting, Live,
         Handling

(* The same in the state a step leads to.                                  *)
LEMMA NextStageOfWorker ==
  ASSUME TokenInv', NEW w \in Workers, NEW t \in Tasks, t \notin elsewhere', Busy(w, t)'
  PROVE  Stage(t)' = IF pc'[w] \in {"starting", "marking", "requeueing"} THEN "ready" ELSE "attempt"
  <1>1. OneToken(t)' /\ Spent(t)'
    BY DEF TokenInv
  <1>2. status'[t] # "absent"
    BY <1>1 DEF Spent, NoToken
  <1>3. \A v \in Workers : job'[v] = t /\ pc'[v] \in Attempting => v = w
    BY <1>1 DEF OneToken, Busy
  <1> QED
    BY <1>2, <1>3 DEF Busy, Stage, InAttempt, Attemptable, At, Attempting, Live, Handling

LEMMA NextStageOfWaiting ==
  ASSUME TokenInv', NEW t \in Tasks, t \notin elsewhere',
         t \in submitting' \/ waiting'[t] > 0 \/ held' = t
  PROVE  Stage(t)' = "ready"
  <1>1. OneToken(t)' /\ Spent(t)'
    BY DEF TokenInv
  <1>2. status'[t] # "absent"
    BY <1>1, QueueAssumption DEF Spent, NoToken, TokenInv, TypeOK
  <1>3. ~InAttempt(t)'
    BY <1>1 DEF OneToken, Busy, InAttempt, At, Attempting, Live, Handling
  <1> QED
    BY <1>2, <1>3 DEF Stage, Attemptable

LEMMA NextStageOfIdle ==
  ASSUME TokenInv', NEW t \in Tasks, t \notin elsewhere', NoToken(t)'
  PROVE  Stage(t)' = IF status'[t] = "absent" THEN "new"
                     ELSE IF status'[t] = "pending" THEN "ready"
                     ELSE "over"
  BY DEF NoToken, Busy, TokenInv, TypeOK, Stage, InAttempt, Attemptable, At, Attempting, Live,
         Handling

(* A row that exists and is written with a status but pending, by whoever, *)
(* can only take the task out of the queue.                                *)
LEMMA WriteRefines ==
  ASSUME TokenInv, NEW t \in Tasks, status[t] # "absent",
         NEW s \in Terminal, status' = [status EXCEPT ![t] = s],
         UNCHANGED <<submitting, waiting, held, job, pc, elsewhere, attempts>>
  PROVE  [Abstract!Next]_(Abstract!queueVars)
  <1>0. TypeOK
    BY DEF TokenInv
  <1>1. OnlyOf(t) /\ status'[t] = s /\ s \notin {"absent", "pending"}
    BY <1>0 DEF OnlyOf, TypeOK, Terminal
  <1>2. InAttempt(t)' <=> InAttempt(t)
    BY DEF InAttempt, At
  <1>3. Attemptable(t)' => Attemptable(t)
    BY <1>1 DEF Attemptable, At
  <1>4. Stage(t)' = Stage(t) \/ (Stage(t) = "ready" /\ Stage(t)' = "over")
    BY <1>1, <1>2, <1>3 DEF Stage
  <1> QED
    BY <1>1, <1>4, MoveRefines DEF Moves

(* Calls of the API and the processor loop.                                *)
LEMMA OutsideRefines ==
  ASSUME TokenInv, TokenInv', Known, NEW t \in Tasks,
         \/ Submit(t) \/ Enqueue(t) \/ Take(t)
         \/ PollReads(t) \/ PollWrites(t) \/ CancelReads(t) \/ CancelWrites(t)
         \/ RequestRaises(t) \/ FailOrphan(t)
         \/ StartHeld /\ held = t
  PROVE  [Abstract!Next]_(Abstract!queueVars)
  <1> USE DEF procVars, rowVars, apiVars, loopVars, workerVars, otherVars, SetStatus
  <1>0. TypeOK /\ Employed /\ UNCHANGED <<attempts, elsewhere>>
    BY DEF TokenInv, Submit, Enqueue, Take, PollReads, PollWrites, CancelReads, CancelWrites,
           RequestRaises, FailOrphan, StartHeld
  <1>1. CASE Submit(t)
    <2>1. OnlyOf(t)
      BY <1>0, <1>1 DEF OnlyOf, Submit, TypeOK
    <2>2. t \notin elsewhere
      BY <1>1 DEF Submit, Known
    <2>3. Stage(t) = "new" /\ Stage(t)' = "ready"
      BY <1>0, <1>1, <2>2, NextStageOfWaiting DEF Submit, Stage
    <2> QED
      BY <1>0, <2>1, <2>3, MoveRefines DEF Moves
  <1>2. CASE Enqueue(t)
    <2>1. OnlyOf(t)
      BY <1>0, <1>2 DEF OnlyOf, Enqueue, Put, TypeOK
    <2>2. waiting'[t] > 0
      BY <1>0, <1>2 DEF Enqueue, Put, TypeOK
    <2>3. t \notin elsewhere => Stage(t) = "ready" /\ Stage(t)' = "ready"
      BY <1>0, <1>2, <2>2, StageOfWaiting, NextStageOfWaiting DEF Enqueue
    <2> QED
      BY <1>0, <2>1, <2>3, MoveRefines, SharedStutters DEF Moves
  <1>3. ASSUME Spawn(t), t # NoTask, held' \in {held, NoTask}, held \in {t, NoTask},
               waiting' \in {waiting, [waiting EXCEPT ![t] = @ - 1]},
               UNCHANGED <<status, submitting>>,
               waiting[t] > 0 \/ held = t
        PROVE  [Abstract!Next]_(Abstract!queueVars)
    <2>1. PICK w \in Workers : /\ pc[w] = "free"
                               /\ pc' = [pc EXCEPT ![w] = "starting"]
                               /\ job' = [job EXCEPT ![w] = t]
      BY <1>3 DEF Spawn, Goto
    <2>2. OnlyOf(t)
      BY <1>0, <1>3, <2>1, QueueAssumption DEF OnlyOf, TypeOK, Attempting, Live, Handling
    <2>3. Busy(w, t)' /\ pc'[w] = "starting"
      BY <1>0, <2>1 DEF Busy, TypeOK, Attempting, Live
    <2>4. t \notin elsewhere => Stage(t) = "ready" /\ Stage(t)' = "ready"
      BY <1>0, <1>3, <2>3, StageOfWaiting, NextStageOfWorker
    <2> QED
      BY <1>0, <2>2, <2>4, MoveRefines, SharedStutters DEF Moves
  <1>4. CASE Take(t)
    <2>1. t # NoTask /\ held = NoTask /\ waiting[t] > 0
      BY <1>4, QueueAssumption DEF Take, FirstInLine
    <2>2. CASE Spawn(t) /\ UNCHANGED held
      BY <1>3, <1>4, <2>1, <2>2 DEF Take
    <2>3. CASE held' = t /\ UNCHANGED <<running, job, pc>>
      <3>1. OnlyOf(t)
        BY <1>0, <1>4, <2>1, <2>3, QueueAssumption DEF OnlyOf, Take, TypeOK
      <3>2. t \notin elsewhere => Stage(t) = "ready" /\ Stage(t)' = "ready"
        BY <1>0, <2>1, <2>3, StageOfWaiting, NextStageOfWaiting
      <3> QED
        BY <1>0, <3>1, <3>2, MoveRefines, SharedStutters DEF Moves
    <2> QED
      BY <1>4, <2>2, <2>3 DEF Take
  <1>5. CASE StartHeld /\ held = t
    <2>1. t # NoTask
      BY QueueAssumption
    <2> QED
      BY <1>3, <1>5, <2>1 DEF StartHeld
  <1>6. CASE PollReads(t) \/ CancelReads(t)
    <2>1. UNCHANGED <<status, submitting, waiting, held, job, pc>>
      BY <1>6 DEF PollReads, CancelReads
    <2>2. OnlyOf(t) /\ Stage(t)' = Stage(t)
      BY <1>0, <2>1 DEF OnlyOf, Stage, InAttempt, Attemptable, At
    <2> QED
      BY <1>0, <2>2, MoveRefines DEF Moves
  <1>7. CASE PollWrites(t) \/ CancelWrites(t) \/ FailOrphan(t)
    <2>1. /\ status[t] # "absent"
          /\ UNCHANGED <<submitting, waiting, held, job, pc>>
      BY <1>7 DEF PollWrites, CancelWrites, FailOrphan, Known
    <2>2. \E s \in Terminal : status' = [status EXCEPT ![t] = s]
      BY <1>7 DEF PollWrites, CancelWrites, FailOrphan, Terminal
    <2> QED
      BY <1>0, <2>1, <2>2, WriteRefines
  <1>8. CASE RequestRaises(t)
    <2>1. UNCHANGED <<status, waiting, held, job, pc>>
      BY <1>8 DEF RequestRaises
    <2>2. CASE UNCHANGED submitting
      <3>1. OnlyOf(t) /\ Stage(t)' = Stage(t)
        BY <1>0, <2>1, <2>2 DEF OnlyOf, Stage, InAttempt, Attemptable, At
      <3> QED
        BY <1>0, <3>1, MoveRefines DEF Moves
    <2>3. CASE t \in submitting /\ submitting' = submitting \ {t}
      <3>1. OnlyOf(t)
        BY <1>0, <2>1, <2>3 DEF OnlyOf
      <3>2. OneToken(t) /\ Spent(t)
        BY DEF TokenInv
      <3>3. NoToken(t)' /\ status'[t] # "absent"
        BY <1>0, <2>1, <2>3, <3>2 DEF OneToken, Spent, NoToken, Busy
      <3>4. t \notin elsewhere => Stage(t) = "ready" /\ Stage(t)' \in {"ready", "over"}
        BY <1>0, <2>3, <3>3, StageOfWaiting, NextStageOfIdle
      <3> QED
        BY <1>0, <3>1, <3>4, MoveRefines, SharedStutters DEF Moves
    <2> QED
      BY <1>8, <2>2, <2>3 DEF RequestRaises
  <1> QED
    BY <1>1, <1>2, <1>4, <1>5, <1>6, <1>7, <1>8

(* A worker that leaves its attempt takes the token with it.               *)
LEMMA LeavingMoves ==
  ASSUME TokenInv, TokenInv', NEW w \in Workers, NEW t \in Tasks,
         t \notin elsewhere, t \notin elsewhere', Busy(w, t),
         pc' = [pc EXCEPT ![w] = "leaving"], UNCHANGED <<submitting, waiting, held, job>>,
         status'[t] = status[t] \/ status'[t] \in Terminal
  PROVE  Moves(t)
  <1>1. TypeOK /\ OneToken(t) /\ Spent(t) /\ Funded(t)
    BY DEF TokenInv
  <1>2. NoToken(t)'
    <2>1. \A v \in Workers : Busy(v, t) => v = w
      BY <1>1 DEF OneToken
    <2>2. \A v \in Workers : ~Busy(v, t)'
      BY <1>1, <2>1 DEF Busy, TypeOK, Attempting, Live, Handling
    <2> QED
      BY <1>1, <2>2 DEF OneToken, NoToken, TypeOK
  <1>3. status[t] # "absent" /\ status'[t] # "absent"
    BY <1>1 DEF Spent, NoToken, Terminal
  <1>4. Stage(t)' = IF status'[t] = "pending" THEN "ready" ELSE "over"
    BY <1>2, <1>3, NextStageOfIdle
  <1>5. CASE pc[w] \in {"starting", "marking", "requeueing"}
    BY <1>4, <1>5, StageOfWorker DEF Moves
  <1>6. CASE pc[w] \notin {"starting", "marking", "requeueing"}
    <2>1. pc[w] \in Marked
      BY <1>6 DEF Busy, Attempting, Live, Handling, Marked
    <2>2. status'[t] # "pending"
      BY <1>1, <2>1 DEF Funded, Busy, Terminal
    <2> QED
      BY <1>4, <1>6, <2>2, StageOfWorker DEF Moves
  <1> QED
    BY <1>5, <1>6

(* An interrupted worker ends the attempt, unless it is inside the try     *)
(* block.                                                                  *)
LEMMA CancelStopsRefines ==
  ASSUME TokenInv, TokenInv', NEW t \in Tasks, CancelStops(t)
  PROVE  [Abstract!Next]_(Abstract!queueVars)
  <1>0. /\ TypeOK /\ Employed
        /\ UNCHANGED <<attempts, elsewhere, status, submitting, waiting, held, job>>
    BY DEF TokenInv, CancelStops, rowVars, otherVars
  <1>1. CASE UNCHANGED pc
    <2>1. OnlyOf(t) /\ Stage(t)' = Stage(t)
      BY <1>0, <1>1 DEF OnlyOf, Stage, InAttempt, Attemptable, At
    <2> QED
      BY <1>0, <2>1, MoveRefines DEF Moves
  <1>2. CASE running[t] # NoWorker /\ Goto(running[t], Interrupted(pc[running[t]]))
    <2>1. PICK w \in Workers : /\ job[w] = t /\ pc[w] # "free"
                               /\ pc' = [pc EXCEPT ![w] = Interrupted(pc[w])]
      BY <1>0, <1>2 DEF Goto, Employed, TypeOK
    <2>2. OnlyOf(t)
      BY <1>0, <2>1 DEF OnlyOf, TypeOK
    <2>3. CASE pc[w] \in {"calling", "committed"}
      <3>1. pc'[w] = "stopping" /\ Busy(w, t) /\ Busy(w, t)'
        BY <1>0, <2>1, <2>3 DEF Interrupted, TypeOK, Busy, Attempting, Live
      <3>2. t \notin elsewhere => Stage(t) = "attempt" /\ Stage(t)' = "attempt"
        BY <1>0, <2>3, <3>1, StageOfWorker, NextStageOfWorker
      <3> QED
        BY <1>0, <2>2, <3>2, MoveRefines, SharedStutters DEF Moves
    <2>4. CASE pc[w] = "leaving"
      <3>1. UNCHANGED pc
        BY <1>0, <2>1, <2>4 DEF Interrupted, TypeOK
      <3> QED
        BY <1>1, <3>1
    <2>5. CASE pc[w] \notin {"calling", "committed", "leaving"}
      <3>1. Busy(w, t) /\ pc' = [pc EXCEPT ![w] = "leaving"]
        BY <1>0, <2>1, <2>5 DEF Interrupted, TypeOK, Busy, Attempting, Live
      <3>2. t \notin elsewhere => Moves(t)
        BY <1>0, <3>1, LeavingMoves
      <3> QED
        BY <1>0, <2>2, <3>2, MoveRefines, SharedStutters
    <2> QED
      BY <2>3, <2>4, <2>5
  <1> QED
    BY <1>1, <1>2 DEF CancelStops


(* The steps of a worker.                                                  *)
LEMMA WorkerRefines ==
  ASSUME TokenInv, TokenInv', NEW w \in Workers, WorkerStep(w) \/ WorkerRaises(w)
  PROVE  [Abstract!Next]_(Abstract!queueVars)
  <1> USE DEF procVars, rowVars, apiVars, loopVars, otherVars, OnlyRowAndWorker, SetStatus, Goto
  <1>0. TypeOK /\ Employed /\ UNCHANGED <<submitting, held, elsewhere>>
    BY DEF TokenInv, WorkerStep, MarkProcessing, CallModel, ModelAnswers, EndAttempt,
           ModelTimesOut, TimeOutTask, ModelFails, FailTask, Stop, Retry, GiveUp, Requeue, Leave,
           WorkerRaises
  <1>1. PICK t \in Tasks : t = job[w]
    BY <1>0 DEF Employed, WorkerStep, MarkProcessing, CallModel, ModelAnswers, EndAttempt,
           ModelTimesOut, TimeOutTask, ModelFails, FailTask, Stop, Retry, GiveUp, Requeue, Leave,
           WorkerRaises, Live, Handling
  <1>2. OneToken(t) /\ Spent(t) /\ Funded(t) /\ Funded(t)'
    BY DEF TokenInv
  <1>3. CASE \/ MarkProcessing(w) \/ ModelAnswers(w) \/ ModelTimesOut(w) \/ ModelFails(w)
             \/ FailTask(w) \/ (WorkerRaises(w) /\ pc[w] = "committed")
    <2>1. UNCHANGED <<attempts, waiting, job>>
      BY <1>3 DEF MarkProcessing, ModelAnswers, ModelTimesOut, ModelFails, FailTask, WorkerRaises
    <2>2. \A u \in Tasks \ {t} : status'[u] = status[u]
      BY <1>0, <1>1, <1>3 DEF TypeOK, MarkProcessing, ModelAnswers, ModelTimesOut, ModelFails,
         FailTask, WorkerRaises
    <2>3. PICK s : /\ pc' = [pc EXCEPT ![w] = s]
                   /\ <<pc[w], s>> \in {<<"starting", "marking">>, <<"calling", "committed">>,
                                        <<"calling", "timedout">>, <<"calling", "handling">>,
                                        <<"handling", "retrying">>, <<"committed", "handling">>}
      BY <1>3 DEF MarkProcessing, ModelAnswers, ModelTimesOut, ModelFails, FailTask, WorkerRaises
    <2>4. OnlyOf(t)
      BY <1>0, <1>1, <2>1, <2>2, <2>3 DEF OnlyOf, TypeOK
    <2>5. Busy(w, t) /\ Busy(w, t)' /\ pc'[w] = s
      BY <1>0, <1>1, <2>1, <2>3 DEF TypeOK, Busy, Attempting, Live, Handling
    <2>6. t \notin elsewhere => Stage(t)' = Stage(t)
      BY <1>0, <2>3, <2>5, StageOfWorker, NextStageOfWorker
    <2> QED
      BY <2>1, <2>4, <2>6, MoveRefines, SharedStutters DEF Moves
  <1>4. CASE CallModel(w)
    <2>1. /\ pc[w] = "marking" /\ pc' = [pc EXCEPT ![w] = "calling"]
          /\ attempts' = [attempts EXCEPT ![t] = @ + 1]
          /\ UNCHANGED <<status, waiting, job>>
      BY <1>1, <1>4 DEF CallModel
    <2>2. OnlyOf(t)
      BY <1>0, <1>1, <2>1 DEF OnlyOf, TypeOK
    <2>3. Busy(w, t) /\ Busy(w, t)' /\ pc'[w] = "calling"
      BY <1>0, <1>1, <2>1 DEF TypeOK, Busy, Attempting, Live
    <2>4. CASE t \notin elsewhere
      <3> DEFINE stages == [u \in Tasks |-> Stage(u)]
                 counts == [u \in Tasks |-> IF u \in elsewhere THEN 0 ELSE attempts[u]]
      <3>1. Stage(t) = "ready" /\ Stage(t)' = "attempt"
        BY <1>0, <2>1, <2>3, <2>4, StageOfWorker, NextStageOfWorker
      <3>2. stages' = [stages EXCEPT ![t] = "attempt"] /\ stages[t] = "ready"
        BY <2>2, <3>1, OthersKeepStage
      <3>3. counts' = [counts EXCEPT ![t] = @ + 1]
        BY <1>0, <2>1, <2>4 DEF TypeOK
      <3>4. counts[t] <= MaxRetries
        BY <1>0, <1>1, <1>2, <2>1, <2>4, QueueAssumption DEF Funded, TypeOK
      <3>5. Abstract!Begin(t)
        BY <3>2, <3>3, <3>4 DEF Abstract!Begin, Abstract!Move
      <3> QED
        BY <3>5 DEF Abstract!Next
    <2> QED
      BY <2>2, <2>4, SharedStutters
  <1>5. CASE Retry(w)
    <2>1. /\ pc[w] = "retrying" /\ pc' = [pc EXCEPT ![w] = "requeueing"]
          /\ status' = [status EXCEPT ![t] = "pending"]
          /\ UNCHANGED <<waiting, job, attempts>>
      BY <1>1, <1>5 DEF Retry
    <2>2. OnlyOf(t)
      BY <1>0, <1>1, <2>1 DEF OnlyOf, TypeOK
    <2>3. Busy(w, t) /\ Busy(w, t)' /\ pc'[w] = "requeueing"
      BY <1>0, <1>1, <2>1 DEF TypeOK, Busy, Attempting, Live
    <2>4. t \notin elsewhere => Stage(t) = "attempt" /\ Stage(t)' = "ready"
      BY <1>0, <2>1, <2>3, StageOfWorker, NextStageOfWorker
    <2>5. t \notin elsewhere => Counted(t) <= MaxRetries
      <3>1. status'[t] = "pending" /\ attempts'[t] = attempts[t] /\ retries'[t] <= MaxRetries
        BY <1>0, <2>1, QueueAssumption DEF TypeOK, TokenInv
      <3> QED
        BY <1>0, <1>2, <3>1, QueueAssumption DEF Funded, Counted, TypeOK, TokenInv
    <2> QED
      BY <2>1, <2>2, <2>4, <2>5, MoveRefines, SharedStutters DEF Moves
  <1>6. CASE Requeue(w)
    <2>1. /\ pc[w] = "requeueing" /\ pc' = [pc EXCEPT ![w] = "leaving"]
          /\ waiting' = [waiting EXCEPT ![t] = @ + 1]
          /\ UNCHANGED <<status, job, attempts>>
      BY <1>1, <1>6 DEF Requeue, Put
    <2>2. OnlyOf(t) /\ waiting'[t] > 0
      BY <1>0, <1>1, <2>1 DEF OnlyOf, TypeOK
    <2>3. Busy(w, t)
      BY <1>1, <2>1 DEF Busy, Attempting, Live
    <2>4. t \notin elsewhere => Stage(t) = "ready" /\ Stage(t)' = "ready"
      BY <1>0, <2>1, <2>2, <2>3, StageOfWorker, NextStageOfWaiting
    <2> QED
      BY <2>1, <2>2, <2>4, MoveRefines, SharedStutters DEF Moves
  <1>7. CASE \/ EndAttempt(w) \/ TimeOutTask(w) \/ Stop(w) \/ GiveUp(w)
             \/ (WorkerRaises(w) /\ pc[w] # "committed")
    <2>1. /\ pc[w] \in Attempting /\ pc' = [pc EXCEPT ![w] = "leaving"]
          /\ UNCHANGED <<waiting, job, attempts>>
      BY <1>7 DEF EndAttempt, TimeOutTask, Stop, GiveUp, WorkerRaises, Attempting, Live, Handling
    <2>2. /\ \A u \in Tasks \ {t} : status'[u] = status[u]
          /\ status'[t] = status[t] \/ status'[t] \in Terminal
      BY <1>0, <1>1, <1>7 DEF TypeOK, EndAttempt, TimeOutTask, Stop, GiveUp, WorkerRaises, Terminal
    <2>3. OnlyOf(t) /\ Busy(w, t)
      BY <1>0, <1>1, <2>1, <2>2 DEF OnlyOf, TypeOK, Busy
    <2>4. t \notin elsewhere => Moves(t)
      BY <1>0, <2>1, <2>2, <2>3, LeavingMoves
    <2> QED
      BY <2>1, <2>3, <2>4, MoveRefines, SharedStutters
  <1>8. CASE Leave(w)
    <2>1. /\ pc[w] = "leaving" /\ pc' = [pc EXCEPT ![w] = "free"]
          /\ job' = [job EXCEPT ![w] = NoTask]
          /\ UNCHANGED <<status, waiting, attempts>>
      BY <1>8 DEF Leave
    <2>2. \A u \in Tasks, v \in Workers, s \in Attempting :
            job'[v] = u /\ pc'[v] = s <=> job[v] = u /\ pc[v] = s
      BY <1>0, <1>1, <2>1 DEF TypeOK, Attempting, Live, Handling
    <2>3. OnlyOf(t) /\ Stage(t)' = Stage(t)
      BY <1>0, <2>1, <2>2, SameStage DEF OnlyOf
    <2> QED
      BY <2>1, <2>3, MoveRefines DEF Moves
  <1> QED
    BY <1>3, <1>4, <1>5, <1>6, <1>7, <1>8 DEF WorkerStep

(* A crash ends every attempt, and loses the tasks that are not pending; a *)
(* restart queues the pending ones, which is where they stood.             *)
LEMMA CrashRefines ==
  ASSUME TokenInv, TokenInv', Crash
  PROVE  Abstract!Next
  <1>1. UNCHANGED <<status, attempts, elsewhere>> /\ up' = FALSE
    BY DEF Crash, rowVars, otherVars
  <1>2. ASSUME NEW t \in Tasks
        PROVE  /\ Stage(t) = "new" => Stage(t)' = "new"
               /\ Stage(t) = "ready" => Stage(t)' \in {"ready", "over"}
               /\ Stage(t) \in {"attempt", "over"} => Stage(t)' = "over"
               /\ Stage(t) = "shared" => Stage(t)' = "shared"
    <2>1. CASE t \in elsewhere
      BY <1>1, <2>1 DEF Stage
    <2>2. CASE t \notin elsewhere
      <3>1. NoToken(t)'
        BY <1>1 DEF TokenInv, Down
      <3>2. Stage(t)' = IF status[t] = "absent" THEN "new"
                        ELSE IF status[t] = "pending" THEN "ready"
                        ELSE "over"
        BY <1>1, <2>2, <3>1, NextStageOfIdle
      <3>3. InAttempt(t) => status[t] # "pending"
        BY <2>2 DEF TokenInv, Funded, InAttempt, At, Marked
      <3> QED
        BY <2>2, <3>2, <3>3 DEF Stage, Attemptable
    <2> QED
      BY <2>1, <2>2
  <1> DEFINE stages == [t \in Tasks |-> Stage(t)]
             counts == [t \in Tasks |-> IF t \in elsewhere THEN 0 ELSE attempts[t]]
             lost == {t \in Tasks : Stage(t) = "ready" /\ Stage(t)' = "over"}
  <1>3. lost \in SUBSET {t \in Tasks : stages[t] = "ready"}
    OBVIOUS
  <1>4. stages' = [t \in Tasks |->
                    IF stages[t] = "attempt" \/ t \in lost THEN "over" ELSE stages[t]]
    <2>1. \A t \in Tasks : Stage(t) \in {"new", "ready", "attempt", "over", "shared"}
      BY DEF Stage
    <2> QED
      BY <1>2, <2>1
  <1>5. counts' = counts
    BY <1>1
  <1> HIDE DEF lost
  <1> QED
    BY <1>3, <1>4, <1>5 DEF Abstract!Next, Abstract!Crash

LEMMA RestartRefines ==
  ASSUME TokenInv, Restart
  PROVE  UNCHANGED Abstract!queueVars
  <1>0. /\ TypeOK
        /\ UNCHANGED <<attempts, elsewhere, submitting, held, job, pc>>
    BY DEF TokenInv, Restart, apiVars, workerVars, otherVars
  <1>1. ASSUME NEW t \in Tasks
        PROVE  Stage(t)' = Stage(t)
    <2>1. NoToken(t)
      BY DEF TokenInv, Down, Restart
    <2>2. waiting'[t] > 0 <=> status[t] = "pending"
      BY DEF Restart
    <2>3. /\ status'[t] = "pending" <=> status[t] = "pending"
          /\ status'[t] = "absent" <=> status[t] = "absent"
      BY DEF Restart
    <2>4. ~InAttempt(t) /\ ~InAttempt(t)'
      BY <1>0, <2>1 DEF NoToken, Busy, InAttempt, At, Attempting, Live, Handling
    <2>5. Attemptable(t) <=> status[t] = "pending"
      BY <1>0, <2>1 DEF NoToken, Busy, Attemptable, At, Attempting, Live, TypeOK
    <2>6. Attemptable(t)' <=> status[t] = "pending"
      BY <1>0, <2>1, <2>2, <2>3 DEF NoToken, Busy, Attemptable, At, Attempting, Live
    <2> QED
      BY <1>0, <2>3, <2>4, <2>5, <2>6 DEF Stage
  <1> QED
    BY <1>0, <1>1 DEF Abstract!queueVars

(* Another replica takes tasks that do not exist yet or that wait.         *)
LEMMA ShareRefines ==
  ASSUME TokenInv, Known,
         (\E t \in Tasks : SubmitElsewhere(t)) \/ ReplicaStarts
  PROVE  Abstract!Next
  <1> USE DEF rowVars, apiVars, loopVars, workerVars
  <1>0. TypeOK /\ UNCHANGED <<attempts, submitting, waiting, held, job, pc>>
    BY DEF TokenInv, SubmitElsewhere, ReplicaStarts
  <1> DEFINE taken == elsewhere' \ elsewhere
             stages == [u \in Tasks |-> Stage(u)]
             counts == [u \in Tasks |-> IF u \in elsewhere THEN 0 ELSE attempts[u]]
  <1>1. elsewhere' = elsewhere \union taken /\ elsewhere' \subseteq Tasks /\ taken \subseteq Tasks
    BY <1>0 DEF SubmitElsewhere, ReplicaStarts, TypeOK
  <1>2. ASSUME NEW u \in Tasks, u \in taken
        PROVE  Stage(u) \in {"new", "ready"}
    <2>1. u \notin elsewhere /\ status[u] \in {"absent", "pending"}
      BY <1>2 DEF SubmitElsewhere, ReplicaStarts
    <2>2. CASE status[u] = "absent"
      BY <2>1, <2>2 DEF Stage
    <2>3. CASE status[u] = "pending"
      <3>1. ~InAttempt(u)
        BY <2>1, <2>3 DEF TokenInv, Funded, InAttempt, At, Marked
      <3> QED
        BY <2>1, <2>3, <3>1 DEF Stage, Attemptable
    <2> QED
      BY <2>1, <2>2, <2>3
  <1>3. ASSUME NEW u \in Tasks, u \notin taken
        PROVE  Stage(u)' = Stage(u)
    <2>1. u \in elsewhere' <=> u \in elsewhere
      BY <1>1, <1>3
    <2>2. u \notin elsewhere' => status'[u] = status[u]
      BY <1>0 DEF SubmitElsewhere, ReplicaStarts, SetStatus, TypeOK
    <2> QED
      BY <1>0, <2>1, <2>2 DEF Stage, InAttempt, Attemptable, At
  <1>4. \A u \in Tasks : u \in taken => Stage(u)' = "shared"
    BY <1>1 DEF Stage
  <1>5. taken \in SUBSET {u \in Tasks : stages[u] \in {"new", "ready"}}
    BY <1>1, <1>2
  <1>6. stages' = [u \in Tasks |-> IF u \in taken THEN "shared" ELSE stages[u]]
    BY <1>3, <1>4
  <1>7. counts' = [u \in Tasks |-> IF u \in taken THEN 0 ELSE counts[u]]
    BY <1>0, <1>1
  <1> HIDE DEF taken
  <1> QED
    BY <1>5, <1>6, <1>7 DEF Abstract!Next, Abstract!Share

(* What its workers write, concerns a task it shares.                      *)
LEMMA OtherWritesRefines ==
  ASSUME TokenInv, NEW t \in Tasks, OtherWrites(t)
  PROVE  UNCHANGED Abstract!queueVars
  <1>1. /\ t \in elsewhere
        /\ UNCHANGED <<attempts, elsewhere, submitting, waiting, held, job, pc>>
    BY DEF OtherWrites, apiVars, loopVars, workerVars, otherVars
  <1>2. \A u \in Tasks \ {t} : status'[u] = status[u]
    BY DEF OtherWrites, SetStatus, TokenInv, TypeOK
  <1> QED
    BY <1>1, <1>2, SharedStutters DEF OnlyOf

(* The task queue is a WorkQueue, for any tasks, workers, cap, retries,    *)
(* restarts, raising database calls and other replicas: an attempt begins  *)
(* only for a task that has none under way and has one left, nothing       *)
(* brings back a task that is out of the queue, and a replica that starts  *)
(* takes only tasks that wait.                                             *)
THEOREM QueueImplementsWorkQueue == Spec => ImplementsWorkQueue
  <1>1. Init => Abstract!Init
    BY DEF Init, Abstract!Init, Stage
  <1>2. TokenInv /\ Known /\ [Next]_vars => [Abstract!Next]_(Abstract!queueVars)
    <2> SUFFICES ASSUME TokenInv, Known, [Next]_vars
                 PROVE  [Abstract!Next]_(Abstract!queueVars)
      OBVIOUS
    <2>0. TokenInv'
      BY TokenStep
    <2>1. ASSUME NEW t \in Tasks,
                 \/ Submit(t) \/ Enqueue(t) \/ Take(t)
                 \/ PollReads(t) \/ PollWrites(t) \/ CancelReads(t) \/ CancelWrites(t)
                 \/ RequestRaises(t) \/ FailOrphan(t)
          PROVE  [Abstract!Next]_(Abstract!queueVars)
      BY <2>0, <2>1, OutsideRefines
    <2>2. ASSUME NEW t \in Tasks, CancelStops(t)
          PROVE  [Abstract!Next]_(Abstract!queueVars)
      BY <2>0, <2>2, CancelStopsRefines
    <2>3. CASE StartHeld
      <3>1. held \in Tasks
        BY <2>3 DEF StartHeld, TokenInv, TypeOK
      <3> QED
        BY <2>0, <2>3, <3>1, OutsideRefines
    <2>4. ASSUME NEW w \in Workers, WorkerStep(w) \/ WorkerRaises(w)
          PROVE  [Abstract!Next]_(Abstract!queueVars)
      BY <2>0, <2>4, WorkerRefines
    <2>5. CASE Crash
      BY <2>0, <2>5, CrashRefines
    <2>6. CASE Restart
      BY <2>6, RestartRefines
    <2>7. CASE UNCHANGED vars
      <3>1. UNCHANGED <<attempts, elsewhere>> /\ \A t \in Tasks : Stage(t)' = Stage(t)
        BY <2>7 DEF vars, procVars, rowVars, apiVars, loopVars, workerVars, otherVars,
           Stage, InAttempt, Attemptable, At
      <3> QED
        BY <3>1 DEF Abstract!queueVars
    <2>8. CASE (\E t \in Tasks : SubmitElsewhere(t)) \/ ReplicaStarts
      BY <2>8, ShareRefines
    <2>9. ASSUME NEW t \in Tasks, OtherWrites(t)
          PROVE  [Abstract!Next]_(Abstract!queueVars)
      BY <2>9, OtherWritesRefines
    <2> QED
      BY <2>1, <2>2, <2>3, <2>4, <2>5, <2>6, <2>7, <2>8, <2>9 DEF Next
  <1> QED
    BY <1>1, <1>2, TokenInvHolds, KnownHolds, PTL DEF Spec, ImplementsWorkQueue, Abstract!Spec

-----------------------------------------------------------------------------
(* What a cancellation achieves.                                           *)

(* Nothing of t can begin an attempt or report a result any more, and      *)
(* there is none: at most its stopped worker has to write that it failed.  *)
Closed(t) ==
  /\ t \notin elsewhere
  /\ status[t] \in {"processing", "failed", "timeout"}
  /\ t \notin submitting /\ waiting[t] = 0 /\ held # t
  /\ ~At(t, Live)

(* A cancellation that finds the registered worker in its model call holds *)
(* (cancel_task with the CancelledError handler of _process_task): unless  *)
(* another replica has the task in its queue, the task is closed, and      *)
(* closed tasks stay so, whatever is retried, polled, raised, recovered    *)
(* here or queued by a replica that starts.                                *)
CancelInCallHolds ==
  [][\A t \in Tasks :
       \/ Closed(t)
       \/ /\ t \notin elsewhere
          /\ \E w \in Workers : job[w] = t /\ pc[w] = "calling" /\ pc'[w] = "stopping"
       => Closed(t)']_vars

(* A step that gives t no token and writes no other status of it but       *)
(* failed or timeout keeps it closed.                                      *)
Harmless(t) ==
  /\ t \in elsewhere' => t \in elsewhere
  /\ status'[t] \in {status[t], "failed", "timeout"}
  /\ t \in submitting' => t \in submitting
  /\ waiting'[t] \in {waiting[t], 0}
  /\ held' = t => held = t
  /\ \A w \in Workers : job'[w] = t /\ pc'[w] \in Live => job[w] = t /\ pc[w] \in Live

LEMMA HarmlessKeepsClosed ==
  ASSUME NEW t \in Tasks, Closed(t), Harmless(t)
  PROVE  Closed(t)'
  BY DEF Closed, Harmless, At

LEMMA ClosedStays ==
  ASSUME TypeOK, Employed, NEW t \in Tasks, Closed(t), [Next]_vars
  PROVE  Closed(t)'
  <1> SUFFICES Harmless(t)
    BY HarmlessKeepsClosed
  <1> USE QueueAssumption DEF TypeOK, Employed, SetStatus, Goto, Put, procVars, rowVars, apiVars,
          loopVars, workerVars, otherVars, OnlyRowAndWorker
  <1>0. /\ t \notin elsewhere
        /\ status[t] \in {"processing", "failed", "timeout"}
        /\ t \notin submitting /\ waiting[t] = 0 /\ held # t
        /\ \A w \in Workers : job[w] = t => pc[w] \notin Live
    BY DEF Closed, At
  <1>1. ASSUME NEW u \in Tasks, Submit(u) \/ Enqueue(u)
        PROVE  Harmless(t)
    <2>1. u # t
      BY <1>0, <1>1 DEF Submit, Enqueue
    <2> QED
      BY <1>1, <2>1 DEF Submit, Enqueue, Harmless
  <1>2. ASSUME NEW u \in Tasks, Take(u)
        PROVE  Harmless(t)
    <2>1. u # t
      BY <1>0, <1>2 DEF Take, FirstInLine
    <2> QED
      BY <1>2, <2>1 DEF Take, Spawn, Harmless
  <1>3. ASSUME NEW u \in Tasks,
               \/ PollReads(u) \/ PollWrites(u) \/ CancelReads(u) \/ CancelWrites(u)
               \/ RequestRaises(u) \/ FailOrphan(u)
        PROVE  Harmless(t)
    BY <1>3 DEF PollReads, PollWrites, CancelReads, CancelWrites, RequestRaises, FailOrphan,
       Harmless
  <1>4. ASSUME NEW u \in Tasks, CancelStops(u)
        PROVE  Harmless(t)
    <2>1. \A s : Interrupted(s) \notin Live
      BY DEF Interrupted, Live, Handling
    <2> QED
      BY <1>4, <2>1 DEF CancelStops, Harmless
  <1>5. CASE StartHeld
    <2>1. PICK w \in Workers : job' = [job EXCEPT ![w] = held] /\ pc' = [pc EXCEPT ![w] = "starting"]
      BY <1>5 DEF StartHeld, Spawn
    <2>2. \A v \in Workers : job'[v] = t => job[v] = t /\ pc'[v] = pc[v]
      BY <1>0, <2>1
    <2>3. UNCHANGED <<status, submitting, waiting, elsewhere>> /\ held' # t
      BY <1>5 DEF StartHeld
    <2> QED
      BY <2>2, <2>3 DEF Harmless
  <1>6. ASSUME NEW w \in Workers,
               \/ MarkProcessing(w) \/ CallModel(w) \/ ModelAnswers(w) \/ EndAttempt(w)
               \/ ModelTimesOut(w) \/ TimeOutTask(w) \/ ModelFails(w) \/ FailTask(w)
               \/ Retry(w) \/ GiveUp(w) \/ Requeue(w)
        PROVE  Harmless(t)
    <2>1. pc[w] \in Live
      BY <1>6 DEF MarkProcessing, CallModel, ModelAnswers, EndAttempt, ModelTimesOut, TimeOutTask,
         ModelFails, FailTask, Retry, GiveUp, Requeue, Live, Handling
    <2>2. job[w] # t
      BY <1>0, <2>1
    <2>3. /\ UNCHANGED <<submitting, held, job, elsewhere>>
          /\ status'[t] = status[t] /\ waiting'[t] = waiting[t]
      BY <1>6, <2>2 DEF MarkProcessing, CallModel, ModelAnswers, EndAttempt, ModelTimesOut,
         TimeOutTask, ModelFails, FailTask, Retry, GiveUp, Requeue
    <2>4. \A v \in Workers : job[v] = t => pc'[v] = pc[v]
      BY <1>6, <2>2 DEF MarkProcessing, CallModel, ModelAnswers, EndAttempt, ModelTimesOut,
         TimeOutTask, ModelFails, FailTask, Retry, GiveUp, Requeue
    <2> QED
      BY <2>3, <2>4 DEF Harmless
  <1>7. ASSUME NEW w \in Workers, Stop(w) \/ Leave(w)
        PROVE  Harmless(t)
    <2>1. "leaving" \notin Live /\ "free" \notin Live
      BY DEF Live, Handling
    <2> QED
      BY <1>7, <2>1 DEF Stop, Leave, Harmless
  <1>8. ASSUME NEW w \in Workers, WorkerRaises(w)
        PROVE  Harmless(t)
    <2>1. pc'[w] \in Live => pc[w] \in Live
      BY <1>8 DEF WorkerRaises, Live, Handling
    <2>2. UNCHANGED <<status, submitting, waiting, held, job, elsewhere>>
      BY <1>8 DEF WorkerRaises
    <2>3. \A v \in Workers : pc'[v] \in Live => pc[v] \in Live
      BY <1>8, <2>1 DEF WorkerRaises
    <2> QED
      BY <2>2, <2>3 DEF Harmless
  <1>9. CASE Crash
    <2>1. \A w \in Workers : job'[w] # t
      BY <1>9 DEF Crash
    <2>2. UNCHANGED <<status, elsewhere>> /\ submitting' = {} /\ waiting'[t] = 0 /\ held' # t
      BY <1>9 DEF Crash, EmptyQueue
    <2> QED
      BY <2>1, <2>2 DEF Harmless
  <1>10. CASE Restart
    <2>1. status[t] # "pending"
      BY <1>0
    <2>2. status'[t] \in {status[t], "failed"} /\ waiting'[t] = 0
      BY <1>10, <2>1 DEF Restart
    <2>3. UNCHANGED <<submitting, held, job, pc, elsewhere>>
      BY <1>10 DEF Restart
    <2> QED
      BY <2>2, <2>3 DEF Harmless
  <1>11. CASE (\E u \in Tasks : SubmitElsewhere(u) \/ OtherWrites(u)) \/ ReplicaStarts
    <2>1. UNCHANGED <<submitting, waiting, held, job, pc>>
      BY <1>11 DEF SubmitElsewhere, OtherWrites, ReplicaStarts
    <2>2. status'[t] = status[t] /\ t \notin elsewhere'
      BY <1>0, <1>11 DEF SubmitElsewhere, OtherWrites, ReplicaStarts
    <2> QED
      BY <2>1, <2>2 DEF Harmless
  <1>12. CASE UNCHANGED vars
    <2>1. UNCHANGED <<status, submitting, waiting, held, job, pc, elsewhere>>
      BY <1>12 DEF vars
    <2> QED
      BY <2>1 DEF Harmless
  <1> QED
    BY <1>1, <1>2, <1>3, <1>4, <1>5, <1>6, <1>7, <1>8, <1>9, <1>10, <1>11, <1>12
       DEF Next, WorkerStep

(* The worker in its model call had the only token of the task.            *)
LEMMA StoppingCloses ==
  ASSUME TokenInv, NEW w \in Workers, NEW t \in Tasks, t \notin elsewhere,
         job[w] = t, pc[w] = "calling", pc' = [pc EXCEPT ![w] = "stopping"],
         UNCHANGED <<status, submitting, waiting, held, job, elsewhere>>
  PROVE  Closed(t)'
  <1>1. TypeOK /\ OneToken(t) /\ Spent(t) /\ Funded(t)
    BY DEF TokenInv
  <1>2. Busy(w, t)
    BY DEF Busy, Attempting, Live
  <1>3. status[t] \in {"processing", "failed", "timeout"}
    BY <1>1, <1>2 DEF TypeOK, Spent, NoToken, Funded, Busy, Active, Terminal, Marked
  <1>4. t \notin submitting /\ waiting[t] = 0 /\ held # t
    BY <1>1, <1>2 DEF OneToken, TypeOK
  <1>5. ~At(t, Live)'
    <2> SUFFICES ASSUME NEW v \in Workers, job'[v] = t, pc'[v] \in Live
                 PROVE  FALSE
      BY DEF At
    <2>1. CASE v = w
      BY <1>1, <2>1 DEF TypeOK, Live, Handling
    <2>2. CASE v # w
      <3>1. Busy(v, t)
        BY <1>1, <2>2 DEF TypeOK, Busy, Attempting
      <3> QED
        BY <1>1, <1>2, <2>2, <3>1 DEF OneToken
    <2> QED
      BY <2>1, <2>2
  <1> QED
    BY <1>3, <1>4, <1>5 DEF Closed

(* Nothing but a cancellation interrupts a model call so.                  *)
LEMMA OnlyCancelStops ==
  ASSUME TokenInv, [Next]_vars, NEW w \in Workers, pc[w] = "calling", pc'[w] = "stopping"
  PROVE  /\ pc' = [pc EXCEPT ![w] = "stopping"]
         /\ UNCHANGED <<status, submitting, waiting, held, job, elsewhere>>
  <1> USE DEF procVars, rowVars, apiVars, loopVars, workerVars, otherVars, OnlyRowAndWorker, Goto
  <1>0. TypeOK /\ Employed
    BY DEF TokenInv
  <1>1. ASSUME NEW v \in Workers, NEW s, pc' = [pc EXCEPT ![v] = s], s # "stopping"
        PROVE  FALSE
    BY <1>0, <1>1 DEF TypeOK
  <1>2. \A v \in Workers : ~WorkerStep(v) /\ ~WorkerRaises(v)
    BY <1>1 DEF WorkerStep, MarkProcessing, CallModel, ModelAnswers, EndAttempt, ModelTimesOut,
       TimeOutTask, ModelFails, FailTask, Stop, Retry, GiveUp, Requeue, Leave, WorkerRaises
  <1>3. \A u : ~Take(u) /\ ~StartHeld
    BY <1>1 DEF Take, StartHeld, Spawn
  <1>4. ~Crash
    BY DEF Crash, NoWorkers
  <1>5. pc' # pc
    OBVIOUS
  <1>6. PICK t \in Tasks : CancelStops(t)
    BY <1>2, <1>3, <1>4, <1>5 DEF Next, vars, Submit, Enqueue, PollReads, PollWrites, CancelReads,
       CancelWrites, RequestRaises, Restart, ReplicaStarts, SubmitElsewhere, FailOrphan,
       OtherWrites
  <1>7. running[t] # NoWorker /\ pc' = [pc EXCEPT ![running[t]] = Interrupted(pc[running[t]])]
    BY <1>5, <1>6 DEF CancelStops
  <1>8. running[t] = w
    BY <1>0, <1>5, <1>7 DEF TypeOK, Employed
  <1> QED
    BY <1>6, <1>7, <1>8 DEF CancelStops, Interrupted

(* For any tasks, workers, cap, retries, crashes, raising database calls   *)
(* and starting replicas: what is left of the promise of cancel_task is    *)
(* kept for a task in its registered model call.                           *)
THEOREM CancelInCallIsFinal == Spec => CancelInCallHolds
  <1>1. TokenInv /\ [Next]_vars =>
          [\A t \in Tasks :
             \/ Closed(t)
             \/ /\ t \notin elsewhere
                /\ \E w \in Workers : job[w] = t /\ pc[w] = "calling" /\ pc'[w] = "stopping"
             => Closed(t)']_vars
    <2> SUFFICES ASSUME TokenInv, [Next]_vars, NEW t \in Tasks,
                        \/ Closed(t)
                        \/ /\ t \notin elsewhere
                           /\ \E w \in Workers : job[w] = t /\ pc[w] = "calling" /\ pc'[w] = "stopping"
                 PROVE  Closed(t)'
      OBVIOUS
    <2>1. CASE Closed(t)
      BY <2>1, ClosedStays DEF TokenInv
    <2>2. ASSUME t \notin elsewhere,
                 NEW w \in Workers, job[w] = t, pc[w] = "calling", pc'[w] = "stopping"
          PROVE  Closed(t)'
      BY <2>2, OnlyCancelStops, StoppingCloses
    <2> QED
      BY <2>1, <2>2
  <1> QED
    BY <1>1, TokenInvHolds, PTL DEF Spec, CancelInCallHolds
=============================================================================
