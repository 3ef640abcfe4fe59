------------------------- MODULE MessageBrokerProofs -------------------------
(***************************************************************************)
(* Theorems about MessageBroker, for any sets of messages, workers and     *)
(* operators and any number of faults.                                     *)
(*                                                                         *)
(* The inductive invariant has three layers.  BrokerInv says where entries *)
(* can be and what each process holds, whoever crashes or overlaps.        *)
(* Nowhere follows the live entry of every message through it.  OnceInv    *)
(* is about messages that nothing has disturbed: they have one live entry, *)
(* held by one worker or listed by one operator, with the right count.     *)
(***************************************************************************)
EXTENDS MessageBroker, TLAPS

(* The fields of an entry.                                                 *)
LEMMA EntryFields ==
  ASSUME NEW e \in Entries
  PROVE  e.msg \in Messages /\ e.retry \in 0..MaxRetries + 1 /\ e # NoEntry
  BY BrokerAssumption DEF Entries

(* XADD makes an entry that nothing refers to.                             *)
LEMMA FreshCopy ==
  ASSUME NEW m, NEW retry, Copies(m, retry) # {}
  PROVE  /\ NewCopy(m, retry) \in Entries
         /\ NewCopy(m, retry).msg = m
         /\ NewCopy(m, retry).retry = retry
         /\ Free(NewCopy(m, retry))
  BY DEF NewCopy, Copies

-----------------------------------------------------------------------------

(* A worker has a current entry while it acknowledges or nacks one, an     *)
(* operator has an item while it is at one.                                *)
Current ==
  /\ \A w \in Workers :
       cur[w] = NoEntry <=> pc[w] \in {"idle", "claiming", "reading", "working"}
  /\ \A o \in Operators : item[o] = NoEntry <=> stage[o] = "none"

(* An entry is in one place, and what is scheduled is stored.              *)
Apart ==
  /\ unread \intersect pending = {} /\ unread \intersect stored = {} /\ unread \intersect dead = {}
  /\ pending \intersect stored = {} /\ pending \intersect dead = {} /\ stored \intersect dead = {}
  /\ scheduled \subseteq stored

(* Entries to be delivered have retries left, and carry published          *)
(* messages.                                                               *)
Contents ==
  /\ \A e \in unread \union pending \union stored : e.retry <= MaxRetries
  /\ \A e \in unread \union pending \union stored \union dead : e.msg \in accepted

(* What a worker got from consume() is pending, or has been acknowledged   *)
(* by another worker, moved nowhere else.                                  *)
Batches ==
  \A w \in Workers :
    /\ pc[w] = "idle" => batch[w] = {}
    /\ cur[w] \notin batch[w]
    /\ \A e \in batch[w] :
         e.msg \in accepted /\ e.retry <= MaxRetries /\ e \notin unread /\ e \notin dead /\ e \notin stored

(* The entry a worker acknowledges or nacks: where it can be, at each of   *)
(* the commands.                                                           *)
Currents ==
  \A w \in Workers : cur[w] # NoEntry =>
    /\ cur[w].msg \in accepted /\ cur[w].retry <= MaxRetries
    /\ cur[w] \notin unread /\ cur[w] \notin dead
    /\ pc[w] = "acking" => cur[w].msg \in handled
    /\ pc[w] \in {"acking", "nacking", "requeueing"} => cur[w] \notin stored
    /\ pc[w] = "requeueing" => cur[w] \notin pending
    /\ pc[w] = "scheduling" => cur[w] \in stored /\ cur[w] \notin scheduled

(* The copy a nack has stored and not scheduled yet is known to nobody     *)
(* else.                                                                   *)
Unshared ==
  \A w \in Workers : pc[w] = "scheduling" =>
    /\ \A o \in Operators : cur[w] \notin Listed(o)
    /\ \A v \in Workers \ {w} : cur[v] # cur[w]

(* Where an operator stands; what it moved is unscheduled before it is     *)
(* deleted.                                                                *)
Stages ==
  \A o \in Operators :
    /\ doing[o] = "nothing" => item[o] = NoEntry /\ list[o] = {}
    /\ item[o] \notin list[o]
    /\ stage[o] = "unschedule" => doing[o] = "moving"
    /\ doing[o] = "moving" /\ stage[o] = "delete" => item[o] \notin scheduled

(* The entries an operator has listed are not in the streams: it publishes *)
(* copies.                                                                 *)
Lists ==
  \A o \in Operators : \A e \in Listed(o) \ {NoEntry} :
    /\ e \notin unread /\ e \notin pending /\ e.msg \in accepted
    /\ doing[o] = "moving" => e.retry <= MaxRetries /\ e \notin dead
    /\ doing[o] = "replaying" => e \notin stored

BrokerInv ==
  /\ TypeOK /\ Current /\ Apart /\ Contents
  /\ Batches /\ Currents /\ Unshared
  /\ Stages /\ Lists

(* An entry is live until the copy that replaces it exists: a delayed one   *)
(* until it is moved, a dead one until it is replayed, one that is being   *)
(* nacked until its copy is scheduled or buried.                           *)
MovedOut(e) ==
  \E o \in Operators : item[o] = e /\ doing[o] = "moving" /\ stage[o] \in {"unschedule", "delete"}
Replayed(e) ==
  \E o \in Operators : item[o] = e /\ doing[o] = "replaying" /\ stage[o] = "delete"
Nacking(e) ==
  \E w \in Workers : cur[w] = e /\ pc[w] \in {"requeueing", "scheduling"}
Live(e) ==
  \/ e \in unread \/ e \in pending
  \/ e \in scheduled /\ ~MovedOut(e)
  \/ e \in dead /\ ~Replayed(e)
  \/ Nacking(e)

(* Messages are processed and nacked after they have been published.       *)
History ==
  /\ handled \subseteq accepted
  /\ \A m \in Messages \ accepted : nacked[m] = 0

(* NeverNowhere, with entries that count as found only until their copy is *)
(* published.                                                              *)
Nowhere ==
  \A m \in accepted : m \in handled \/ m \in dropped \/ \E e \in Entries : e.msg = m /\ Live(e)

(* A message that nothing has disturbed has one live entry.                *)
Single ==
  \A e, f \in Entries : e.msg \notin disturbed /\ Live(e) /\ Live(f) /\ e.msg = f.msg => e = f

(* Its entry is pending while a worker holds it, and no other worker does. *)
Holding ==
  \A w \in Workers : \A e \in Held(w) \ {NoEntry} : e.msg \notin disturbed =>
    /\ e \in batch[w] => e \in pending
    /\ pc[w] \in {"acking", "nacking"} => e \in pending
    /\ \A v \in Workers : e \in Held(v) => v = w

(* Its delayed or dead entry is listed by one operator, and still there.   *)
Listing ==
  \A o \in Operators : \A e \in Listed(o) \ {NoEntry} : e.msg \notin disturbed =>
    /\ \A q \in Operators : e \in Listed(q) => q = o
    /\ doing[o] = "moving" => e \in scheduled \/ (e = item[o] /\ stage[o] = "delete")
    /\ doing[o] = "replaying" => e \in dead

(* Once it is processed, its entry is the one being acknowledged.          *)
Done ==
  \A e \in Entries : e.msg \notin disturbed /\ e.msg \in handled /\ Live(e) =>
    \E w \in Workers : cur[w] = e /\ pc[w] = "acking"

Acked(e) == \E w \in Workers : cur[w] = e /\ pc[w] = "requeueing"

(* The nacks since publication or replay are the retries its entry         *)
(* carries.                                                                *)
Counted ==
  /\ \A e \in Entries : e.msg \notin disturbed /\ Live(e) =>
       nacked[e.msg] = IF Acked(e) THEN e.retry + 1 ELSE e.retry
  /\ \A m \in Messages \ disturbed : nacked[m] <= MaxRetries + 1

OnceInv ==
  /\ Single /\ Holding /\ Listing /\ Done /\ Counted /\ OnceUndisturbed

-----------------------------------------------------------------------------
(* The initial state.                                                      *)
LEMMA InitInv ==
  ASSUME Init
  PROVE  BrokerInv /\ History /\ Nowhere /\ OnceInv
  <1> USE BrokerAssumption, EntryFields DEF Init, Held, Listed
  <1>1. TypeOK /\ Current
    BY DEF TypeOK, Current
  <1>2. Apart /\ Contents /\ Batches /\ Currents /\ Unshared /\ Stages /\ Lists
    BY DEF Apart, Contents, Batches, Currents, Unshared, Stages, Lists
  <1>3. History /\ Nowhere
    BY DEF History, Nowhere
  <1>4. Holding /\ Listing
    BY DEF Holding, Listing
  <1>5. \A e \in Entries : ~Live(e)
    BY DEF Live, MovedOut, Replayed, Nacking
  <1>6. Single /\ Done /\ Counted /\ OnceUndisturbed
    BY <1>5 DEF Single, Done, Counted, OnceUndisturbed
  <1> QED
    BY <1>1, <1>2, <1>3, <1>4, <1>6 DEF BrokerInv, OnceInv

-----------------------------------------------------------------------------
(* Every step preserves every part.                                        *)

(* Types: the current entry and the item exist when they are used.         *)
LEMMA TypeStep ==
  ASSUME TypeOK, Current, [Next]_vars
  PROVE  TypeOK'
  <1> USE BrokerAssumption, EntryFields DEF redisVars, workerVars, operatorVars,
          historyVars, TypeOK, Current
  <1>1. ASSUME NEW m \in Messages, Publish(m) PROVE TypeOK'
    BY <1>1, FreshCopy DEF Publish, Add
  <1>2. ASSUME NEW w \in Workers, NEW e \in Entries, Claim(w, e) PROVE TypeOK'
    BY <1>2 DEF Claim, Goto
  <1>3. ASSUME NEW w \in Workers, NEW e \in Entries, Read(w, e) PROVE TypeOK'
    BY <1>3 DEF Read, Goto
  <1>4. ASSUME NEW w \in Workers, NEW e \in Entries, Handle(w, e) PROVE TypeOK'
    BY <1>4 DEF Handle, Goto
  <1>5. ASSUME NEW w \in Workers, NEW e \in Entries, Leave(w, e) PROVE TypeOK'
    BY <1>5 DEF Leave, Goto, NextMessage
  <1>6. ASSUME NEW w \in Workers, NEW e \in Entries, Reject(w, e) PROVE TypeOK'
    BY <1>6 DEF Reject, Goto
  <1>7. ASSUME NEW w \in Workers, EndConsume(w) PROVE TypeOK'
    BY <1>7 DEF EndConsume, Goto
  <1>8. ASSUME NEW w \in Workers, Ack(w) PROVE TypeOK'
    BY <1>8 DEF Ack, Goto, NextMessage
  <1>9. ASSUME NEW w \in Workers, NackAcks(w) PROVE TypeOK'
    BY <1>9 DEF NackAcks, Goto
  <1>10. ASSUME NEW w \in Workers, NackBuries(w) PROVE TypeOK'
    BY <1>10, FreshCopy DEF NackBuries, Goto, NextMessage, Add
  <1>11. ASSUME NEW w \in Workers, NackStores(w) PROVE TypeOK'
    BY <1>11, FreshCopy DEF NackStores, Goto, Add, Exhausted
  <1>12. ASSUME NEW w \in Workers, NackSchedules(w) PROVE TypeOK'
    BY <1>12 DEF NackSchedules, Goto, NextMessage
  <1>13. ASSUME NEW w \in Workers, CommandFails(w) PROVE TypeOK'
    BY <1>13 DEF CommandFails, Goto, NextMessage, CutOff
  <1>14. ASSUME NEW w \in Workers, Crash(w) PROVE TypeOK'
    BY <1>14 DEF Crash, Goto, CutOff
  <1>15. ASSUME NEW o \in Operators, NEW e \in Entries, MoveReads(o, e) PROVE TypeOK'
    BY <1>15 DEF MoveReads, FinishItem
  <1>16. ASSUME NEW o \in Operators, NEW e \in Entries, ReplayTakes(o, e) PROVE TypeOK'
    BY <1>16 DEF ReplayTakes
  <1>17. ASSUME NEW o \in Operators, ListDue(o) PROVE TypeOK'
    BY <1>17 DEF ListDue, StartJob
  <1>18. ASSUME NEW o \in Operators, ListDead(o) PROVE TypeOK'
    BY <1>18 DEF ListDead, StartJob
  <1>19. ASSUME NEW o \in Operators, MovePublishes(o) PROVE TypeOK'
    BY <1>19, FreshCopy DEF MovePublishes, Add
  <1>20. ASSUME NEW o \in Operators, MoveUnschedules(o) PROVE TypeOK'
    BY <1>20 DEF MoveUnschedules
  <1>21. ASSUME NEW o \in Operators, MoveDeletes(o) PROVE TypeOK'
    BY <1>21 DEF MoveDeletes, FinishItem
  <1>22. ASSUME NEW o \in Operators, ReplayPublishes(o) PROVE TypeOK'
    BY <1>22, FreshCopy DEF ReplayPublishes, Add
  <1>23. ASSUME NEW o \in Operators, ReplayDeletes(o) PROVE TypeOK'
    BY <1>23 DEF ReplayDeletes, FinishItem
  <1>24. ASSUME NEW o \in Operators, PublishFails(o) PROVE TypeOK'
    BY <1>24 DEF PublishFails, FinishItem
  <1>25. ASSUME NEW o \in Operators, Abort(o) PROVE TypeOK'
    BY <1>25 DEF Abort
  <1>26. CASE UNCHANGED vars
    BY <1>26 DEF vars
  <1> QED
    BY <1>1, <1>2, <1>3, <1>4, <1>5, <1>6, <1>7, <1>8, <1>9, <1>10, <1>11, <1>12,
       <1>13, <1>14, <1>15, <1>16, <1>17, <1>18, <1>19, <1>20, <1>21, <1>22, <1>23,
       <1>24, <1>25, <1>26
    DEF Next, WorkerNext, OperatorNext

(* The current entry and the item.                                         *)
LEMMA CurrentStep ==
  ASSUME TypeOK, Current, [Next]_vars
  PROVE  Current'
  <1> USE BrokerAssumption, EntryFields DEF redisVars, workerVars, operatorVars,
          historyVars, TypeOK, Current
  <1>1. ASSUME NEW m \in Messages, Publish(m) PROVE Current'
    BY <1>1, FreshCopy DEF Publish, Add
  <1>2. ASSUME NEW w \in Workers, NEW e \in Entries, Claim(w, e) PROVE Current'
    BY <1>2 DEF Claim, Goto
  <1>3. ASSUME NEW w \in Workers, NEW e \in Entries, Read(w, e) PROVE Current'
    BY <1>3 DEF Read, Goto
  <1>4. ASSUME NEW w \in Workers, NEW e \in Entries, Handle(w, e) PROVE Current'
    BY <1>4 DEF Handle, Goto
  <1>5. ASSUME NEW w \in Workers, NEW e \in Entries, Leave(w, e) PROVE Current'
    BY <1>5 DEF Leave, Goto, NextMessage
  <1>6. ASSUME NEW w \in Workers, NEW e \in Entries, Reject(w, e) PROVE Current'
    BY <1>6 DEF Reject, Goto
  <1>7. ASSUME NEW w \in Workers, EndConsume(w) PROVE Current'
    BY <1>7 DEF EndConsume, Goto
  <1>8. ASSUME NEW w \in Workers, Ack(w) PROVE Current'
    BY <1>8 DEF Ack, Goto, NextMessage
  <1>9. ASSUME NEW w \in Workers, NackAcks(w) PROVE Current'
    BY <1>9 DEF NackAcks, Goto
  <1>10. ASSUME NEW w \in Workers, NackBuries(w) PROVE Current'
    BY <1>10, FreshCopy DEF NackBuries, Goto, NextMessage, Add
  <1>11. ASSUME NEW w \in Workers, NackStores(w) PROVE Current'
    BY <1>11, FreshCopy DEF NackStores, Goto, Add, Exhausted
  <1>12. ASSUME NEW w \in Workers, NackSchedules(w) PROVE Current'
    BY <1>12 DEF NackSchedules, Goto, NextMessage
  <1>13. ASSUME NEW w \in Workers, CommandFails(w) PROVE Current'
    BY <1>13 DEF CommandFails, Goto, NextMessage, CutOff
  <1>14. ASSUME NEW w \in Workers, Crash(w) PROVE Current'
    BY <1>14 DEF Crash, Goto, CutOff
  <1>15. ASSUME NEW o \in Operators, NEW e \in Entries, MoveReads(o, e) PROVE Current'
    BY <1>15 DEF MoveReads, FinishItem
  <1>16. ASSUME NEW o \in Operators, NEW e \in Entries, ReplayTakes(o, e) PROVE Current'
    BY <1>16 DEF ReplayTakes
  <1>17. ASSUME NEW o \in Operators, ListDue(o) PROVE Current'
    BY <1>17 DEF ListDue, StartJob
  <1>18. ASSUME NEW o \in Operators, ListDead(o) PROVE Current'
    BY <1>18 DEF ListDead, StartJob
  <1>19. ASSUME NEW o \in Operators, MovePublishes(o) PROVE Current'
    BY <1>19, FreshCopy DEF MovePublishes, Add
  <1>20. ASSUME NEW o \in Operators, MoveUnschedules(o) PROVE Current'
    BY <1>20 DEF MoveUnschedules
  <1>21. ASSUME NEW o \in Operators, MoveDeletes(o) PROVE Current'
    BY <1>21 DEF MoveDeletes, FinishItem
  <1>22. ASSUME NEW o \in Operators, ReplayPublishes(o) PROVE Current'
    BY <1>22, FreshCopy DEF ReplayPublishes, Add
  <1>23. ASSUME NEW o \in Operators, ReplayDeletes(o) PROVE Current'
    BY <1>23 DEF ReplayDeletes, FinishItem
  <1>24. ASSUME NEW o \in Operators, PublishFails(o) PROVE Current'
    BY <1>24 DEF PublishFails, FinishItem
  <1>25. ASSUME NEW o \in Operators, Abort(o) PROVE Current'
    BY <1>25 DEF Abort
  <1>26. CASE UNCHANGED vars
    BY <1>26 DEF vars
  <1> QED
    BY <1>1, <1>2, <1>3, <1>4, <1>5, <1>6, <1>7, <1>8, <1>9, <1>10, <1>11, <1>12,
       <1>13, <1>14, <1>15, <1>16, <1>17, <1>18, <1>19, <1>20, <1>21, <1>22, <1>23,
       <1>24, <1>25, <1>26
    DEF Next, WorkerNext, OperatorNext

(* Copies are fresh; what a nack schedules is stored, what is deleted is   *)
(* unscheduled.                                                            *)
LEMMA ApartStep ==
  ASSUME TypeOK, Current, Apart, Currents, Stages, [Next]_vars
  PROVE  Apart'
  <1> USE BrokerAssumption, EntryFields DEF redisVars, workerVars, operatorVars,
          historyVars, TypeOK, Current, Apart, Currents, Stages, Free
  <1>1. ASSUME NEW m \in Messages, Publish(m) PROVE Apart'
    BY <1>1, FreshCopy DEF Publish, Add
  <1>2. ASSUME NEW w \in Workers, NEW e \in Entries, Claim(w, e) PROVE Apart'
    BY <1>2 DEF Claim, Goto
  <1>3. ASSUME NEW w \in Workers, NEW e \in Entries, Read(w, e) PROVE Apart'
    BY <1>3 DEF Read, Goto
  <1>4. ASSUME NEW w \in Workers, NEW e \in Entries, Handle(w, e) PROVE Apart'
    BY <1>4 DEF Handle, Goto
  <1>5. ASSUME NEW w \in Workers, NEW e \in Entries, Leave(w, e) PROVE Apart'
    BY <1>5 DEF Leave, Goto, NextMessage
  <1>6. ASSUME NEW w \in Workers, NEW e \in Entries, Reject(w, e) PROVE Apart'
    BY <1>6 DEF Reject, Goto
  <1>7. ASSUME NEW w \in Workers, EndConsume(w) PROVE Apart'
    BY <1>7 DEF EndConsume, Goto
  <1>8. ASSUME NEW w \in Workers, Ack(w) PROVE Apart'
    BY <1>8 DEF Ack, Goto, NextMessage
  <1>9. ASSUME NEW w \in Workers, NackAcks(w) PROVE Apart'
    BY <1>9 DEF NackAcks, Goto
  <1>10. ASSUME NEW w \in Workers, NackBuries(w) PROVE Apart'
    BY <1>10, FreshCopy DEF NackBuries, Goto, NextMessage, Add
  <1>11. ASSUME NEW w \in Workers, NackStores(w) PROVE Apart'
    BY <1>11, FreshCopy DEF NackStores, Goto, Add, Exhausted
  <1>12. ASSUME NEW w \in Workers, NackSchedules(w) PROVE Apart'
    BY <1>12 DEF NackSchedules, Goto, NextMessage
  <1>13. ASSUME NEW w \in Workers, CommandFails(w) PROVE Apart'
    BY <1>13 DEF CommandFails, Goto, NextMessage, CutOff
  <1>14. ASSUME NEW w \in Workers, Crash(w) PROVE Apart'
    BY <1>14 DEF Crash, Goto, CutOff
  <1>15. ASSUME NEW o \in Operators, NEW e \in Entries, MoveReads(o, e) PROVE Apart'
    BY <1>15 DEF MoveReads, FinishItem
  <1>16. ASSUME NEW o \in Operators, NEW e \in Entries, ReplayTakes(o, e) PROVE Apart'
    BY <1>16 DEF ReplayTakes
  <1>17. ASSUME NEW o \in Operators, ListDue(o) PROVE Apart'
    BY <1>17 DEF ListDue, StartJob
  <1>18. ASSUME NEW o \in Operators, ListDead(o) PROVE Apart'
    BY <1>18 DEF ListDead, StartJob
  <1>19. ASSUME NEW o \in Operators, MovePublishes(o) PROVE Apart'
    BY <1>19, FreshCopy DEF MovePublishes, Add
  <1>20. ASSUME NEW o \in Operators, MoveUnschedules(o) PROVE Apart'
    BY <1>20 DEF MoveUnschedules
  <1>21. ASSUME NEW o \in Operators, MoveDeletes(o) PROVE Apart'
    BY <1>21 DEF MoveDeletes, FinishItem
  <1>22. ASSUME NEW o \in Operators, ReplayPublishes(o) PROVE Apart'
    BY <1>22, FreshCopy DEF ReplayPublishes, Add
  <1>23. ASSUME NEW o \in Operators, ReplayDeletes(o) PROVE Apart'
    BY <1>23 DEF ReplayDeletes, FinishItem
  <1>24. ASSUME NEW o \in Operators, PublishFails(o) PROVE Apart'
    BY <1>24 DEF PublishFails, FinishItem
  <1>25. ASSUME NEW o \in Operators, Abort(o) PROVE Apart'
    BY <1>25 DEF Abort
  <1>26. CASE UNCHANGED vars
    BY <1>26 DEF vars
  <1> QED
    BY <1>1, <1>2, <1>3, <1>4, <1>5, <1>6, <1>7, <1>8, <1>9, <1>10, <1>11, <1>12,
       <1>13, <1>14, <1>15, <1>16, <1>17, <1>18, <1>19, <1>20, <1>21, <1>22, <1>23,
       <1>24, <1>25, <1>26
    DEF Next, WorkerNext, OperatorNext

(* Retries and messages are copied from entries that have them.            *)
LEMMA ContentsStep ==
  ASSUME TypeOK, Current, Contents, Currents, Apart, Lists, [Next]_vars
  PROVE  Contents'
  <1> USE BrokerAssumption, EntryFields DEF redisVars, workerVars, operatorVars,
          historyVars, TypeOK, Current, Contents, Currents, Apart, Lists, Listed,
          Exhausted
  <1>1. ASSUME NEW m \in Messages, Publish(m) PROVE Contents'
    BY <1>1, FreshCopy DEF Publish, Add
  <1>2. ASSUME NEW w \in Workers, NEW e \in Entries, Claim(w, e) PROVE Contents'
    BY <1>2 DEF Claim, Goto
  <1>3. ASSUME NEW w \in Workers, NEW e \in Entries, Read(w, e) PROVE Contents'
    BY <1>3 DEF Read, Goto
  <1>4. ASSUME NEW w \in Workers, NEW e \in Entries, Handle(w, e) PROVE Contents'
    BY <1>4 DEF Handle, Goto
  <1>5. ASSUME NEW w \in Workers, NEW e \in Entries, Leave(w, e) PROVE Contents'
    BY <1>5 DEF Leave, Goto, NextMessage
  <1>6. ASSUME NEW w \in Workers, NEW e \in Entries, Reject(w, e) PROVE Contents'
    BY <1>6 DEF Reject, Goto
  <1>7. ASSUME NEW w \in Workers, EndConsume(w) PROVE Contents'
    BY <1>7 DEF EndConsume, Goto
  <1>8. ASSUME NEW w \in Workers, Ack(w) PROVE Contents'
    BY <1>8 DEF Ack, Goto, NextMessage
  <1>9. ASSUME NEW w \in Workers, NackAcks(w) PROVE Contents'
    BY <1>9 DEF NackAcks, Goto
  <1>10. ASSUME NEW w \in Workers, NackBuries(w) PROVE Contents'
    BY <1>10, FreshCopy DEF NackBuries, Goto, NextMessage, Add
  <1>11. ASSUME NEW w \in Workers, NackStores(w) PROVE Contents'
    BY <1>11, FreshCopy DEF NackStores, Goto, Add, Exhausted
  <1>12. ASSUME NEW w \in Workers, NackSchedules(w) PROVE Contents'
    BY <1>12 DEF NackSchedules, Goto, NextMessage
  <1>13. ASSUME NEW w \in Workers, CommandFails(w) PROVE Contents'
    BY <1>13 DEF CommandFails, Goto, NextMessage, CutOff
  <1>14. ASSUME NEW w \in Workers, Crash(w) PROVE Contents'
    BY <1>14 DEF Crash, Goto, CutOff
  <1>15. ASSUME NEW o \in Operators, NEW e \in Entries, MoveReads(o, e) PROVE Contents'
    BY <1>15 DEF MoveReads, FinishItem
  <1>16. ASSUME NEW o \in Operators, NEW e \in Entries, ReplayTakes(o, e) PROVE Contents'
    BY <1>16 DEF ReplayTakes
  <1>17. ASSUME NEW o \in Operators, ListDue(o) PROVE Contents'
    BY <1>17 DEF ListDue, StartJob
  <1>18. ASSUME NEW o \in Operators, ListDead(o) PROVE Contents'
    BY <1>18 DEF ListDead, StartJob
  <1>19. ASSUME NEW o \in Operators, MovePublishes(o) PROVE Contents'
    BY <1>19, FreshCopy DEF MovePublishes, Add
  <1>20. ASSUME NEW o \in Operators, MoveUnschedules(o) PROVE Contents'
    BY <1>20 DEF MoveUnschedules
  <1>21. ASSUME NEW o \in Operators, MoveDeletes(o) PROVE Contents'
    BY <1>21 DEF MoveDeletes, FinishItem
  <1>22. ASSUME NEW o \in Operators, ReplayPublishes(o) PROVE Contents'
    BY <1>22, FreshCopy DEF ReplayPublishes, Add
  <1>23. ASSUME NEW o \in Operators, ReplayDeletes(o) PROVE Contents'
    BY <1>23 DEF ReplayDeletes, FinishItem
  <1>24. ASSUME NEW o \in Operators, PublishFails(o) PROVE Contents'
    BY <1>24 DEF PublishFails, FinishItem
  <1>25. ASSUME NEW o \in Operators, Abort(o) PROVE Contents'
    BY <1>25 DEF Abort
  <1>26. CASE UNCHANGED vars
    BY <1>26 DEF vars
  <1> QED
    BY <1>1, <1>2, <1>3, <1>4, <1>5, <1>6, <1>7, <1>8, <1>9, <1>10, <1>11, <1>12,
       <1>13, <1>14, <1>15, <1>16, <1>17, <1>18, <1>19, <1>20, <1>21, <1>22, <1>23,
       <1>24, <1>25, <1>26
    DEF Next, WorkerNext, OperatorNext

(* What is claimed or read is pending; copies are held by nobody.          *)
LEMMA BatchesStep ==
  ASSUME TypeOK, Current, Batches, Apart, Contents, Lists, [Next]_vars
  PROVE  Batches'
  <1> USE BrokerAssumption, EntryFields DEF redisVars, workerVars, operatorVars,
          historyVars, TypeOK, Current, Batches, Apart, Contents, Free, Held
  <1>1. ASSUME NEW m \in Messages, Publish(m) PROVE Batches'
    BY <1>1, FreshCopy DEF Publish, Add
  <1>2. ASSUME NEW w \in Workers, NEW e \in Entries, Claim(w, e) PROVE Batches'
    BY <1>2 DEF Claim, Goto
  <1>3. ASSUME NEW w \in Workers, NEW e \in Entries, Read(w, e) PROVE Batches'
    BY <1>3 DEF Read, Goto
  <1>4. ASSUME NEW w \in Workers, NEW e \in Entries, Handle(w, e) PROVE Batches'
    BY <1>4 DEF Handle, Goto
  <1>5. ASSUME NEW w \in Workers, NEW e \in Entries, Leave(w, e) PROVE Batches'
    BY <1>5 DEF Leave, Goto, NextMessage
  <1>6. ASSUME NEW w \in Workers, NEW e \in Entries, Reject(w, e) PROVE Batches'
    BY <1>6 DEF Reject, Goto
  <1>7. ASSUME NEW w \in Workers, EndConsume(w) PROVE Batches'
    BY <1>7 DEF EndConsume, Goto
  <1>8. ASSUME NEW w \in Workers, Ack(w) PROVE Batches'
    BY <1>8 DEF Ack, Goto, NextMessage
  <1>9. ASSUME NEW w \in Workers, NackAcks(w) PROVE Batches'
    BY <1>9 DEF NackAcks, Goto
  <1>10. ASSUME NEW w \in Workers, NackBuries(w) PROVE Batches'
    BY <1>10, FreshCopy DEF NackBuries, Goto, NextMessage, Add
  <1>11. ASSUME NEW w \in Workers, NackStores(w) PROVE Batches'
    BY <1>11, FreshCopy DEF NackStores, Goto, Add, Exhausted
  <1>12. ASSUME NEW w \in Workers, NackSchedules(w) PROVE Batches'
    BY <1>12 DEF NackSchedules, Goto, NextMessage
  <1>13. ASSUME NEW w \in Workers, CommandFails(w) PROVE Batches'
    BY <1>13 DEF CommandFails, Goto, NextMessage, CutOff
  <1>14. ASSUME NEW w \in Workers, Crash(w) PROVE Batches'
    BY <1>14 DEF Crash, Goto, CutOff
  <1>15. ASSUME NEW o \in Operators, NEW e \in Entries, MoveReads(o, e) PROVE Batches'
    BY <1>15 DEF MoveReads, FinishItem
  <1>16. ASSUME NEW o \in Operators, NEW e \in Entries, ReplayTakes(o, e) PROVE Batches'
    BY <1>16 DEF ReplayTakes
  <1>17. ASSUME NEW o \in Operators, ListDue(o) PROVE Batches'
    BY <1>17 DEF ListDue, StartJob
  <1>18. ASSUME NEW o \in Operators, ListDead(o) PROVE Batches'
    BY <1>18 DEF ListDead, StartJob
  <1>19. ASSUME NEW o \in Operators, MovePublishes(o) PROVE Batches'
    BY <1>19, FreshCopy DEF MovePublishes, Add
  <1>20. ASSUME NEW o \in Operators, MoveUnschedules(o) PROVE Batches'
    BY <1>20 DEF MoveUnschedules
  <1>21. ASSUME NEW o \in Operators, MoveDeletes(o) PROVE Batches'
    BY <1>21 DEF MoveDeletes, FinishItem
  <1>22. ASSUME NEW o \in Operators, ReplayPublishes(o) PROVE Batches'
    BY <1>22, FreshCopy DEF ReplayPublishes, Add
  <1>23. ASSUME NEW o \in Operators, ReplayDeletes(o) PROVE Batches'
    BY <1>23 DEF ReplayDeletes, FinishItem
  <1>24. ASSUME NEW o \in Operators, PublishFails(o) PROVE Batches'
    BY <1>24 DEF PublishFails, FinishItem
  <1>25. ASSUME NEW o \in Operators, Abort(o) PROVE Batches'
    BY <1>25 DEF Abort
  <1>26. CASE UNCHANGED vars
    BY <1>26 DEF vars
  <1> QED
    BY <1>1, <1>2, <1>3, <1>4, <1>5, <1>6, <1>7, <1>8, <1>9, <1>10, <1>11, <1>12,
       <1>13, <1>14, <1>15, <1>16, <1>17, <1>18, <1>19, <1>20, <1>21, <1>22, <1>23,
       <1>24, <1>25, <1>26
    DEF Next, WorkerNext, OperatorNext

(* The current entry comes from the batch, then from the storage.          *)
LEMMA CurrentsStep ==
  ASSUME TypeOK, Current, Currents, Batches, Apart, Contents, Unshared, [Next]_vars
  PROVE  Currents'
  <1> USE BrokerAssumption, EntryFields DEF redisVars, workerVars, operatorVars,
          historyVars, TypeOK, Current, Currents, Batches, Unshared, Listed, Free,
          Held, Exhausted
  <1>1. ASSUME NEW m \in Messages, Publish(m) PROVE Currents'
    BY <1>1, FreshCopy DEF Publish, Add
  <1>2. ASSUME NEW w \in Workers, NEW e \in Entries, Claim(w, e) PROVE Currents'
    BY <1>2 DEF Claim, Goto
  <1>3. ASSUME NEW w \in Workers, NEW e \in Entries, Read(w, e) PROVE Currents'
    BY <1>3 DEF Read, Goto
  <1>4. ASSUME NEW w \in Workers, NEW e \in Entries, Handle(w, e) PROVE Currents'
    BY <1>4 DEF Handle, Goto
  <1>5. ASSUME NEW w \in Workers, NEW e \in Entries, Leave(w, e) PROVE Currents'
    BY <1>5 DEF Leave, Goto, NextMessage
  <1>6. ASSUME NEW w \in Workers, NEW e \in Entries, Reject(w, e) PROVE Currents'
    BY <1>6 DEF Reject, Goto
  <1>7. ASSUME NEW w \in Workers, EndConsume(w) PROVE Currents'
    BY <1>7 DEF EndConsume, Goto
  <1>8. ASSUME NEW w \in Workers, Ack(w) PROVE Currents'
    BY <1>8 DEF Ack, Goto, NextMessage
  <1>9. ASSUME NEW w \in Workers, NackAcks(w) PROVE Currents'
    BY <1>9 DEF NackAcks, Goto
  <1>10. ASSUME NEW w \in Workers, NackBuries(w) PROVE Currents'
    BY <1>10, FreshCopy DEF NackBuries, Goto, NextMessage, Add
  <1>11. ASSUME NEW w \in Workers, NackStores(w) PROVE Currents'
    BY <1>11, FreshCopy DEF NackStores, Goto, Add, Exhausted
  <1>12. ASSUME NEW w \in Workers, NackSchedules(w) PROVE Currents'
    BY <1>12 DEF NackSchedules, Goto, NextMessage
  <1>13. ASSUME NEW w \in Workers, CommandFails(w) PROVE Currents'
    BY <1>13 DEF CommandFails, Goto, NextMessage, CutOff
  <1>14. ASSUME NEW w \in Workers, Crash(w) PROVE Currents'
    BY <1>14 DEF Crash, Goto, CutOff
  <1>15. ASSUME NEW o \in Operators, NEW e \in Entries, MoveReads(o, e) PROVE Currents'
    BY <1>15 DEF MoveReads, FinishItem
  <1>16. ASSUME NEW o \in Operators, NEW e \in Entries, ReplayTakes(o, e) PROVE Currents'
    BY <1>16 DEF ReplayTakes
  <1>17. ASSUME NEW o \in Operators, ListDue(o) PROVE Currents'
    BY <1>17 DEF ListDue, StartJob
  <1>18. ASSUME NEW o \in Operators, ListDead(o) PROVE Currents'
    BY <1>18 DEF ListDead, StartJob
  <1>19. ASSUME NEW o \in Operators, MovePublishes(o) PROVE Currents'
    BY <1>19, FreshCopy DEF MovePublishes, Add
  <1>20. ASSUME NEW o \in Operators, MoveUnschedules(o) PROVE Currents'
    BY <1>20 DEF MoveUnschedules
  <1>21. ASSUME NEW o \in Operators, MoveDeletes(o) PROVE Currents'
    BY <1>21 DEF MoveDeletes, FinishItem
  <1>22. ASSUME NEW o \in Operators, ReplayPublishes(o) PROVE Currents'
    BY <1>22, FreshCopy DEF ReplayPublishes, Add
  <1>23. ASSUME NEW o \in Operators, ReplayDeletes(o) PROVE Currents'
    BY <1>23 DEF ReplayDeletes, FinishItem
  <1>24. ASSUME NEW o \in Operators, PublishFails(o) PROVE Currents'
    BY <1>24 DEF PublishFails, FinishItem
  <1>25. ASSUME NEW o \in Operators, Abort(o) PROVE Currents'
    BY <1>25 DEF Abort
  <1>26. CASE UNCHANGED vars
    BY <1>26 DEF vars
  <1> QED
    BY <1>1, <1>2, <1>3, <1>4, <1>5, <1>6, <1>7, <1>8, <1>9, <1>10, <1>11, <1>12,
       <1>13, <1>14, <1>15, <1>16, <1>17, <1>18, <1>19, <1>20, <1>21, <1>22, <1>23,
       <1>24, <1>25, <1>26
    DEF Next, WorkerNext, OperatorNext

(* Only scheduled and dead entries are listed.                             *)
LEMMA UnsharedStep ==
  ASSUME TypeOK, Current, Unshared, Currents, Batches, Apart, Stages, Lists,
         [Next]_vars
  PROVE  Unshared'
  <1> USE BrokerAssumption, EntryFields DEF redisVars, workerVars, operatorVars,
          historyVars, TypeOK, Current, Unshared, Currents, Batches, Apart, Stages,
          Free, Listed, Held
  <1>1. ASSUME NEW m \in Messages, Publish(m) PROVE Unshared'
    BY <1>1, FreshCopy DEF Publish, Add
  <1>2. ASSUME NEW w \in Workers, NEW e \in Entries, Claim(w, e) PROVE Unshared'
    BY <1>2 DEF Claim, Goto
  <1>3. ASSUME NEW w \in Workers, NEW e \in Entries, Read(w, e) PROVE Unshared'
    BY <1>3 DEF Read, Goto
  <1>4. ASSUME NEW w \in Workers, NEW e \in Entries, Handle(w, e) PROVE Unshared'
    BY <1>4 DEF Handle, Goto
  <1>5. ASSUME NEW w \in Workers, NEW e \in Entries, Leave(w, e) PROVE Unshared'
    BY <1>5 DEF Leave, Goto, NextMessage
  <1>6. ASSUME NEW w \in Workers, NEW e \in Entries, Reject(w, e) PROVE Unshared'
    BY <1>6 DEF Reject, Goto
  <1>7. ASSUME NEW w \in Workers, EndConsume(w) PROVE Unshared'
    BY <1>7 DEF EndConsume, Goto
  <1>8. ASSUME NEW w \in Workers, Ack(w) PROVE Unshared'
    BY <1>8 DEF Ack, Goto, NextMessage
  <1>9. ASSUME NEW w \in Workers, NackAcks(w) PROVE Unshared'
    BY <1>9 DEF NackAcks, Goto
  <1>10. ASSUME NEW w \in Workers, NackBuries(w) PROVE Unshared'
    BY <1>10, FreshCopy DEF NackBuries, Goto, NextMessage, Add
  <1>11. ASSUME NEW w \in Workers, NackStores(w) PROVE Unshared'
    BY <1>11, FreshCopy DEF NackStores, Goto, Add, Exhausted
  <1>12. ASSUME NEW w \in Workers, NackSchedules(w) PROVE Unshared'
    BY <1>12 DEF NackSchedules, Goto, NextMessage
  <1>13. ASSUME NEW w \in Workers, CommandFails(w) PROVE Unshared'
    BY <1>13 DEF CommandFails, Goto, NextMessage, CutOff
  <1>14. ASSUME NEW w \in Workers, Crash(w) PROVE Unshared'
    BY <1>14 DEF Crash, Goto, CutOff
  <1>15. ASSUME NEW o \in Operators, NEW e \in Entries, MoveReads(o, e) PROVE Unshared'
    BY <1>15 DEF MoveReads, FinishItem
  <1>16. ASSUME NEW o \in Operators, NEW e \in Entries, ReplayTakes(o, e) PROVE Unshared'
    BY <1>16 DEF ReplayTakes
  <1>17. ASSUME NEW o \in Operators, ListDue(o) PROVE Unshared'
    BY <1>17 DEF ListDue, StartJob
  <1>18. ASSUME NEW o \in Operators, ListDead(o) PROVE Unshared'
    BY <1>18 DEF ListDead, StartJob
  <1>19. ASSUME NEW o \in Operators, MovePublishes(o) PROVE Unshared'
    BY <1>19, FreshCopy DEF MovePublishes, Add
  <1>20. ASSUME NEW o \in Operators, MoveUnschedules(o) PROVE Unshared'
    BY <1>20 DEF MoveUnschedules
  <1>21. ASSUME NEW o \in Operators, MoveDeletes(o) PROVE Unshared'
    BY <1>21 DEF MoveDeletes, FinishItem
  <1>22. ASSUME NEW o \in Operators, ReplayPublishes(o) PROVE Unshared'
    BY <1>22, FreshCopy DEF ReplayPublishes, Add
  <1>23. ASSUME NEW o \in Operators, ReplayDeletes(o) PROVE Unshared'
    BY <1>23 DEF ReplayDeletes, FinishItem
  <1>24. ASSUME NEW o \in Operators, PublishFails(o) PROVE Unshared'
    BY <1>24 DEF PublishFails, FinishItem
  <1>25. ASSUME NEW o \in Operators, Abort(o) PROVE Unshared'
    BY <1>25 DEF Abort
  <1>26. CASE UNCHANGED vars
    BY <1>26 DEF vars
  <1> QED
    BY <1>1, <1>2, <1>3, <1>4, <1>5, <1>6, <1>7, <1>8, <1>9, <1>10, <1>11, <1>12,
       <1>13, <1>14, <1>15, <1>16, <1>17, <1>18, <1>19, <1>20, <1>21, <1>22, <1>23,
       <1>24, <1>25, <1>26
    DEF Next, WorkerNext, OperatorNext

(* A nack schedules no entry that an operator has listed.                  *)
LEMMA StagesStep ==
  ASSUME TypeOK, Current, Stages, Apart, Unshared, Currents, [Next]_vars
  PROVE  Stages'
  <1> USE BrokerAssumption, EntryFields DEF redisVars, workerVars, operatorVars,
          historyVars, TypeOK, Current, Stages, Unshared, Listed
  <1>1. ASSUME NEW m \in Messages, Publish(m) PROVE Stages'
    BY <1>1, FreshCopy DEF Publish, Add
  <1>2. ASSUME NEW w \in Workers, NEW e \in Entries, Claim(w, e) PROVE Stages'
    BY <1>2 DEF Claim, Goto
  <1>3. ASSUME NEW w \in Workers, NEW e \in Entries, Read(w, e) PROVE Stages'
    BY <1>3 DEF Read, Goto
  <1>4. ASSUME NEW w \in Workers, NEW e \in Entries, Handle(w, e) PROVE Stages'
    BY <1>4 DEF Handle, Goto
  <1>5. ASSUME NEW w \in Workers, NEW e \in Entries, Leave(w, e) PROVE Stages'
    BY <1>5 DEF Leave, Goto, NextMessage
  <1>6. ASSUME NEW w \in Workers, NEW e \in Entries, Reject(w, e) PROVE Stages'
    BY <1>6 DEF Reject, Goto
  <1>7. ASSUME NEW w \in Workers, EndConsume(w) PROVE Stages'
    BY <1>7 DEF EndConsume, Goto
  <1>8. ASSUME NEW w \in Workers, Ack(w) PROVE Stages'
    BY <1>8 DEF Ack, Goto, NextMessage
  <1>9. ASSUME NEW w \in Workers, NackAcks(w) PROVE Stages'
    BY <1>9 DEF NackAcks, Goto
  <1>10. ASSUME NEW w \in Workers, NackBuries(w) PROVE Stages'
    BY <1>10, FreshCopy DEF NackBuries, Goto, NextMessage, Add
  <1>11. ASSUME NEW w \in Workers, NackStores(w) PROVE Stages'
    BY <1>11, FreshCopy DEF NackStores, Goto, Add, Exhausted
  <1>12. ASSUME NEW w \in Workers, NackSchedules(w) PROVE Stages'
    BY <1>12 DEF NackSchedules, Goto, NextMessage
  <1>13. ASSUME NEW w \in Workers, CommandFails(w) PROVE Stages'
    BY <1>13 DEF CommandFails, Goto, NextMessage, CutOff
  <1>14. ASSUME NEW w \in Workers, Crash(w) PROVE Stages'
    BY <1>14 DEF Crash, Goto, CutOff
  <1>15. ASSUME NEW o \in Operators, NEW e \in Entries, MoveReads(o, e) PROVE Stages'
    BY <1>15 DEF MoveReads, FinishItem
  <1>16. ASSUME NEW o \in Operators, NEW e \in Entries, ReplayTakes(o, e) PROVE Stages'
    BY <1>16 DEF ReplayTakes
  <1>17. ASSUME NEW o \in Operators, ListDue(o) PROVE Stages'
    BY <1>17 DEF ListDue, StartJob
  <1>18. ASSUME NEW o \in Operators, ListDead(o) PROVE Stages'
    BY <1>18 DEF ListDead, StartJob
  <1>19. ASSUME NEW o \in Operators, MovePublishes(o) PROVE Stages'
    BY <1>19, FreshCopy DEF MovePublishes, Add
  <1>20. ASSUME NEW o \in Operators, MoveUnschedules(o) PROVE Stages'
    BY <1>20 DEF MoveUnschedules
  <1>21. ASSUME NEW o \in Operators, MoveDeletes(o) PROVE Stages'
    BY <1>21 DEF MoveDeletes, FinishItem
  <1>22. ASSUME NEW o \in Operators, ReplayPublishes(o) PROVE Stages'
    BY <1>22, FreshCopy DEF ReplayPublishes, Add
  <1>23. ASSUME NEW o \in Operators, ReplayDeletes(o) PROVE Stages'
    BY <1>23 DEF ReplayDeletes, FinishItem
  <1>24. ASSUME NEW o \in Operators, PublishFails(o) PROVE Stages'
    BY <1>24 DEF PublishFails, FinishItem
  <1>25. ASSUME NEW o \in Operators, Abort(o) PROVE Stages'
    BY <1>25 DEF Abort
  <1>26. CASE UNCHANGED vars
    BY <1>26 DEF vars
  <1> QED
    BY <1>1, <1>2, <1>3, <1>4, <1>5, <1>6, <1>7, <1>8, <1>9, <1>10, <1>11, <1>12,
       <1>13, <1>14, <1>15, <1>16, <1>17, <1>18, <1>19, <1>20, <1>21, <1>22, <1>23,
       <1>24, <1>25, <1>26
    DEF Next, WorkerNext, OperatorNext

(* What is listed is stored or dead, and copies are fresh.                 *)
LEMMA ListsStep ==
  ASSUME TypeOK, Current, Lists, Apart, Contents, Currents, Stages, [Next]_vars
  PROVE  Lists'
  <1> USE BrokerAssumption, EntryFields DEF redisVars, workerVars, operatorVars,
          historyVars, TypeOK, Current, Lists, Apart, Contents, Stages, Free, Listed
  <1>1. ASSUME NEW m \in Messages, Publish(m) PROVE Lists'
    BY <1>1, FreshCopy DEF Publish, Add
  <1>2. ASSUME NEW w \in Workers, NEW e \in Entries, Claim(w, e) PROVE Lists'
    BY <1>2 DEF Claim, Goto
  <1>3. ASSUME NEW w \in Workers, NEW e \in Entries, Read(w, e) PROVE Lists'
    BY <1>3 DEF Read, Goto
  <1>4. ASSUME NEW w \in Workers, NEW e \in Entries, Handle(w, e) PROVE Lists'
    BY <1>4 DEF Handle, Goto
  <1>5. ASSUME NEW w \in Workers, NEW e \in Entries, Leave(w, e) PROVE Lists'
    BY <1>5 DEF Leave, Goto, NextMessage
  <1>6. ASSUME NEW w \in Workers, NEW e \in Entries, Reject(w, e) PROVE Lists'
    BY <1>6 DEF Reject, Goto
  <1>7. ASSUME NEW w \in Workers, EndConsume(w) PROVE Lists'
    BY <1>7 DEF EndConsume, Goto
  <1>8. ASSUME NEW w \in Workers, Ack(w) PROVE Lists'
    BY <1>8 DEF Ack, Goto, NextMessage
  <1>9. ASSUME NEW w \in Workers, NackAcks(w) PROVE Lists'
    BY <1>9 DEF NackAcks, Goto
  <1>10. ASSUME NEW w \in Workers, NackBuries(w) PROVE Lists'
    BY <1>10, FreshCopy DEF NackBuries, Goto, NextMessage, Add
  <1>11. ASSUME NEW w \in Workers, NackStores(w) PROVE Lists'
    BY <1>11, FreshCopy DEF NackStores, Goto, Add, Exhausted
  <1>12. ASSUME NEW w \in Workers, NackSchedules(w) PROVE Lists'
    BY <1>12 DEF NackSchedules, Goto, NextMessage
  <1>13. ASSUME NEW w \in Workers, CommandFails(w) PROVE Lists'
    BY <1>13 DEF CommandFails, Goto, NextMessage, CutOff
  <1>14. ASSUME NEW w \in Workers, Crash(w) PROVE Lists'
    BY <1>14 DEF Crash, Goto, CutOff
  <1>15. ASSUME NEW o \in Operators, NEW e \in Entries, MoveReads(o, e) PROVE Lists'
    BY <1>15 DEF MoveReads, FinishItem
  <1>16. ASSUME NEW o \in Operators, NEW e \in Entries, ReplayTakes(o, e) PROVE Lists'
    BY <1>16 DEF ReplayTakes
  <1>17. ASSUME NEW o \in Operators, ListDue(o) PROVE Lists'
    BY <1>17 DEF ListDue, StartJob
  <1>18. ASSUME NEW o \in Operators, ListDead(o) PROVE Lists'
    BY <1>18 DEF ListDead, StartJob
  <1>19. ASSUME NEW o \in Operators, MovePublishes(o) PROVE Lists'
    BY <1>19, FreshCopy DEF MovePublishes, Add
  <1>20. ASSUME NEW o \in Operators, MoveUnschedules(o) PROVE Lists'
    BY <1>20 DEF MoveUnschedules
  <1>21. ASSUME NEW o \in Operators, MoveDeletes(o) PROVE Lists'
    BY <1>21 DEF MoveDeletes, FinishItem
  <1>22. ASSUME NEW o \in Operators, ReplayPublishes(o) PROVE Lists'
    BY <1>22, FreshCopy DEF ReplayPublishes, Add
  <1>23. ASSUME NEW o \in Operators, ReplayDeletes(o) PROVE Lists'
    BY <1>23 DEF ReplayDeletes, FinishItem
  <1>24. ASSUME NEW o \in Operators, PublishFails(o) PROVE Lists'
    BY <1>24 DEF PublishFails, FinishItem
  <1>25. ASSUME NEW o \in Operators, Abort(o) PROVE Lists'
    BY <1>25 DEF Abort
  <1>26. CASE UNCHANGED vars
    BY <1>26 DEF vars
  <1> QED
    BY <1>1, <1>2, <1>3, <1>4, <1>5, <1>6, <1>7, <1>8, <1>9, <1>10, <1>11, <1>12,
       <1>13, <1>14, <1>15, <1>16, <1>17, <1>18, <1>19, <1>20, <1>21, <1>22, <1>23,
       <1>24, <1>25, <1>26
    DEF Next, WorkerNext, OperatorNext

(* The entries of published messages are the only ones.                    *)
LEMMA HistoryStep ==
  ASSUME TypeOK, Current, History, Contents, Batches, Currents, Lists, [Next]_vars
  PROVE  History'
  <1> USE BrokerAssumption, EntryFields DEF redisVars, workerVars, operatorVars,
          historyVars, TypeOK, Current, History, Contents, Batches, Currents, Lists,
          Listed
  <1>1. ASSUME NEW m \in Messages, Publish(m) PROVE History'
    BY <1>1, FreshCopy DEF Publish, Add
  <1>2. ASSUME NEW w \in Workers, NEW e \in Entries, Claim(w, e) PROVE History'
    BY <1>2 DEF Claim, Goto
  <1>3. ASSUME NEW w \in Workers, NEW e \in Entries, Read(w, e) PROVE History'
    BY <1>3 DEF Read, Goto
  <1>4. ASSUME NEW w \in Workers, NEW e \in Entries, Handle(w, e) PROVE History'
    BY <1>4 DEF Handle, Goto
  <1>5. ASSUME NEW w \in Workers, NEW e \in Entries, Leave(w, e) PROVE History'
    BY <1>5 DEF Leave, Goto, NextMessage
  <1>6. ASSUME NEW w \in Workers, NEW e \in Entries, Reject(w, e) PROVE History'
    BY <1>6 DEF Reject, Goto
  <1>7. ASSUME NEW w \in Workers, EndConsume(w) PROVE History'
    BY <1>7 DEF EndConsume, Goto
  <1>8. ASSUME NEW w \in Workers, Ack(w) PROVE History'
    BY <1>8 DEF Ack, Goto, NextMessage
  <1>9. ASSUME NEW w \in Workers, NackAcks(w) PROVE History'
    BY <1>9 DEF NackAcks, Goto
  <1>10. ASSUME NEW w \in Workers, NackBuries(w) PROVE History'
    BY <1>10, FreshCopy DEF NackBuries, Goto, NextMessage, Add
  <1>11. ASSUME NEW w \in Workers, NackStores(w) PROVE History'
    BY <1>11, FreshCopy DEF NackStores, Goto, Add, Exhausted
  <1>12. ASSUME NEW w \in Workers, NackSchedules(w) PROVE History'
    BY <1>12 DEF NackSchedules, Goto, NextMessage
  <1>13. ASSUME NEW w \in Workers, CommandFails(w) PROVE History'
    BY <1>13 DEF CommandFails, Goto, NextMessage, CutOff
  <1>14. ASSUME NEW w \in Workers, Crash(w) PROVE History'
    BY <1>14 DEF Crash, Goto, CutOff
  <1>15. ASSUME NEW o \in Operators, NEW e \in Entries, MoveReads(o, e) PROVE History'
    BY <1>15 DEF MoveReads, FinishItem
  <1>16. ASSUME NEW o \in Operators, NEW e \in Entries, ReplayTakes(o, e) PROVE History'
    BY <1>16 DEF ReplayTakes
  <1>17. ASSUME NEW o \in Operators, ListDue(o) PROVE History'
    BY <1>17 DEF ListDue, StartJob
  <1>18. ASSUME NEW o \in Operators, ListDead(o) PROVE History'
    BY <1>18 DEF ListDead, StartJob
  <1>19. ASSUME NEW o \in Operators, MovePublishes(o) PROVE History'
    BY <1>19, FreshCopy DEF MovePublishes, Add
  <1>20. ASSUME NEW o \in Operators, MoveUnschedules(o) PROVE History'
    BY <1>20 DEF MoveUnschedules
  <1>21. ASSUME NEW o \in Operators, MoveDeletes(o) PROVE History'
    BY <1>21 DEF MoveDeletes, FinishItem
  <1>22. ASSUME NEW o \in Operators, ReplayPublishes(o) PROVE History'
    BY <1>22, FreshCopy DEF ReplayPublishes, Add
  <1>23. ASSUME NEW o \in Operators, ReplayDeletes(o) PROVE History'
    BY <1>23 DEF ReplayDeletes, FinishItem
  <1>24. ASSUME NEW o \in Operators, PublishFails(o) PROVE History'
    BY <1>24 DEF PublishFails, FinishItem
  <1>25. ASSUME NEW o \in Operators, Abort(o) PROVE History'
    BY <1>25 DEF Abort
  <1>26. CASE UNCHANGED vars
    BY <1>26 DEF vars
  <1> QED
    BY <1>1, <1>2, <1>3, <1>4, <1>5, <1>6, <1>7, <1>8, <1>9, <1>10, <1>11, <1>12,
       <1>13, <1>14, <1>15, <1>16, <1>17, <1>18, <1>19, <1>20, <1>21, <1>22, <1>23,
       <1>24, <1>25, <1>26
    DEF Next, WorkerNext, OperatorNext

(* The live entry stays live, or its copy is.                              *)
LEMMA NowhereStep ==
  ASSUME TypeOK, Current, Apart, Contents, Batches, Currents, Unshared, Stages,
         Lists, Nowhere, [Next]_vars
  PROVE  Nowhere'
  <1> USE BrokerAssumption, EntryFields DEF redisVars, workerVars, operatorVars,
          historyVars, TypeOK, Current, Apart, Contents, Batches, Currents,
          Unshared, Stages, Lists, Nowhere, Free, Held, Listed, Live, MovedOut,
          Replayed, Nacking
  <1>1. ASSUME NEW m \in Messages, Publish(m) PROVE Nowhere'
    BY <1>1, FreshCopy DEF Publish, Add
  <1>2. ASSUME NEW w \in Workers, NEW e \in Entries, Claim(w, e) PROVE Nowhere'
    BY <1>2 DEF Claim, Goto
  <1>3. ASSUME NEW w \in Workers, NEW e \in Entries, Read(w, e) PROVE Nowhere'
    BY <1>3 DEF Read, Goto
  <1>4. ASSUME NEW w \in Workers, NEW e \in Entries, Handle(w, e) PROVE Nowhere'
    BY <1>4 DEF Handle, Goto
  <1>5. ASSUME NEW w \in Workers, NEW e \in Entries, Leave(w, e) PROVE Nowhere'
    BY <1>5 DEF Leave, Goto, NextMessage
  <1>6. ASSUME NEW w \in Workers, NEW e \in Entries, Reject(w, e) PROVE Nowhere'
    BY <1>6 DEF Reject, Goto
  <1>7. ASSUME NEW w \in Workers, EndConsume(w) PROVE Nowhere'
    BY <1>7 DEF EndConsume, Goto
  <1>8. ASSUME NEW w \in Workers, Ack(w) PROVE Nowhere'
    BY <1>8 DEF Ack, Goto, NextMessage
  <1>9. ASSUME NEW w \in Workers, NackAcks(w) PROVE Nowhere'
    BY <1>9 DEF NackAcks, Goto
  <1>10. ASSUME NEW w \in Workers, NackBuries(w) PROVE Nowhere'
    BY <1>10, FreshCopy DEF NackBuries, Goto, NextMessage, Add
  <1>11. ASSUME NEW w \in Workers, NackStores(w) PROVE Nowhere'
    BY <1>11, FreshCopy DEF NackStores, Goto, Add, Exhausted
  <1>12. ASSUME NEW w \in Workers, NackSchedules(w) PROVE Nowhere'
    BY <1>12 DEF NackSchedules, Goto, NextMessage
  <1>13. ASSUME NEW w \in Workers, CommandFails(w) PROVE Nowhere'
    BY <1>13 DEF CommandFails, Goto, NextMessage, CutOff
  <1>14. ASSUME NEW w \in Workers, Crash(w) PROVE Nowhere'
    BY <1>14 DEF Crash, Goto, CutOff
  <1>15. ASSUME NEW o \in Operators, NEW e \in Entries, MoveReads(o, e) PROVE Nowhere'
    BY <1>15 DEF MoveReads, FinishItem
  <1>16. ASSUME NEW o \in Operators, NEW e \in Entries, ReplayTakes(o, e) PROVE Nowhere'
    BY <1>16 DEF ReplayTakes
  <1>17. ASSUME NEW o \in Operators, ListDue(o) PROVE Nowhere'
    BY <1>17 DEF ListDue, StartJob
  <1>18. ASSUME NEW o \in Operators, ListDead(o) PROVE Nowhere'
    BY <1>18 DEF ListDead, StartJob
  <1>19. ASSUME NEW o \in Operators, MovePublishes(o) PROVE Nowhere'
    BY <1>19, FreshCopy DEF MovePublishes, Add
  <1>20. ASSUME NEW o \in Operators, MoveUnschedules(o) PROVE Nowhere'
    BY <1>20 DEF MoveUnschedules
  <1>21. ASSUME NEW o \in Operators, MoveDeletes(o) PROVE Nowhere'
    BY <1>21 DEF MoveDeletes, FinishItem
  <1>22. ASSUME NEW o \in Operators, ReplayPublishes(o) PROVE Nowhere'
    BY <1>22, FreshCopy DEF ReplayPublishes, Add
  <1>23. ASSUME NEW o \in Operators, ReplayDeletes(o) PROVE Nowhere'
    BY <1>23 DEF ReplayDeletes, FinishItem
  <1>24. ASSUME NEW o \in Operators, PublishFails(o) PROVE Nowhere'
    BY <1>24 DEF PublishFails, FinishItem
  <1>25. ASSUME NEW o \in Operators, Abort(o) PROVE Nowhere'
    BY <1>25 DEF Abort
  <1>26. CASE UNCHANGED vars
    BY <1>26 DEF vars
  <1> QED
    BY <1>1, <1>2, <1>3, <1>4, <1>5, <1>6, <1>7, <1>8, <1>9, <1>10, <1>11, <1>12,
       <1>13, <1>14, <1>15, <1>16, <1>17, <1>18, <1>19, <1>20, <1>21, <1>22, <1>23,
       <1>24, <1>25, <1>26
    DEF Next, WorkerNext, OperatorNext

(* A claim of a held entry disturbs; an unread entry is held by nobody.    *)
LEMMA HoldingStep ==
  ASSUME TypeOK, Current, Apart, Contents, Batches, Currents, Unshared, Stages,
         Lists, Holding, Single, [Next]_vars
  PROVE  Holding'
  <1> USE BrokerAssumption, EntryFields DEF redisVars, workerVars, operatorVars,
          historyVars, TypeOK, Current, Apart, Contents, Batches, Currents,
          Unshared, Stages, Lists, Holding, Single, Free, Held, Listed, Live,
          MovedOut, Replayed, Nacking
  <1>1. ASSUME NEW m \in Messages, Publish(m) PROVE Holding'
    BY <1>1, FreshCopy DEF Publish, Add
  <1>2. ASSUME NEW w \in Workers, NEW e \in Entries, Claim(w, e) PROVE Holding'
    BY <1>2 DEF Claim, Goto, HeldElsewhere
  <1>3. ASSUME NEW w \in Workers, NEW e \in Entries, Read(w, e) PROVE Holding'
    BY <1>3 DEF Read, Goto
  <1>4. ASSUME NEW w \in Workers, NEW e \in Entries, Handle(w, e) PROVE Holding'
    BY <1>4 DEF Handle, Goto
  <1>5. ASSUME NEW w \in Workers, NEW e \in Entries, Leave(w, e) PROVE Holding'
    BY <1>5 DEF Leave, Goto, NextMessage
  <1>6. ASSUME NEW w \in Workers, NEW e \in Entries, Reject(w, e) PROVE Holding'
    BY <1>6 DEF Reject, Goto
  <1>7. ASSUME NEW w \in Workers, EndConsume(w) PROVE Holding'
    BY <1>7 DEF EndConsume, Goto
  <1>8. ASSUME NEW w \in Workers, Ack(w) PROVE Holding'
    BY <1>8 DEF Ack, Goto, NextMessage
  <1>9. ASSUME NEW w \in Workers, NackAcks(w) PROVE Holding'
    BY <1>9 DEF NackAcks, Goto
  <1>10. ASSUME NEW w \in Workers, NackBuries(w) PROVE Holding'
    BY <1>10, FreshCopy DEF NackBuries, Goto, NextMessage, Add
  <1>11. ASSUME NEW w \in Workers, NackStores(w) PROVE Holding'
    BY <1>11, FreshCopy DEF NackStores, Goto, Add, Exhausted
  <1>12. ASSUME NEW w \in Workers, NackSchedules(w) PROVE Holding'
    BY <1>12 DEF NackSchedules, Goto, NextMessage
  <1>13. ASSUME NEW w \in Workers, CommandFails(w) PROVE Holding'
    BY <1>13 DEF CommandFails, Goto, NextMessage, CutOff
  <1>14. ASSUME NEW w \in Workers, Crash(w) PROVE Holding'
    BY <1>14 DEF Crash, Goto, CutOff
  <1>15. ASSUME NEW o \in Operators, NEW e \in Entries, MoveReads(o, e) PROVE Holding'
    BY <1>15 DEF MoveReads, FinishItem
  <1>16. ASSUME NEW o \in Operators, NEW e \in Entries, ReplayTakes(o, e) PROVE Holding'
    BY <1>16 DEF ReplayTakes
  <1>17. ASSUME NEW o \in Operators, ListDue(o) PROVE Holding'
    BY <1>17 DEF ListDue, StartJob
  <1>18. ASSUME NEW o \in Operators, ListDead(o) PROVE Holding'
    BY <1>18 DEF ListDead, StartJob
  <1>19. ASSUME NEW o \in Operators, MovePublishes(o) PROVE Holding'
    BY <1>19, FreshCopy DEF MovePublishes, Add
  <1>20. ASSUME NEW o \in Operators, MoveUnschedules(o) PROVE Holding'
    BY <1>20 DEF MoveUnschedules
  <1>21. ASSUME NEW o \in Operators, MoveDeletes(o) PROVE Holding'
    BY <1>21 DEF MoveDeletes, FinishItem
  <1>22. ASSUME NEW o \in Operators, ReplayPublishes(o) PROVE Holding'
    BY <1>22, FreshCopy DEF ReplayPublishes, Add
  <1>23. ASSUME NEW o \in Operators, ReplayDeletes(o) PROVE Holding'
    BY <1>23 DEF ReplayDeletes, FinishItem
  <1>24. ASSUME NEW o \in Operators, PublishFails(o) PROVE Holding'
    BY <1>24 DEF PublishFails, FinishItem
  <1>25. ASSUME NEW o \in Operators, Abort(o) PROVE Holding'
    BY <1>25 DEF Abort
  <1>26. CASE UNCHANGED vars
    BY <1>26 DEF vars
  <1> QED
    BY <1>1, <1>2, <1>3, <1>4, <1>5, <1>6, <1>7, <1>8, <1>9, <1>10, <1>11, <1>12,
       <1>13, <1>14, <1>15, <1>16, <1>17, <1>18, <1>19, <1>20, <1>21, <1>22, <1>23,
       <1>24, <1>25, <1>26
    DEF Next, WorkerNext, OperatorNext

(* Listing an entry twice disturbs.                                        *)
LEMMA ListingStep ==
  ASSUME TypeOK, Current, Apart, Contents, Batches, Currents, Unshared, Stages,
         Lists, Listing, Single, [Next]_vars
  PROVE  Listing'
  <1> USE BrokerAssumption, EntryFields DEF redisVars, workerVars, operatorVars,
          historyVars, TypeOK, Current, Apart, Contents, Batches, Currents,
          Unshared, Stages, Lists, Listing, Single, Free, Held, Listed, Live,
          MovedOut, Replayed, Nacking
  <1>1. ASSUME NEW m \in Messages, Publish(m) PROVE Listing'
    BY <1>1, FreshCopy DEF Publish, Add
  <1>2. ASSUME NEW w \in Workers, NEW e \in Entries, Claim(w, e) PROVE Listing'
    BY <1>2 DEF Claim, Goto
  <1>3. ASSUME NEW w \in Workers, NEW e \in Entries, Read(w, e) PROVE Listing'
    BY <1>3 DEF Read, Goto
  <1>4. ASSUME NEW w \in Workers, NEW e \in Entries, Handle(w, e) PROVE Listing'
    BY <1>4 DEF Handle, Goto
  <1>5. ASSUME NEW w \in Workers, NEW e \in Entries, Leave(w, e) PROVE Listing'
    BY <1>5 DEF Leave, Goto, NextMessage
  <1>6. ASSUME NEW w \in Workers, NEW e \in Entries, Reject(w, e) PROVE Listing'
    BY <1>6 DEF Reject, Goto
  <1>7. ASSUME NEW w \in Workers, EndConsume(w) PROVE Listing'
    BY <1>7 DEF EndConsume, Goto
  <1>8. ASSUME NEW w \in Workers, Ack(w) PROVE Listing'
    BY <1>8 DEF Ack, Goto, NextMessage
  <1>9. ASSUME NEW w \in Workers, NackAcks(w) PROVE Listing'
    BY <1>9 DEF NackAcks, Goto
  <1>10. ASSUME NEW w \in Workers, NackBuries(w) PROVE Listing'
    BY <1>10, FreshCopy DEF NackBuries, Goto, NextMessage, Add
  <1>11. ASSUME NEW w \in Workers, NackStores(w) PROVE Listing'
    BY <1>11, FreshCopy DEF NackStores, Goto, Add, Exhausted
  <1>12. ASSUME NEW w \in Workers, NackSchedules(w) PROVE Listing'
    BY <1>12 DEF NackSchedules, Goto, NextMessage
  <1>13. ASSUME NEW w \in Workers, CommandFails(w) PROVE Listing'
    BY <1>13 DEF CommandFails, Goto, NextMessage, CutOff
  <1>14. ASSUME NEW w \in Workers, Crash(w) PROVE Listing'
    BY <1>14 DEF Crash, Goto, CutOff
  <1>15. ASSUME NEW o \in Operators, NEW e \in Entries, MoveReads(o, e) PROVE Listing'
    BY <1>15 DEF MoveReads, FinishItem
  <1>16. ASSUME NEW o \in Operators, NEW e \in Entries, ReplayTakes(o, e) PROVE Listing'
    BY <1>16 DEF ReplayTakes
  <1>17. ASSUME NEW o \in Operators, ListDue(o) PROVE Listing'
    BY <1>17 DEF ListDue, StartJob
  <1>18. ASSUME NEW o \in Operators, ListDead(o) PROVE Listing'
    BY <1>18 DEF ListDead, StartJob
  <1>19. ASSUME NEW o \in Operators, MovePublishes(o) PROVE Listing'
    BY <1>19, FreshCopy DEF MovePublishes, Add
  <1>20. ASSUME NEW o \in Operators, MoveUnschedules(o) PROVE Listing'
    BY <1>20 DEF MoveUnschedules
  <1>21. ASSUME NEW o \in Operators, MoveDeletes(o) PROVE Listing'
    BY <1>21 DEF MoveDeletes, FinishItem
  <1>22. ASSUME NEW o \in Operators, ReplayPublishes(o) PROVE Listing'
    BY <1>22, FreshCopy DEF ReplayPublishes, Add
  <1>23. ASSUME NEW o \in Operators, ReplayDeletes(o) PROVE Listing'
    BY <1>23 DEF ReplayDeletes, FinishItem
  <1>24. ASSUME NEW o \in Operators, PublishFails(o) PROVE Listing'
    BY <1>24 DEF PublishFails, FinishItem
  <1>25. ASSUME NEW o \in Operators, Abort(o) PROVE Listing'
    BY <1>25 DEF Abort
  <1>26. CASE UNCHANGED vars
    BY <1>26 DEF vars
  <1> QED
    BY <1>1, <1>2, <1>3, <1>4, <1>5, <1>6, <1>7, <1>8, <1>9, <1>10, <1>11, <1>12,
       <1>13, <1>14, <1>15, <1>16, <1>17, <1>18, <1>19, <1>20, <1>21, <1>22, <1>23,
       <1>24, <1>25, <1>26
    DEF Next, WorkerNext, OperatorNext

(* An entry stops being live when its copy appears.                        *)
LEMMA SingleStep ==
  ASSUME TypeOK, Current, Apart, Contents, Batches, Currents, Unshared, Stages,
         Lists, Single, Holding, Listing, [Next]_vars
  PROVE  Single'
  <1> USE BrokerAssumption, EntryFields DEF redisVars, workerVars, operatorVars,
          historyVars, TypeOK, Current, Apart, Contents, Batches, Currents,
          Unshared, Stages, Lists, Single, Holding, Listing, Free, Held, Listed,
          Live, MovedOut, Replayed, Nacking
  <1>1. ASSUME NEW m \in Messages, Publish(m) PROVE Single'
    BY <1>1, FreshCopy DEF Publish, Add
  <1>2. ASSUME NEW w \in Workers, NEW e \in Entries, Claim(w, e) PROVE Single'
    BY <1>2 DEF Claim, Goto
  <1>3. ASSUME NEW w \in Workers, NEW e \in Entries, Read(w, e) PROVE Single'
    BY <1>3 DEF Read, Goto
  <1>4. ASSUME NEW w \in Workers, NEW e \in Entries, Handle(w, e) PROVE Single'
    BY <1>4 DEF Handle, Goto
  <1>5. ASSUME NEW w \in Workers, NEW e \in Entries, Leave(w, e) PROVE Single'
    BY <1>5 DEF Leave, Goto, NextMessage
  <1>6. ASSUME NEW w \in Workers, NEW e \in Entries, Reject(w, e) PROVE Single'
    BY <1>6 DEF Reject, Goto
  <1>7. ASSUME NEW w \in Workers, EndConsume(w) PROVE Single'
    BY <1>7 DEF EndConsume, Goto
  <1>8. ASSUME NEW w \in Workers, Ack(w) PROVE Single'
    BY <1>8 DEF Ack, Goto, NextMessage
  <1>9. ASSUME NEW w \in Workers, NackAcks(w) PROVE Single'
    BY <1>9 DEF NackAcks, Goto
  <1>10. ASSUME NEW w \in Workers, NackBuries(w) PROVE Single'
    BY <1>10, FreshCopy DEF NackBuries, Goto, NextMessage, Add
  <1>11. ASSUME NEW w \in Workers, NackStores(w) PROVE Single'
    BY <1>11, FreshCopy DEF NackStores, Goto, Add, Exhausted
  <1>12. ASSUME NEW w \in Workers, NackSchedules(w) PROVE Single'
    BY <1>12 DEF NackSchedules, Goto, NextMessage
  <1>13. ASSUME NEW w \in Workers, CommandFails(w) PROVE Single'
    BY <1>13 DEF CommandFails, Goto, NextMessage, CutOff
  <1>14. ASSUME NEW w \in Workers, Crash(w) PROVE Single'
    BY <1>14 DEF Crash, Goto, CutOff
  <1>15. ASSUME NEW o \in Operators, NEW e \in Entries, MoveReads(o, e) PROVE Single'
    BY <1>15 DEF MoveReads, FinishItem
  <1>16. ASSUME NEW o \in Operators, NEW e \in Entries, ReplayTakes(o, e) PROVE Single'
    BY <1>16 DEF ReplayTakes
  <1>17. ASSUME NEW o \in Operators, ListDue(o) PROVE Single'
    BY <1>17 DEF ListDue, StartJob
  <1>18. ASSUME NEW o \in Operators, ListDead(o) PROVE Single'
    BY <1>18 DEF ListDead, StartJob
  <1>19. ASSUME NEW o \in Operators, MovePublishes(o) PROVE Single'
    BY <1>19, FreshCopy DEF MovePublishes, Add
  <1>20. ASSUME NEW o \in Operators, MoveUnschedules(o) PROVE Single'
    BY <1>20 DEF MoveUnschedules
  <1>21. ASSUME NEW o \in Operators, MoveDeletes(o) PROVE Single'
    BY <1>21 DEF MoveDeletes, FinishItem
  <1>22. ASSUME NEW o \in Operators, ReplayPublishes(o) PROVE Single'
    BY <1>22, FreshCopy DEF ReplayPublishes, Add
  <1>23. ASSUME NEW o \in Operators, ReplayDeletes(o) PROVE Single'
    BY <1>23 DEF ReplayDeletes, FinishItem
  <1>24. ASSUME NEW o \in Operators, PublishFails(o) PROVE Single'
    BY <1>24 DEF PublishFails, FinishItem
  <1>25. ASSUME NEW o \in Operators, Abort(o) PROVE Single'
    BY <1>25 DEF Abort
  <1>26. CASE UNCHANGED vars
    BY <1>26 DEF vars
  <1> QED
    BY <1>1, <1>2, <1>3, <1>4, <1>5, <1>6, <1>7, <1>8, <1>9, <1>10, <1>11, <1>12,
       <1>13, <1>14, <1>15, <1>16, <1>17, <1>18, <1>19, <1>20, <1>21, <1>22, <1>23,
       <1>24, <1>25, <1>26
    DEF Next, WorkerNext, OperatorNext

(* The entry of a processed message is acknowledged next, or the message   *)
(* is disturbed.                                                           *)
LEMMA DoneStep ==
  ASSUME TypeOK, Current, Apart, Contents, Batches, Currents, Unshared, Stages,
         Lists, Single, Holding, Listing, Done, History, [Next]_vars
  PROVE  Done'
  <1> USE BrokerAssumption, EntryFields DEF redisVars, workerVars, operatorVars,
          historyVars, TypeOK, Current, Apart, Contents, Batches, Currents,
          Unshared, Stages, Lists, Single, Holding, Listing, Done, History, Free,
          Held, Listed, Live, MovedOut, Replayed, Nacking
  <1>1. ASSUME NEW m \in Messages, Publish(m) PROVE Done'
    BY <1>1, FreshCopy DEF Publish, Add
  <1>2. ASSUME NEW w \in Workers, NEW e \in Entries, Claim(w, e) PROVE Done'
    BY <1>2 DEF Claim, Goto
  <1>3. ASSUME NEW w \in Workers, NEW e \in Entries, Read(w, e) PROVE Done'
    BY <1>3 DEF Read, Goto
  <1>4. ASSUME NEW w \in Workers, NEW e \in Entries, Handle(w, e) PROVE Done'
    BY <1>4 DEF Handle, Goto
  <1>5. ASSUME NEW w \in Workers, NEW e \in Entries, Leave(w, e) PROVE Done'
    BY <1>5 DEF Leave, Goto, NextMessage
  <1>6. ASSUME NEW w \in Workers, NEW e \in Entries, Reject(w, e) PROVE Done'
    BY <1>6 DEF Reject, Goto
  <1>7. ASSUME NEW w \in Workers, EndConsume(w) PROVE Done'
    BY <1>7 DEF EndConsume, Goto
  <1>8. ASSUME NEW w \in Workers, Ack(w) PROVE Done'
    BY <1>8 DEF Ack, Goto, NextMessage
  <1>9. ASSUME NEW w \in Workers, NackAcks(w) PROVE Done'
    BY <1>9 DEF NackAcks, Goto
  <1>10. ASSUME NEW w \in Workers, NackBuries(w) PROVE Done'
    BY <1>10, FreshCopy DEF NackBuries, Goto, NextMessage, Add
  <1>11. ASSUME NEW w \in Workers, NackStores(w) PROVE Done'
    BY <1>11, FreshCopy DEF NackStores, Goto, Add, Exhausted
  <1>12. ASSUME NEW w \in Workers, NackSchedules(w) PROVE Done'
    BY <1>12 DEF NackSchedules, Goto, NextMessage
  <1>13. ASSUME NEW w \in Workers, CommandFails(w) PROVE Done'
    BY <1>13 DEF CommandFails, Goto, NextMessage, CutOff
  <1>14. ASSUME NEW w \in Workers, Crash(w) PROVE Done'
    BY <1>14 DEF Crash, Goto, CutOff
  <1>15. ASSUME NEW o \in Operators, NEW e \in Entries, MoveReads(o, e) PROVE Done'
    BY <1>15 DEF MoveReads, FinishItem
  <1>16. ASSUME NEW o \in Operators, NEW e \in Entries, ReplayTakes(o, e) PROVE Done'
    BY <1>16 DEF ReplayTakes
  <1>17. ASSUME NEW o \in Operators, ListDue(o) PROVE Done'
    BY <1>17 DEF ListDue, StartJob
  <1>18. ASSUME NEW o \in Operators, ListDead(o) PROVE Done'
    BY <1>18 DEF ListDead, StartJob
  <1>19. ASSUME NEW o \in Operators, MovePublishes(o) PROVE Done'
    BY <1>19, FreshCopy DEF MovePublishes, Add
  <1>20. ASSUME NEW o \in Operators, MoveUnschedules(o) PROVE Done'
    BY <1>20 DEF MoveUnschedules
  <1>21. ASSUME NEW o \in Operators, MoveDeletes(o) PROVE Done'
    BY <1>21 DEF MoveDeletes, FinishItem
  <1>22. ASSUME NEW o \in Operators, ReplayPublishes(o) PROVE Done'
    BY <1>22, FreshCopy DEF ReplayPublishes, Add
  <1>23. ASSUME NEW o \in Operators, ReplayDeletes(o) PROVE Done'
    BY <1>23 DEF ReplayDeletes, FinishItem
  <1>24. ASSUME NEW o \in Operators, PublishFails(o) PROVE Done'
    BY <1>24 DEF PublishFails, FinishItem
  <1>25. ASSUME NEW o \in Operators, Abort(o) PROVE Done'
    BY <1>25 DEF Abort
  <1>26. CASE UNCHANGED vars
    BY <1>26 DEF vars
  <1> QED
    BY <1>1, <1>2, <1>3, <1>4, <1>5, <1>6, <1>7, <1>8, <1>9, <1>10, <1>11, <1>12,
       <1>13, <1>14, <1>15, <1>16, <1>17, <1>18, <1>19, <1>20, <1>21, <1>22, <1>23,
       <1>24, <1>25, <1>26
    DEF Next, WorkerNext, OperatorNext

(* Each copy adds one to the retries, or starts again at a replay.         *)
LEMMA CountedStep ==
  ASSUME TypeOK, Current, Apart, Contents, Batches, Currents, Unshared, Stages,
         Lists, Single, Holding, Listing, Counted, History, [Next]_vars
  PROVE  Counted'
  <1> USE BrokerAssumption, EntryFields DEF redisVars, workerVars, operatorVars,
          historyVars, TypeOK, Current, Apart, Contents, Batches, Currents,
          Unshared, Stages, Lists, Single, Holding, Listing, Counted, History,
          Exhausted, Acked, Free, Held, Listed, Live, MovedOut, Replayed, Nacking
  <1>1. ASSUME NEW m \in Messages, Publish(m) PROVE Counted'
    BY <1>1, FreshCopy DEF Publish, Add
  <1>2. ASSUME NEW w \in Workers, NEW e \in Entries, Claim(w, e) PROVE Counted'
    BY <1>2 DEF Claim, Goto
  <1>3. ASSUME NEW w \in Workers, NEW e \in Entries, Read(w, e) PROVE Counted'
    BY <1>3 DEF Read, Goto
  <1>4. ASSUME NEW w \in Workers, NEW e \in Entries, Handle(w, e) PROVE Counted'
    BY <1>4 DEF Handle, Goto
  <1>5. ASSUME NEW w \in Workers, NEW e \in Entries, Leave(w, e) PROVE Counted'
    BY <1>5 DEF Leave, Goto, NextMessage
  <1>6. ASSUME NEW w \in Workers, NEW e \in Entries, Reject(w, e) PROVE Counted'
    BY <1>6 DEF Reject, Goto
  <1>7. ASSUME NEW w \in Workers, EndConsume(w) PROVE Counted'
    BY <1>7 DEF EndConsume, Goto
  <1>8. ASSUME NEW w \in Workers, Ack(w) PROVE Counted'
    BY <1>8 DEF Ack, Goto, NextMessage
  <1>9. ASSUME NEW w \in Workers, NackAcks(w) PROVE Counted'
    BY <1>9 DEF NackAcks, Goto
  <1>10. ASSUME NEW w \in Workers, NackBuries(w) PROVE Counted'
    BY <1>10, FreshCopy DEF NackBuries, Goto, NextMessage, Add
  <1>11. ASSUME NEW w \in Workers, NackStores(w) PROVE Counted'
    BY <1>11, FreshCopy DEF NackStores, Goto, Add, Exhausted
  <1>12. ASSUME NEW w \in Workers, NackSchedules(w) PROVE Counted'
    BY <1>12 DEF NackSchedules, Goto, NextMessage
  <1>13. ASSUME NEW w \in Workers, CommandFails(w) PROVE Counted'
    BY <1>13 DEF CommandFails, Goto, NextMessage, CutOff
  <1>14. ASSUME NEW w \in Workers, Crash(w) PROVE Counted'
    BY <1>14 DEF Crash, Goto, CutOff
  <1>15. ASSUME NEW o \in Operators, NEW e \in Entries, MoveReads(o, e) PROVE Counted'
    BY <1>15 DEF MoveReads, FinishItem
  <1>16. ASSUME NEW o \in Operators, NEW e \in Entries, ReplayTakes(o, e) PROVE Counted'
    BY <1>16 DEF ReplayTakes
  <1>17. ASSUME NEW o \in Operators, ListDue(o) PROVE Counted'
    BY <1>17 DEF ListDue, StartJob
  <1>18. ASSUME NEW o \in Operators, ListDead(o) PROVE Counted'
    BY <1>18 DEF ListDead, StartJob
  <1>19. ASSUME NEW o \in Operators, MovePublishes(o) PROVE Counted'
    BY <1>19, FreshCopy DEF MovePublishes, Add
  <1>20. ASSUME NEW o \in Operators, MoveUnschedules(o) PROVE Counted'
    BY <1>20 DEF MoveUnschedules
  <1>21. ASSUME NEW o \in Operators, MoveDeletes(o) PROVE Counted'
    BY <1>21 DEF MoveDeletes, FinishItem
  <1>22. ASSUME NEW o \in Operators, ReplayPublishes(o) PROVE Counted'
    BY <1>22, FreshCopy DEF ReplayPublishes, Add
  <1>23. ASSUME NEW o \in Operators, ReplayDeletes(o) PROVE Counted'
    BY <1>23 DEF ReplayDeletes, FinishItem
  <1>24. ASSUME NEW o \in Operators, PublishFails(o) PROVE Counted'
    BY <1>24 DEF PublishFails, FinishItem
  <1>25. ASSUME NEW o \in Operators, Abort(o) PROVE Counted'
    BY <1>25 DEF Abort
  <1>26. CASE UNCHANGED vars
    BY <1>26 DEF vars
  <1> QED
    BY <1>1, <1>2, <1>3, <1>4, <1>5, <1>6, <1>7, <1>8, <1>9, <1>10, <1>11, <1>12,
       <1>13, <1>14, <1>15, <1>16, <1>17, <1>18, <1>19, <1>20, <1>21, <1>22, <1>23,
       <1>24, <1>25, <1>26
    DEF Next, WorkerNext, OperatorNext

(* Processing a processed message again takes a second holder of its       *)
(* entry.                                                                  *)
LEMMA OnceStep ==
  ASSUME TypeOK, Current, Apart, Contents, Batches, Currents, Unshared, Stages,
         Lists, Holding, Done, OnceUndisturbed, [Next]_vars
  PROVE  OnceUndisturbed'
  <1> USE BrokerAssumption, EntryFields DEF redisVars, workerVars, operatorVars,
          historyVars, TypeOK, Current, Apart, Contents, Batches, Currents,
          Unshared, Stages, Lists, Holding, Done, OnceUndisturbed, Held, Live,
          MovedOut, Replayed, Nacking
  <1>1. ASSUME NEW m \in Messages, Publish(m) PROVE OnceUndisturbed'
    BY <1>1, FreshCopy DEF Publish, Add
  <1>2. ASSUME NEW w \in Workers, NEW e \in Entries, Claim(w, e) PROVE OnceUndisturbed'
    BY <1>2 DEF Claim, Goto
  <1>3. ASSUME NEW w \in Workers, NEW e \in Entries, Read(w, e) PROVE OnceUndisturbed'
    BY <1>3 DEF Read, Goto
  <1>4. ASSUME NEW w \in Workers, NEW e \in Entries, Handle(w, e) PROVE OnceUndisturbed'
    BY <1>4 DEF Handle, Goto
  <1>5. ASSUME NEW w \in Workers, NEW e \in Entries, Leave(w, e) PROVE OnceUndisturbed'
    BY <1>5 DEF Leave, Goto, NextMessage
  <1>6. ASSUME NEW w \in Workers, NEW e \in Entries, Reject(w, e) PROVE OnceUndisturbed'
    BY <1>6 DEF Reject, Goto
  <1>7. ASSUME NEW w \in Workers, EndConsume(w) PROVE OnceUndisturbed'
    BY <1>7 DEF EndConsume, Goto
  <1>8. ASSUME NEW w \in Workers, Ack(w) PROVE OnceUndisturbed'
    BY <1>8 DEF Ack, Goto, NextMessage
  <1>9. ASSUME NEW w \in Workers, NackAcks(w) PROVE OnceUndisturbed'
    BY <1>9 DEF NackAcks, Goto
  <1>10. ASSUME NEW w \in Workers, NackBuries(w) PROVE OnceUndisturbed'
    BY <1>10, FreshCopy DEF NackBuries, Goto, NextMessage, Add
  <1>11. ASSUME NEW w \in Workers, NackStores(w) PROVE OnceUndisturbed'
    BY <1>11, FreshCopy DEF NackStores, Goto, Add, Exhausted
  <1>12. ASSUME NEW w \in Workers, NackSchedules(w) PROVE OnceUndisturbed'
    BY <1>12 DEF NackSchedules, Goto, NextMessage
  <1>13. ASSUME NEW w \in Workers, CommandFails(w) PROVE OnceUndisturbed'
    BY <1>13 DEF CommandFails, Goto, NextMessage, CutOff
  <1>14. ASSUME NEW w \in Workers, Crash(w) PROVE OnceUndisturbed'
    BY <1>14 DEF Crash, Goto, CutOff
  <1>15. ASSUME NEW o \in Operators, NEW e \in Entries, MoveReads(o, e) PROVE OnceUndisturbed'
    BY <1>15 DEF MoveReads, FinishItem
  <1>16. ASSUME NEW o \in Operators, NEW e \in Entries, ReplayTakes(o, e) PROVE OnceUndisturbed'
    BY <1>16 DEF ReplayTakes
  <1>17. ASSUME NEW o \in Operators, ListDue(o) PROVE OnceUndisturbed'
    BY <1>17 DEF ListDue, StartJob
  <1>18. ASSUME NEW o \in Operators, ListDead(o) PROVE OnceUndisturbed'
    BY <1>18 DEF ListDead, StartJob
  <1>19. ASSUME NEW o \in Operators, MovePublishes(o) PROVE OnceUndisturbed'
    BY <1>19, FreshCopy DEF MovePublishes, Add
  <1>20. ASSUME NEW o \in Operators, MoveUnschedules(o) PROVE OnceUndisturbed'
    BY <1>20 DEF MoveUnschedules
  <1>21. ASSUME NEW o \in Operators, MoveDeletes(o) PROVE OnceUndisturbed'
    BY <1>21 DEF MoveDeletes, FinishItem
  <1>22. ASSUME NEW o \in Operators, ReplayPublishes(o) PROVE OnceUndisturbed'
    BY <1>22, FreshCopy DEF ReplayPublishes, Add
  <1>23. ASSUME NEW o \in Operators, ReplayDeletes(o) PROVE OnceUndisturbed'
    BY <1>23 DEF ReplayDeletes, FinishItem
  <1>24. ASSUME NEW o \in Operators, PublishFails(o) PROVE OnceUndisturbed'
    BY <1>24 DEF PublishFails, FinishItem
  <1>25. ASSUME NEW o \in Operators, Abort(o) PROVE OnceUndisturbed'
    BY <1>25 DEF Abort
  <1>26. CASE UNCHANGED vars
    BY <1>26 DEF vars
  <1> QED
    BY <1>1, <1>2, <1>3, <1>4, <1>5, <1>6, <1>7, <1>8, <1>9, <1>10, <1>11, <1>12,
       <1>13, <1>14, <1>15, <1>16, <1>17, <1>18, <1>19, <1>20, <1>21, <1>22, <1>23,
       <1>24, <1>25, <1>26
    DEF Next, WorkerNext, OperatorNext

-----------------------------------------------------------------------------

LEMMA BrokerInvStep ==
  ASSUME BrokerInv, [Next]_vars
  PROVE  BrokerInv'
  BY TypeStep, CurrentStep, ApartStep, ContentsStep, BatchesStep, CurrentsStep,
     UnsharedStep, StagesStep, ListsStep
  DEF BrokerInv

LEMMA NowhereInvStep ==
  ASSUME BrokerInv, Nowhere, [Next]_vars
  PROVE  Nowhere'
  BY NowhereStep DEF BrokerInv

LEMMA OnceInvStep ==
  ASSUME BrokerInv, History, OnceInv, [Next]_vars
  PROVE  History' /\ OnceInv'
  BY HistoryStep, SingleStep, HoldingStep, ListingStep, DoneStep, CountedStep, OnceStep
  DEF BrokerInv, OnceInv

LEMMA BrokerInvariant == Spec => []BrokerInv
  <1>1. Init => BrokerInv
    BY InitInv
  <1>2. BrokerInv /\ [Next]_vars => BrokerInv'
    BY BrokerInvStep
  <1> QED
    BY <1>1, <1>2, PTL DEF Spec

(* The variables of the broker model keep their types.                     *)
THEOREM TypeCorrect == Spec => []TypeOK
  <1>1. BrokerInv => TypeOK
    BY DEF BrokerInv
  <1> QED
    BY <1>1, BrokerInvariant, PTL

(* A published message is processed, or can be found in a stream, among    *)
(* the delayed ones, in the dead letters or in the hands of a nack, unless *)
(* a nack was cut off between its acknowledgement and its copy.            *)
THEOREM MessagesKept == Spec => []NeverNowhere
  <1>1. Init => Nowhere
    BY InitInv
  <1>2. BrokerInv /\ Nowhere /\ [Next]_vars => Nowhere'
    BY NowhereInvStep
  <1>3. BrokerInv /\ Nowhere => NeverNowhere
    <2> SUFFICES ASSUME BrokerInv, Nowhere, NEW m \in accepted, m \notin handled, m \notin dropped
                 PROVE  Somewhere(m)
      BY DEF NeverNowhere
    <2>1. PICK e \in Entries : e.msg = m /\ Live(e)
      BY DEF Nowhere
    <2>2. e \in unread \union pending \union (stored \intersect scheduled) \union dead \union BeingNacked
      BY <2>1 DEF Live, Nacking, BeingNacked, BrokerInv, Apart
    <2> QED
      BY <2>1, <2>2 DEF Somewhere
  <1> QED
    BY <1>1, <1>2, <1>3, BrokerInvariant, PTL DEF Spec

LEMMA OnceInvariant == Spec => []OnceInv
  <1>1. Init => History /\ OnceInv
    BY InitInv
  <1>2. BrokerInv /\ (History /\ OnceInv) /\ [Next]_vars => (History /\ OnceInv)'
    BY OnceInvStep
  <1> QED
    BY <1>1, <1>2, BrokerInvariant, PTL DEF Spec

(* A message that no overlap and no cut-off has disturbed is processed at  *)
(* most once, however often it is retried, delayed, buried and replayed.   *)
THEOREM HandledOnce == Spec => []OnceUndisturbed
  <1>1. OnceInv => OnceUndisturbed
    BY DEF OnceInv
  <1> QED
    BY <1>1, OnceInvariant, PTL

(* It is nacked at most 1 + max_retries times between publication or       *)
(* replay and dead letter: the count its copies carry is the true one.     *)
THEOREM RetriesCounted == Spec => []RetriesBounded
  <1>1. OnceInv => RetriesBounded
    BY DEF OnceInv, Counted, RetriesBounded
  <1> QED
    BY <1>1, OnceInvariant, PTL
=============================================================================
