---------------------------- MODULE MessageBroker ----------------------------
(***************************************************************************)
(* The Redis Streams broker (services/message_broker/redis_broker.py) with *)
(* the consumers of its group: alert workers (workers/alert_worker.py),    *)
(* which leave what they cannot process unacknowledged, and consumers      *)
(* written like message_broker/example_usage.py, which nack it.  Operators *)
(* are the calls that move due delayed messages and replay dead letters.   *)
(*                                                                         *)
(* The processes share nothing but Redis, whose commands are atomic: a     *)
(* step is one command with what the process does around it.  The streams  *)
(* of the four priorities are one set of unread entries, so any order of   *)
(* delivery is possible.  A pending entry may be idle for long enough to   *)
(* be claimed at any time, and a delay may have passed at any time.  The   *)
(* streams are taken to be shorter than MAXLEN (10000), so that none is    *)
(* trimmed.                                                                *)
(***************************************************************************)
EXTENDS Naturals

CONSTANTS
  Messages,     \* the events published, each once
  Ids,          \* bound: entries with equal contents that exist at a time
  NoEntry,      \* no entry
  Workers,      \* the consumers of the group
  Nackers,      \* those that nack a message they cannot process
  Operators,    \* concurrent calls of process_delayed_messages and replay_dlq
  MaxRetries,   \* max_retries of an envelope (3)
  MaxFaults     \* bound: crashes, failed commands and overlaps in a behaviour

(* An entry of a stream: its id, the message and the retry count of the    *)
(* envelope it holds.  Two entries with equal contents differ in the id;   *)
(* an id is used again when nothing refers to the entry any more.          *)
Entries == [id : Ids, msg : Messages, retry : 0..MaxRetries + 1]

ASSUME BrokerAssumption ==
  /\ NoEntry \notin Entries
  /\ Nackers \subseteq Workers
  /\ MaxRetries \in Nat
  /\ MaxFaults \in Nat

VARIABLES
  unread,      \* entries of the streams not delivered yet
  pending,     \* entries delivered and not acknowledged (the group's PEL)
  stored,      \* entries of events:delayed:storage
  scheduled,   \* those whose id is in the sorted set events:delayed
  dead,        \* entries of events:dlq
  pc, batch,   \* per worker, where it stands; what consume returned, in part
  cur,         \* per worker, the entry it acknowledges or nacks
  doing,       \* per operator, "nothing", "moving" or "replaying"
  list,        \* per operator, the entries it has listed and not come to
  item,        \* per operator, the entry it is at, ...
  stage,       \* ... and what it does next with it
  accepted,    \* messages published (history)
  handled,     \* messages processed (history)
  repeated,    \* messages processed more than once (history)
  nacked,      \* per message, nacks since it was published or replayed (history)
  dropped,     \* messages of which a nack was cut off in between (history)
  disturbed,   \* messages a fault or an overlap may have duplicated (history)
  faults       \* faults so far

redisVars == <<unread, pending, stored, scheduled, dead>>
workerVars == <<pc, batch, cur>>
operatorVars == <<doing, list, item, stage>>
historyVars == <<accepted, handled, repeated, nacked, dropped, disturbed, faults>>
vars == <<redisVars, workerVars, operatorVars, historyVars>>

-----------------------------------------------------------------------------
(* Redis.                                                                  *)

Held(w) == batch[w] \union {cur[w]}
Listed(o) == list[o] \union {item[o]}

Free(e) ==
  /\ e \notin unread \union pending \union stored \union scheduled \union dead
  /\ \A w \in Workers : e \notin Held(w)
  /\ \A o \in Operators : e \notin Listed(o)

Copies(m, retry) == {e \in Entries : e.msg = m /\ e.retry = retry /\ Free(e)}
NewCopy(m, retry) == CHOOSE e \in Copies(m, retry) : TRUE

(* XADD of message m to the stream with the entries S.                     *)
Add(S, m, retry) ==
  /\ Copies(m, retry) # {}
  /\ S' = S \union {NewCopy(m, retry)}

Init ==
  /\ unread = {} /\ pending = {} /\ stored = {} /\ scheduled = {} /\ dead = {}
  /\ pc = [w \in Workers |-> "idle"]
  /\ batch = [w \in Workers |-> {}]
  /\ cur = [w \in Workers |-> NoEntry]
  /\ doing = [o \in Operators |-> "nothing"]
  /\ list = [o \in Operators |-> {}]
  /\ item = [o \in Operators |-> NoEntry]
  /\ stage = [o \in Operators |-> "none"]
  /\ accepted = {} /\ handled = {} /\ repeated = {} /\ dropped = {} /\ disturbed = {}
  /\ nacked = [m \in Messages |-> 0]
  /\ faults = 0

(* publish() without a delay.                                              *)
Publish(m) ==
  /\ m \notin accepted
  /\ Add(unread, m, 0)
  /\ accepted' = accepted \union {m}
  /\ UNCHANGED <<pending, stored, scheduled, dead, workerVars, operatorVars,
                 handled, repeated, nacked, dropped, disturbed, faults>>

-----------------------------------------------------------------------------
(* A worker: consume(), then each of the messages it returned.             *)

Goto(w, s) == pc' = [pc EXCEPT ![w] = s]

(* The next message of the batch, or the next consume().                   *)
NextMessage(w, rest) == Goto(w, IF rest = {} THEN "idle" ELSE "working")

HeldElsewhere(w, e) == \E v \in Workers \ {w} : e \in Held(v)

(* consume() first claims idle entries (_claim_idle_pending).  The holder   *)
(* may have crashed, may have failed, or may only be slow: then two workers *)
(* have the message.                                                       *)
Claim(w, e) ==
  /\ pc[w] \in {"idle", "claiming"}
  /\ e \in pending
  /\ Goto(w, "claiming")
  /\ batch' = [batch EXCEPT ![w] = @ \union {e}]
  /\ \/ ~HeldElsewhere(w, e) /\ UNCHANGED <<disturbed, faults>>
     \/ /\ HeldElsewhere(w, e)
        /\ faults < MaxFaults
        /\ faults' = faults + 1
        /\ disturbed' = disturbed \union {e.msg}
  /\ UNCHANGED <<redisVars, cur, operatorVars, accepted, handled, repeated, nacked, dropped>>

(* Then XREADGROUP ">": unread entries become pending.                     *)
Read(w, e) ==
  /\ pc[w] \in {"idle", "claiming", "reading"}
  /\ e \in unread
  /\ unread' = unread \ {e}
  /\ pending' = pending \union {e}
  /\ batch' = [batch EXCEPT ![w] = @ \union {e}]
  /\ Goto(w, "reading")
  /\ UNCHANGED <<stored, scheduled, dead, cur, operatorVars, historyVars>>

EndConsume(w) ==
  /\ pc[w] \in {"claiming", "reading"}
  /\ Goto(w, "working")
  /\ UNCHANGED <<redisVars, batch, cur, operatorVars, historyVars>>

(* The message is processed ...                                            *)
Handle(w, e) ==
  /\ pc[w] = "working"
  /\ e \in batch[w]
  /\ batch' = [batch EXCEPT ![w] = @ \ {e}]
  /\ cur' = [cur EXCEPT ![w] = e]
  /\ Goto(w, "acking")
  /\ handled' = handled \union {e.msg}
  /\ repeated' = repeated \union ({e.msg} \intersect handled)
  /\ UNCHANGED <<redisVars, operatorVars, accepted, nacked, dropped, disturbed, faults>>

(* ... and acknowledged, by whoever holds it.                              *)
Ack(w) ==
  /\ pc[w] = "acking"
  /\ pending' = pending \ {cur[w]}
  /\ cur' = [cur EXCEPT ![w] = NoEntry]
  /\ NextMessage(w, batch[w])
  /\ UNCHANGED <<unread, stored, scheduled, dead, batch, operatorVars, historyVars>>

(* Mutant: the alert worker acknowledges in any case.                      *)
LeaveAcked(w, e) ==
  /\ w \notin Nackers
  /\ pc[w] = "working"
  /\ e \in batch[w]
  /\ batch' = [batch EXCEPT ![w] = @ \ {e}]
  /\ pending' = pending \ {e}
  /\ NextMessage(w, batch[w] \ {e})
  /\ UNCHANGED <<unread, stored, scheduled, dead, cur, operatorVars, historyVars>>

(* An alert worker's processing raises: the entry is left unacknowledged.  *)
Leave(w, e) ==
  /\ w \notin Nackers
  /\ pc[w] = "working"
  /\ e \in batch[w]
  /\ batch' = [batch EXCEPT ![w] = @ \ {e}]
  /\ NextMessage(w, batch[w] \ {e})
  /\ UNCHANGED <<redisVars, cur, operatorVars, historyVars>>

(* Another consumer's processing raises: it calls nack(), ...              *)
Reject(w, e) ==
  /\ w \in Nackers
  /\ pc[w] = "working"
  /\ e \in batch[w]
  /\ batch' = [batch EXCEPT ![w] = @ \ {e}]
  /\ cur' = [cur EXCEPT ![w] = e]
  /\ Goto(w, "nacking")
  /\ UNCHANGED <<redisVars, operatorVars, historyVars>>

(* ... which acknowledges the entry first, ...                             *)
NackAcks(w) ==
  /\ pc[w] = "nacking"
  /\ pending' = pending \ {cur[w]}
  /\ nacked' = [nacked EXCEPT ![cur[w].msg] = @ + 1]
  /\ Goto(w, "requeueing")
  /\ UNCHANGED <<unread, stored, scheduled, dead, batch, cur, operatorVars,
                 accepted, handled, repeated, dropped, disturbed, faults>>

Exhausted(e) == e.retry + 1 > MaxRetries

(* ... and then adds the message to the dead letters ...                   *)
NackBuries(w) ==
  /\ pc[w] = "requeueing"
  /\ Exhausted(cur[w])
  /\ Add(dead, cur[w].msg, cur[w].retry + 1)
  /\ cur' = [cur EXCEPT ![w] = NoEntry]
  /\ NextMessage(w, batch[w])
  /\ UNCHANGED <<unread, pending, stored, scheduled, batch, operatorVars, historyVars>>

(* Mutants: the id XADD returns is lost; the copy keeps the old count.     *)
NackStoresUnnamed(w) ==
  /\ pc[w] = "requeueing"
  /\ ~Exhausted(cur[w])
  /\ Add(stored, cur[w].msg, cur[w].retry + 1)
  /\ cur' = [cur EXCEPT ![w] = NoEntry]
  /\ Goto(w, "scheduling")
  /\ UNCHANGED <<unread, pending, scheduled, dead, batch, operatorVars, historyVars>>

NackStoresUncounted(w) ==
  /\ pc[w] = "requeueing"
  /\ ~Exhausted(cur[w])
  /\ Add(stored, cur[w].msg, cur[w].retry)
  /\ cur' = [cur EXCEPT ![w] = NewCopy(@.msg, @.retry)]
  /\ Goto(w, "scheduling")
  /\ UNCHANGED <<unread, pending, scheduled, dead, batch, operatorVars, historyVars>>

(* ... or publishes it with a delay: first the storage, ...                *)
NackStores(w) ==
  /\ pc[w] = "requeueing"
  /\ ~Exhausted(cur[w])
  /\ Add(stored, cur[w].msg, cur[w].retry + 1)
  /\ cur' = [cur EXCEPT ![w] = NewCopy(@.msg, @.retry + 1)]
  /\ Goto(w, "scheduling")
  /\ UNCHANGED <<unread, pending, scheduled, dead, batch, operatorVars, historyVars>>

(* ... then the sorted set.                                                *)
NackSchedules(w) ==
  /\ pc[w] = "scheduling"
  /\ scheduled' = scheduled \union {cur[w]}
  /\ cur' = [cur EXCEPT ![w] = NoEntry]
  /\ NextMessage(w, batch[w])
  /\ UNCHANGED <<unread, pending, stored, dead, batch, operatorVars, historyVars>>

(* What a message may lose or gain when the work on it is cut off.         *)
CutOff(w) ==
  /\ faults < MaxFaults
  /\ faults' = faults + 1
  /\ dropped' = dropped \union
       {e.msg : e \in {j \in {cur[w]} : pc[w] \in {"requeueing", "scheduling"}}}
  /\ disturbed' = disturbed \union
       {e.msg : e \in {j \in {cur[w]} : pc[w] = "acking"}}
  /\ cur' = [cur EXCEPT ![w] = NoEntry]

(* A command of ack() or nack() fails: both return False, and the worker   *)
(* turns to its next message.                                              *)
CommandFails(w) ==
  /\ cur[w] # NoEntry
  /\ CutOff(w)
  /\ NextMessage(w, batch[w])
  /\ UNCHANGED <<redisVars, batch, operatorVars, accepted, handled, repeated, nacked>>

(* The worker ends and is started again: its entries stay pending.         *)
Crash(w) ==
  /\ pc[w] # "idle"
  /\ CutOff(w)
  /\ batch' = [batch EXCEPT ![w] = {}]
  /\ Goto(w, "idle")
  /\ UNCHANGED <<redisVars, operatorVars, accepted, handled, repeated, nacked>>

-----------------------------------------------------------------------------
(* An operator: process_delayed_messages() or replay_dlq().                *)

(* Two calls that list the same entry may both publish it.                 *)
StartJob(o, job, S) ==
  LET shared == {e \in S : \E q \in Operators \ {o} : e \in Listed(q)}
  IN  /\ doing[o] = "nothing"
      /\ S # {}
      /\ doing' = [doing EXCEPT ![o] = job]
      /\ list' = [list EXCEPT ![o] = S]
      /\ \/ shared = {} /\ UNCHANGED <<disturbed, faults>>
         \/ /\ shared # {}
            /\ faults < MaxFaults
            /\ faults' = faults + 1
            /\ disturbed' = disturbed \union {e.msg : e \in shared}
      /\ UNCHANGED <<redisVars, workerVars, item, stage,
                     accepted, handled, repeated, nacked, dropped>>

(* ZRANGEBYSCORE: the ids that are due; XRANGE of the dead letters.        *)
ListDue(o) == \E S \in SUBSET scheduled : StartJob(o, "moving", S)
ListDead(o) == StartJob(o, "replaying", dead)

(* The operator is done with an entry; after the last one it returns.      *)
FinishItem(o, rest) ==
  /\ item' = [item EXCEPT ![o] = NoEntry]
  /\ stage' = [stage EXCEPT ![o] = "none"]
  /\ doing' = [doing EXCEPT ![o] = IF rest = {} THEN "nothing" ELSE @]

(* XRANGE of a delayed entry: ZREM when another call has deleted it.       *)
MoveReads(o, e) ==
  /\ doing[o] = "moving"
  /\ item[o] = NoEntry
  /\ e \in list[o]
  /\ list' = [list EXCEPT ![o] = @ \ {e}]
  /\ \/ /\ e \in stored
        /\ item' = [item EXCEPT ![o] = e]
        /\ stage' = [stage EXCEPT ![o] = "publish"]
        /\ UNCHANGED <<scheduled, doing>>
     \/ /\ e \notin stored
        /\ scheduled' = scheduled \ {e}
        /\ FinishItem(o, list[o] \ {e})
  /\ UNCHANGED <<unread, pending, stored, dead, workerVars, historyVars>>

MovePublishes(o) ==
  /\ doing[o] = "moving"
  /\ stage[o] = "publish"
  /\ Add(unread, item[o].msg, item[o].retry)
  /\ stage' = [stage EXCEPT ![o] = "unschedule"]
  /\ UNCHANGED <<pending, stored, scheduled, dead, workerVars, doing, list, item, historyVars>>

MoveUnschedules(o) ==
  /\ stage[o] = "unschedule"
  /\ scheduled' = scheduled \ {item[o]}
  /\ stage' = [stage EXCEPT ![o] = "delete"]
  /\ UNCHANGED <<unread, pending, stored, dead, workerVars, doing, list, item,
                 historyVars>>

MoveDeletes(o) ==
  /\ doing[o] = "moving"
  /\ stage[o] = "delete"
  /\ stored' = stored \ {item[o]}
  /\ FinishItem(o, list[o])
  /\ UNCHANGED <<unread, pending, scheduled, dead, workerVars, list, historyVars>>

(* A dead letter is taken from what was listed ...                          *)
ReplayTakes(o, e) ==
  /\ doing[o] = "replaying"
  /\ item[o] = NoEntry
  /\ e \in list[o]
  /\ list' = [list EXCEPT ![o] = @ \ {e}]
  /\ item' = [item EXCEPT ![o] = e]
  /\ stage' = [stage EXCEPT ![o] = "publish"]
  /\ UNCHANGED <<redisVars, workerVars, doing, historyVars>>

(* ... and published with its retries back, whether it is still there or   *)
(* not.                                                                    *)
ReplayPublishes(o) ==
  /\ doing[o] = "replaying"
  /\ stage[o] = "publish"
  /\ Add(unread, item[o].msg, 0)
  /\ stage' = [stage EXCEPT ![o] = "delete"]
  /\ nacked' = [nacked EXCEPT ![item[o].msg] = 0]
  /\ UNCHANGED <<pending, stored, scheduled, dead, workerVars, doing, list, item,
                 accepted, handled, repeated, dropped, disturbed, faults>>

(* Mutant: the replayed dead letter is not deleted.                        *)
ReplayKeeps(o) ==
  /\ doing[o] = "replaying"
  /\ stage[o] = "delete"
  /\ FinishItem(o, list[o])
  /\ UNCHANGED <<redisVars, workerVars, list, historyVars>>

ReplayDeletes(o) ==
  /\ doing[o] = "replaying"
  /\ stage[o] = "delete"
  /\ dead' = dead \ {item[o]}
  /\ FinishItem(o, list[o])
  /\ UNCHANGED <<unread, pending, stored, scheduled, workerVars, list, historyVars>>

(* publish() fails and returns None: the entry stays where it is, and the   *)
(* operator goes on with the next one.                                     *)
PublishFails(o) ==
  /\ stage[o] = "publish"
  /\ faults < MaxFaults
  /\ faults' = faults + 1
  /\ FinishItem(o, list[o])
  /\ UNCHANGED <<redisVars, workerVars, list,
                 accepted, handled, repeated, nacked, dropped, disturbed>>

(* Any other command fails, or the process ends: the call is over.         *)
Abort(o) ==
  /\ doing[o] # "nothing"
  /\ faults < MaxFaults
  /\ faults' = faults + 1
  /\ disturbed' = disturbed \union
       {e.msg : e \in {j \in {item[o]} : stage[o] \in {"unschedule", "delete"}}}
  /\ doing' = [doing EXCEPT ![o] = "nothing"]
  /\ list' = [list EXCEPT ![o] = {}]
  /\ item' = [item EXCEPT ![o] = NoEntry]
  /\ stage' = [stage EXCEPT ![o] = "none"]
  /\ UNCHANGED <<redisVars, workerVars, accepted, handled, repeated, nacked, dropped>>

-----------------------------------------------------------------------------

WorkerNext(w) ==
  \/ \E e \in Entries : Claim(w, e) \/ Read(w, e) \/ Handle(w, e) \/ Leave(w, e) \/ Reject(w, e)
  \/ EndConsume(w) \/ Ack(w)
  \/ NackAcks(w) \/ NackBuries(w) \/ NackStores(w) \/ NackSchedules(w)

OperatorNext(o) ==
  \/ ListDue(o) \/ ListDead(o)
  \/ \E e \in Entries : MoveReads(o, e) \/ ReplayTakes(o, e)
  \/ MovePublishes(o) \/ MoveUnschedules(o) \/ MoveDeletes(o)
  \/ ReplayPublishes(o) \/ ReplayDeletes(o)

Next ==
  \/ \E m \in Messages : Publish(m)
  \/ \E w \in Workers : WorkerNext(w) \/ CommandFails(w) \/ Crash(w)
  \/ \E o \in Operators : OperatorNext(o) \/ PublishFails(o) \/ Abort(o)

Spec == Init /\ [][Next]_vars

-----------------------------------------------------------------------------
(* Types of the variables.                                                 *)
TypeOK ==
  /\ unread \in SUBSET Entries
  /\ pending \in SUBSET Entries
  /\ stored \in SUBSET Entries
  /\ scheduled \in SUBSET Entries
  /\ dead \in SUBSET Entries
  /\ pc \in [Workers -> {"idle", "claiming", "reading", "working", "acking",
                         "nacking", "requeueing", "scheduling"}]
  /\ batch \in [Workers -> SUBSET Entries]
  /\ cur \in [Workers -> Entries \union {NoEntry}]
  /\ doing \in [Operators -> {"nothing", "moving", "replaying"}]
  /\ list \in [Operators -> SUBSET Entries]
  /\ item \in [Operators -> Entries \union {NoEntry}]
  /\ stage \in [Operators -> {"none", "publish", "unschedule", "delete"}]
  /\ accepted \in SUBSET Messages
  /\ handled \in SUBSET Messages
  /\ repeated \in SUBSET Messages
  /\ nacked \in [Messages -> Nat]
  /\ dropped \in SUBSET Messages
  /\ disturbed \in SUBSET Messages
  /\ faults \in 0..MaxFaults

(* The entries nack() has taken out of the stream and not yet put          *)
(* anywhere they can be found again.                                       *)
BeingNacked == {e \in Entries : \E w \in Workers : cur[w] = e /\ pc[w] \in {"requeueing", "scheduling"}}

(* Where a message can be found: in a stream, delayed, dead, or in the     *)
(* hands of a nack.                                                        *)
Somewhere(m) ==
  \E e \in unread \union pending \union (stored \intersect scheduled) \union dead \union BeingNacked :
     e.msg = m

(* A published message is processed or can be found, whatever crashes and  *)
(* whoever claims, moves or replays it; only a nack that is cut off after  *)
(* its acknowledgement loses it.                                           *)
NeverNowhere ==
  \A m \in accepted : m \in handled \/ m \in dropped \/ Somewhere(m)

(* A message is processed once, through any number of retries, delays,     *)
(* dead letters and replays, unless a slow worker's entry was claimed, two *)
(* operators listed it at a time, or one was cut off before cleaning up.   *)
OnceUndisturbed == repeated \subseteq disturbed

(* The retry count travels with the copies: between publication, replay    *)
(* and dead letter a message is nacked at most 1 + max_retries times.      *)
RetriesBounded ==
  \A m \in Messages \ disturbed : nacked[m] <= MaxRetries + 1
=============================================================================
