--------------------------- MODULE WebhookTriggers ---------------------------
(***************************************************************************)
(* Webhook deliveries (services/trigger_service.py, handle_webhook) and    *)
(* the invocation rows that make them idempotent                           *)
(* (repositories/trigger_repository.py).                                   *)
(*                                                                         *)
(* A delivery is one HTTP request with a session of its own.  It looks for *)
(* an invocation of the same request, inserts its own, runs the playbook   *)
(* and commits: the row and the run are seen by nobody before that commit. *)
(* A step is one statement of the session, or the run as a whole.  A       *)
(* sender that repeats a request makes a new delivery with equal contents. *)
(* The signature is taken to be valid and the trigger to exist: a request  *)
(* refused earlier changes nothing.                                        *)
(***************************************************************************)
EXTENDS TriggerTable, Naturals, FiniteSets

CONSTANTS
  Deliveries,   \* the requests that arrive
  NoDelivery,   \* no delivery
  Keys,         \* the X-Idempotency-Key headers senders use
  NoKey,        \* no such header
  NoRequest,    \* the contents of a delivery that has not arrived
  Payloads,     \* request bodies, told apart by their hash
  Traffic,      \* the requests that are made
  Outcomes,     \* the final statuses of a run that occur
  MaxCuts       \* bound: deliveries cut off by a crash or a lost connection

Requests == [trigger : Triggers, key : Keys \union {NoKey}, payload : Payloads]

ASSUME WebhookAssumption ==
  /\ NoKey \notin Keys
  /\ NoDelivery \notin Deliveries
  /\ Traffic \subseteq Requests
  /\ NoRequest \notin Requests
  /\ Outcomes \subseteq {"success", "failed", "cancelled"}
  /\ MaxCuts \in Nat

VARIABLES
  request,      \* per delivery, what it asks for
  stage,        \* per delivery, where its handler stands or how it ended
  invocation,   \* per delivery, the status of its invocation row
  run,          \* per delivery, the status of its run row
  answer,       \* per delivery, whose invocation the reply names
  expired,      \* deliveries recorded more than 24 hours ago
  ran,          \* deliveries whose playbook was started (history)
  hidden,       \* per delivery, like ones on their way when it was checked (history)
  cuts          \* deliveries cut off so far

webhookVars == <<request, stage, invocation, run, answer, expired, ran, hidden, cuts>>

WebhookInit ==
  /\ request = [d \in Deliveries |-> NoRequest]
  /\ stage = [d \in Deliveries |-> "new"]
  /\ invocation = [d \in Deliveries |-> "none"]
  /\ run = [d \in Deliveries |-> "none"]
  /\ answer = [d \in Deliveries |-> NoDelivery]
  /\ expired = {} /\ ran = {} /\ cuts = 0
  /\ hidden = [d \in Deliveries |-> {}]

-----------------------------------------------------------------------------
(* The invocation table.                                                   *)

Committed(d) == invocation[d] \in {"success", "failed"}

(* Committed rows of the last 24 hours with the trigger and the key of r.  *)
RowsByKey(r) ==
  {e \in Deliveries : /\ Committed(e) /\ e \notin expired
                      /\ request[e].trigger = r.trigger /\ request[e].key = r.key}

(* Mutant: a failed invocation does not count.                             *)
RowsOfSuccess(r) ==
  {e \in Deliveries : /\ invocation[e] = "success" /\ e \notin expired
                      /\ request[e].trigger = r.trigger /\ request[e].payload = r.payload}

(* The same with its trigger and its payload.                              *)
RowsByHash(r) ==
  {e \in Deliveries : /\ Committed(e) /\ e \notin expired
                      /\ request[e].trigger = r.trigger /\ request[e].payload = r.payload}

(* Rows of any trigger and age with the key of delivery d, which the unique *)
(* index admits once.                                                      *)
KeyHolders(d) ==
  {e \in Deliveries : /\ invocation[e] # "none" /\ request[d].key # NoKey
                      /\ request[e].key = request[d].key}

Alike(d, e) ==
  /\ stage[d] # "new" /\ stage[e] # "new"
  /\ request[d].trigger = request[e].trigger /\ request[d].payload = request[e].payload

(* Like deliveries past their own check and not committed, which the check *)
(* of d cannot find.                                                       *)
Unseen(d) ==
  {e \in Deliveries \ {d} : Alike(d, e) /\ stage[e] \in {"recording", "preparing", "running"}}

Goto(d, s) == stage' = [stage EXCEPT ![d] = s]

(* The reply names the invocation of e and its run.                        *)
AnswerFrom(d, e) == Goto(d, "answered") /\ answer' = [answer EXCEPT ![d] = e]

-----------------------------------------------------------------------------
(* A delivery.                                                             *)

(* Mutant: a delivery with a key is not looked up by its payload.          *)
ReceiveByKeyOnly(d, r) ==
  /\ stage[d] = "new"
  /\ type[r.trigger] = "webhook"
  /\ request' = [request EXCEPT ![d] = r]
  /\ \/ r.key # NoKey /\ \E e \in RowsByKey(r) : AnswerFrom(d, e)
     \/ r.key # NoKey /\ RowsByKey(r) = {} /\ Goto(d, "recording") /\ UNCHANGED answer
     \/ r.key = NoKey /\ Goto(d, "hashing") /\ UNCHANGED answer
  /\ UNCHANGED <<invocation, run, expired, ran, hidden, cuts>>

(* check_idempotency, first query: by the key, if there is one.            *)
Receive(d, r) ==
  /\ stage[d] = "new"
  /\ type[r.trigger] = "webhook"
  /\ request' = [request EXCEPT ![d] = r]
  /\ \/ r.key # NoKey /\ \E e \in RowsByKey(r) : AnswerFrom(d, e)
     \/ /\ r.key # NoKey => RowsByKey(r) = {}
        /\ Goto(d, "hashing")
        /\ UNCHANGED answer
  /\ UNCHANGED <<invocation, run, expired, ran, hidden, cuts>>

(* Second query: by the hash of the payload.  Two rows are an error, and   *)
(* the sender gets a 500.                                                  *)
CheckHash(d) ==
  /\ stage[d] = "hashing"
  /\ LET rows == RowsByHash(request[d]) IN
       \/ rows = {} /\ Goto(d, "recording") /\ UNCHANGED answer
       \/ \E e \in rows : rows = {e} /\ AnswerFrom(d, e)
       \/ (\E e, f \in rows : e # f) /\ Goto(d, "refused") /\ UNCHANGED answer
  /\ hidden' = [hidden EXCEPT ![d] = Unseen(d)]
  /\ UNCHANGED <<request, invocation, run, expired, ran, cuts>>

(* Mutant: no unique index.                                                *)
RecordUnchecked(d) ==
  /\ stage[d] = "recording"
  /\ invocation' = [invocation EXCEPT ![d] = "pending"]
  /\ Goto(d, "preparing")
  /\ UNCHANGED <<request, run, answer, expired, ran, hidden, cuts>>

(* record_invocation: the INSERT waits while an open transaction has the   *)
(* key ...                                                                 *)
Record(d) ==
  /\ stage[d] = "recording"
  /\ KeyHolders(d) = {}
  /\ invocation' = [invocation EXCEPT ![d] = "pending"]
  /\ Goto(d, "preparing")
  /\ UNCHANGED <<request, run, answer, expired, ran, hidden, cuts>>

(* ... and fails when a committed row has it.                              *)
RecordFails(d) ==
  /\ stage[d] = "recording"
  /\ \E e \in KeyHolders(d) : Committed(e)
  /\ Goto(d, "conflict")
  /\ UNCHANGED <<request, invocation, run, answer, expired, ran, hidden, cuts>>

(* The definition is gone or does not compile: the failed invocation is    *)
(* committed and the error goes to the sender.                             *)
NothingToRun(d) ==
  /\ stage[d] = "preparing"
  /\ invocation' = [invocation EXCEPT ![d] = "failed"]
  /\ Goto(d, "raised")
  /\ UNCHANGED <<request, run, answer, expired, ran, hidden, cuts>>

(* The run row is created and DAGScheduler.execute starts.                 *)
StartPlaybook(d) ==
  /\ stage[d] = "preparing"
  /\ run' = [run EXCEPT ![d] = "running"]
  /\ ran' = ran \union {d}
  /\ Goto(d, "running")
  /\ UNCHANGED <<request, invocation, answer, expired, hidden, cuts>>

(* Mutants: the invocation has the status of the run, or counts as a       *)
(* success whenever the playbook came to an end.                           *)
FinishWithRunStatus(d, status) ==
  /\ stage[d] = "running"
  /\ run' = [run EXCEPT ![d] = status]
  /\ invocation' = [invocation EXCEPT ![d] = status]
  /\ AnswerFrom(d, d)
  /\ UNCHANGED <<request, expired, ran, hidden, cuts>>

FinishAsSuccess(d, status) ==
  /\ stage[d] = "running"
  /\ run' = [run EXCEPT ![d] = status]
  /\ invocation' = [invocation EXCEPT ![d] = "success"]
  /\ AnswerFrom(d, d)
  /\ UNCHANGED <<request, expired, ran, hidden, cuts>>

(* execute() returned: run and invocation are written and committed.       *)
FinishPlaybook(d, status) ==
  /\ stage[d] = "running"
  /\ run' = [run EXCEPT ![d] = status]
  /\ invocation' = [invocation EXCEPT ![d] = IF status = "success" THEN "success" ELSE "failed"]
  /\ AnswerFrom(d, d)
  /\ UNCHANGED <<request, expired, ran, hidden, cuts>>

(* execute() raised: both are committed as failed, the sender gets a 500.  *)
PlaybookRaises(d) ==
  /\ stage[d] = "running"
  /\ run' = [run EXCEPT ![d] = "failed"]
  /\ invocation' = [invocation EXCEPT ![d] = "failed"]
  /\ Goto(d, "raised")
  /\ UNCHANGED <<request, answer, expired, ran, hidden, cuts>>

(* The process dies or its session can no longer commit: the transaction   *)
(* is rolled back, what the nodes of the playbook did is not.  Cut off     *)
(* before it has a row, a delivery is one that never arrived.              *)
CutOff(d) ==
  /\ stage[d] \in {"preparing", "running"}
  /\ cuts < MaxCuts
  /\ cuts' = cuts + 1
  /\ invocation' = [invocation EXCEPT ![d] = "none"]
  /\ run' = [run EXCEPT ![d] = "none"]
  /\ Goto(d, "lost")
  /\ UNCHANGED <<request, answer, expired, ran, hidden>>

(* 24 hours pass over a committed row; a transaction is open for less.     *)
(* The processes stamp rows by their own clocks, so the order of expiry is *)
(* left open.  Rows are never deleted: the cleanup call does not commit.   *)
Expire(d) ==
  /\ Committed(d)
  /\ d \notin expired
  /\ expired' = expired \union {d}
  /\ UNCHANGED <<request, stage, invocation, run, answer, ran, hidden, cuts>>

DeliveryNext(d) ==
  \/ \E r \in Traffic : Receive(d, r)
  \/ CheckHash(d) \/ Record(d) \/ RecordFails(d)
  \/ NothingToRun(d) \/ StartPlaybook(d) \/ PlaybookRaises(d)
  \/ \E status \in Outcomes : FinishPlaybook(d, status)
  \/ CutOff(d) \/ Expire(d)

WebhookNext == (\E d \in Deliveries : DeliveryNext(d)) /\ UNCHANGED type

-----------------------------------------------------------------------------

(* What the rows say of a key: the deliveries whose row has it, the ones    *)
(* whose playbook was started, and whether a row with it is committed.     *)
Owner == [k \in Keys |-> {d \in Deliveries : invocation[d] # "none" /\ request[d].key = k}]
Begun == [k \in Keys |-> {d \in ran : request[d].key = k}]
Kept == {k \in Keys : \E d \in Deliveries : Committed(d) /\ request[d].key = k}

Register == INSTANCE IdempotencyKeys WITH owner <- Owner, begun <- Begun, kept <- Kept

(* Types of the variables.                                                 *)
WebhookTypeOK ==
  /\ request \in [Deliveries -> Traffic \union {NoRequest}]
  /\ stage \in [Deliveries -> {"new", "hashing", "recording", "preparing", "running",
                               "answered", "refused", "conflict", "raised", "lost"}]
  /\ invocation \in [Deliveries -> {"none", "pending", "success", "failed"}]
  /\ run \in [Deliveries -> {"none", "running", "success", "failed", "cancelled"}]
  /\ answer \in [Deliveries -> Deliveries \union {NoDelivery}]
  /\ expired \in SUBSET Deliveries
  /\ ran \in SUBSET Deliveries
  /\ hidden \in [Deliveries -> SUBSET Deliveries]
  /\ cuts \in 0..MaxCuts

(* Of the deliveries with one idempotency key, to whatever trigger and     *)
(* whenever, one runs its playbook, and another only if it was cut off     *)
(* before it could commit.                                                 *)
KeyOnce ==
  \A d, e \in ran :
     d # e /\ request[d].key = request[e].key /\ request[d].key # NoKey =>
       stage[d] = "lost" \/ stage[e] = "lost"

(* The invocation rows and their unique index keep the promise of a key:   *)
(* one delivery at a time has it, the playbook is begun only by the one    *)
(* that does and once, and it is given back by a cut-off delivery only,    *)
(* never after a commit.                                                   *)
ImplementsIdempotencyKeys == Register!Spec

(* A request runs its playbook twice only if one delivery was checked while *)
(* the other was on its way, one was cut off before it could commit, or one *)
(* is more than 24 hours old.                                              *)
RepeatsExplained ==
  \A d, e \in ran : d # e /\ Alike(d, e) =>
     \/ e \in hidden[d] \/ d \in hidden[e]
     \/ stage[d] = "lost" \/ stage[e] = "lost"
     \/ d \in expired \/ e \in expired

(* A delivery is refused for two rows of the same request only if one of   *)
(* these was checked while the other was on its way.                       *)
RefusalExplained ==
  \A d \in Deliveries : stage[d] = "refused" =>
     \E e, f \in Deliveries : /\ e # f /\ Alike(d, e) /\ Alike(d, f)
                              /\ Committed(e) /\ Committed(f) /\ e \in hidden[f]

(* The invocation a reply names is committed, is of the same trigger and   *)
(* of the same key or payload, and is a success exactly when its run is.   *)
AnswersAgree ==
  \A d \in Deliveries : stage[d] = "answered" =>
     LET e == answer[d] IN
       /\ e \in Deliveries
       /\ Committed(e)
       /\ request[e].trigger = request[d].trigger
       /\ \/ request[e].payload = request[d].payload
          \/ request[e].key = request[d].key /\ request[d].key # NoKey
       /\ invocation[e] = "success" <=> run[e] = "success"
=============================================================================
