--------------------------- MODULE IdempotencyKeys ---------------------------
(***************************************************************************)
(* What an idempotency key promises a sender, whatever the triggers it is  *)
(* used for and whenever: it belongs to one delivery at a time, which may  *)
(* begin the playbook once; a delivery that comes to an end has the key    *)
(* for good, and one that is cut off gives it back for another try.        *)
(***************************************************************************)
CONSTANTS
  Keys,        \* the idempotency keys
  Deliveries   \* the deliveries that use them

VARIABLES
  owner,   \* per key, the delivery that has it, as a set
  begun,   \* per key, the deliveries that began the playbook with it
  kept     \* keys that are not given back any more

keyVars == <<owner, begun, kept>>

Init ==
  /\ owner = [k \in Keys |-> {}]
  /\ begun = [k \in Keys |-> {}]
  /\ kept = {}

Acquire(k, d) ==
  /\ owner[k] = {}
  /\ owner' = [owner EXCEPT ![k] = {d}]
  /\ UNCHANGED <<begun, kept>>

Begin(k, d) ==
  /\ owner[k] = {d} /\ k \notin kept
  /\ d \notin begun[k]
  /\ begun' = [begun EXCEPT ![k] = @ \union {d}]
  /\ UNCHANGED <<owner, kept>>

Keep(k) ==
  /\ owner[k] # {} /\ k \notin kept
  /\ kept' = kept \union {k}
  /\ UNCHANGED <<owner, begun>>

GiveBack(k) ==
  /\ owner[k] # {} /\ k \notin kept
  /\ owner' = [owner EXCEPT ![k] = {}]
  /\ UNCHANGED <<begun, kept>>

Next ==
  \E k \in Keys :
     \/ \E d \in Deliveries : Acquire(k, d) \/ Begin(k, d)
     \/ Keep(k) \/ GiveBack(k)

Spec == Init /\ [][Next]_keyVars
=============================================================================
