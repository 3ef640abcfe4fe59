--------------------------- MODULE MCMessageBroker ---------------------------
(* One alert worker, one consumer that nacks, and two calls by operators.  *)
EXTENDS MessageBroker, TLC

CONSTANTS op1, op2

OperatorSymmetry == Permutations(Operators)
=============================================================================
