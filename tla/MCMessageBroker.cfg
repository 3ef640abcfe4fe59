SPECIFICATION Spec
CONSTANTS
  Messages = {"alert"}
  Ids = {1, 2}
  NoEntry = NoEntry
  Workers = {"alert_worker", "consumer"}
  Nackers = {"consumer"}
  Operators = {op1, op2}
  op1 = op1
  op2 = op2
  MaxRetries = 1
  MaxFaults = 2
INVARIANT TypeOK
INVARIANT NeverNowhere
INVARIANT OnceUndisturbed
INVARIANT RetriesBounded
SYMMETRY OperatorSymmetry
CHECK_DEADLOCK FALSE
