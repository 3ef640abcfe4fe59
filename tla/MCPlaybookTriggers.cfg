SPECIFICATION Spec
CONSTANTS
  Triggers = {t1, t2}
  t1 = t1
  t2 = t2
  Deployments <- UniformDeployments
  Deliveries = {d1, d2, d3}
  NoDelivery = NoDelivery
  Keys = {"key"}
  NoKey = NoKey
  NoRequest = NoRequest
  Payloads = {"p1", "p2"}
  Traffic <- SomeTraffic
  Outcomes = {"success", "cancelled"}
  MaxCuts = 1
  Replicas = {r1, r2}
  r1 = r1
  r2 = r2
  d1 = d1
  d2 = d2
  d3 = d3
  NoTrigger = NoTrigger
  RanBefore = {t1}
  MaxSlot = 2
  MaxOutages = 1
INVARIANT TypeOK
INVARIANT KeyOnce
INVARIANT RepeatsExplained
INVARIANT RefusalExplained
INVARIANT AnswersAgree
INVARIANT CronOnce
INVARIANT RunsApart
PROPERTY ImplementsIdempotencyKeys
SYMMETRY PermuteProcesses
CHECK_DEADLOCK FALSE
