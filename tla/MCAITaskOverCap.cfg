SPECIFICATION Spec
CONSTANTS
  triage = triage
  report = report
  chat = chat
  w1 = w1
  w2 = w2
  w3 = w3
  NoTask = NoTask
  NoWorker = NoWorker
  Tasks <- ThreeTasks
  Exposed <- Exposure
  Workers <- ThreeWorkers
  Priority <- Priorities
  MaxConcurrent = 2
  MaxRetries = 1
  MaxMishaps = 0
SYMMETRY Symmetry
INVARIANT CapRespected
CHECK_DEADLOCK FALSE
