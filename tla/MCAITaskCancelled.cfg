SPECIFICATION Spec
CONSTANTS
  triage = triage
  report = report
  chat = chat
  w1 = w1
  w2 = w2
  w3 = w3
  NoTask = NoTask
  NoWorker = NoWorker
  Tasks <- TwoTasks
  Exposed <- Exposure
  Workers <- TwoWorkers
  Priority <- Priorities
  MaxConcurrent = 1
  MaxRetries = 0
  MaxMishaps = 0
PROPERTY CancelIsFinal
CHECK_DEADLOCK FALSE
