SPECIFICATION FairSpec
CONSTANTS
  triage = triage
  report = report
  chat = chat
  w1 = w1
  w2 = w2
  w3 = w3
  NoTask = NoTask
  NoWorker = NoWorker
  Tasks <- TwoTasks
  Exposed <- Exposure
  Workers <- OneWorker
  Priority <- Priorities
  MaxConcurrent = 1
  MaxRetries = 1
  MaxMishaps = 1
PROPERTY Settles
CHECK_DEADLOCK FALSE
