SPECIFICATION Spec
CONSTANTS
  triage = triage
  report = report
  chat = chat
  w1 = w1
  w2 = w2
  w3 = w3
  NoTask = NoTask
  NoWorker = NoWorker
  Tasks <- TwoTasks
  Exposed <- Exposure
  Workers <- TwoWorkers
  Priority <- Priorities
  MaxConcurrent = 1
  MaxRetries = 1
  MaxMishaps = 1
SYMMETRY WorkerSymmetry
INVARIANT TypeOK
INVARIANT NoPendingForgotten
INVARIANT NoZombie
INVARIANT OneAttempt
INVARIANT AttemptsBounded
INVARIANT FirstAttemptsCapped
PROPERTY CompletedIsFinal
PROPERTY ImplementsWorkQueue
CHECK_DEADLOCK FALSE
