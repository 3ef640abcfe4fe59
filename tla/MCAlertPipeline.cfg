SPECIFICATION FairSpec
CONSTANTS
  intrusion = intrusion
  malware = malware
  login = login
  visit = visit
  NoAlert = NoAlert
  Alerts <- ThreeAlerts
  Severe <- SevereAlerts
  Raising <- BrokenAlerts
  Visits <- OneVisit
  Exposed <- SevereAlerts
  BatchSize = 2
  Overlap = 1
  CommitLag = 1
  MaxTime = 2
  MaxFaults = 1
  MaxAnswers = 1
INVARIANT TypeOK
INVARIANT NoneLeftBehind
INVARIANT RowTruthful
INVARIANT ResubmitNeedsLoss
PROPERTY BatchAdvances
PROPERTY Served
