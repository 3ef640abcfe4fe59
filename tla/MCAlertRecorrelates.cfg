SPECIFICATION Spec
CONSTANTS
  intrusion = intrusion
  malware = malware
  login = login
  visit = visit
  NoAlert = NoAlert
  Alerts <- ThreeAlerts
  Severe <- SevereAlerts
  Raising = {}
  Visits = {}
  Exposed = {}
  BatchSize = 2
  Overlap = 1
  CommitLag = 1
  MaxTime = 1
  MaxFaults = 0
  MaxAnswers = 0
INVARIANT CorrelatedOnce
