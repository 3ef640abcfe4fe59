--------------------------- MODULE MCAlertPipeline ---------------------------
(* A severe alert and two minor ones, one of which cannot be enriched;     *)
(* batches of two; one visit of another replica's pipeline.                *)
EXTENDS AlertPipeline

CONSTANTS intrusion, malware, login, visit

ThreeAlerts == {intrusion, malware, login}
SevereAlerts == {intrusion}
BrokenAlerts == {login}
OneVisit == {visit}
=============================================================================
