----------------------------- MODULE TriggerTable -----------------------------
(***************************************************************************)
(* The playbook triggers (models/playbook_definition.py): each is created  *)
(* for webhooks or for a schedule and stays of that type.  They are taken  *)
(* to be active and are not edited or deleted while the model runs.        *)
(***************************************************************************)

CONSTANTS
  Triggers,     \* the triggers of the system
  Deployments   \* the types they may have, functions from Triggers

ASSUME TableAssumption == Deployments \subseteq [Triggers -> {"webhook", "cron"}]

VARIABLE type   \* per trigger, its column type

TableInit == type \in Deployments
=============================================================================
