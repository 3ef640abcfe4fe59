--------------------------- MODULE PlaybookTriggers ---------------------------
(***************************************************************************)
(* Playbook triggers as a whole: webhook deliveries and cron schedulers    *)
(* over one table of triggers, each of which serves one of the two.        *)
(***************************************************************************)
EXTENDS WebhookTriggers, CronTriggers

vars == <<type, webhookVars, cronVars>>

Init == TableInit /\ WebhookInit /\ CronInit

Next ==
  \/ WebhookNext /\ UNCHANGED cronVars
  \/ CronNext /\ UNCHANGED webhookVars

Spec == Init /\ [][Next]_vars

-----------------------------------------------------------------------------

(* Types of the variables.                                                 *)
TypeOK == type \in Deployments /\ WebhookTypeOK /\ CronTypeOK
=============================================================================
