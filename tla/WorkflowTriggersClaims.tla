----------------------- MODULE WorkflowTriggersClaims -----------------------
(***************************************************************************)
(* What a comment says of the schedule of an updated workflow and the code *)
(* does not do.                                                            *)
(***************************************************************************)
EXTENDS WorkflowTriggers

\* "If the workflow is active and the template changed, sync cron schedule"
\* (WorkflowService.updateWorkflow): what the schedule starts is the template
\* of the workflow.
ScheduleRunsCurrentTemplate ==
  Rest /\ ~ trouble /\ row # None /\ schedule # None => schedule.template = row.template
=============================================================================
