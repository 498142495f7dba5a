------------------------- MODULE MCWorkflowTriggers -------------------------
(***************************************************************************)
(* The instances TLC checks WorkflowTriggers and its claim on.             *)
(***************************************************************************)
EXTENDS WorkflowTriggersClaims, TLC

CONSTANTS p1, p2, c1, c2

T(paths, cron) == [paths |-> paths, cron |-> cron]

\* p2 is taken: the third template conflicts.
SomeTemplates == {T({p1}, c1), T({}, c2), T({p1, p2}, None)}

Symmetry == Permutations(Requests)
=============================================================================
