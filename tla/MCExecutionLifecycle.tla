------------------------ MODULE MCExecutionLifecycle ------------------------
(***************************************************************************)
(* The instances TLC checks ExecutionLifecycle and its claim on.           *)
(***************************************************************************)
EXTENDS ExecutionLifecycleClaims

AllOrigins == {"api", "parent", "schedule"}
=============================================================================
