------------------------- MODULE MCExecutionClients -------------------------
(***************************************************************************)
(* The instance TLC checks both clients on: two executions without faults, *)
(* or one with more lines and a fault.                                     *)
(***************************************************************************)
EXTENDS ExecutionClients

MCBudgets == {[executions |-> 2, logs |-> 1, faults |-> 0],
              [executions |-> 1, logs |-> 2, faults |-> 1],
              [executions |-> 1, logs |-> 3, faults |-> 0]}
=============================================================================
