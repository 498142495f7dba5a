---------------------- MODULE ExecutionLifecycleClaims ----------------------
(***************************************************************************)
(* What the API description says of a cancellation and the code does not   *)
(* do.                                                                     *)
(***************************************************************************)
EXTENDS ExecutionLifecycle

\* "If the execution is still running, it is cancelled in Temporal and marked
\* `cancelled`" (docs/openapi.yaml:784): no request marks the record of an
\* open run without having asked Temporal to cancel it.
CancelReachesTemporal ==
  [][\A c \in Cancellers :
       (run = "open" /\ ~ faulty /\ MarkCancelled(c) /\ row'.status = "cancelled")
          => cancelRequested]_vars
=============================================================================
