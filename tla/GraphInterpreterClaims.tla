----------------------- MODULE GraphInterpreterClaims -----------------------
(***************************************************************************)
(* What the editor's form says of the stop node, and the interpreter does  *)
(* not do: a run refutes it.                                               *)
(***************************************************************************)
EXTENDS GraphInterpreter

\* "Execution stops at this node": nothing completes after a stop node.
StopEndsRun ==
  \A i \in DOMAIN completed : KindOf(completed[i]) = "stop" => i = Len(completed)
=============================================================================
