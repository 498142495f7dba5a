----------------------------- MODULE DataflowRun -----------------------------
(***************************************************************************)
(* What one run of a workflow promises, without a queue: a set of nodes    *)
(* that ran and a set of edges that were followed.  A node runs at most    *)
(* once, only when it has been reached, an AND-join only when enough       *)
(* distinct sources have arrived, and the run is completed only when no    *)
(* reached node is left that could still run.  GraphInterpreter is shown   *)
(* to implement this module.                                               *)
(***************************************************************************)
EXTENDS WorkflowTemplate

VARIABLES
  template,   \* the graph being run
  done,       \* nodes that ran to their end
  followed,   \* edges that a finished node followed
  status      \* "running", "completed" or "aborted"

dvars == <<template, done, followed, status>>

\* Sources from which n has been reached.
Arrived(n) == {template.edges[e].source :
                 e \in {f \in followed : template.edges[f].target = n}}

Reached(n) == \/ n \in Roots(template)
              \/ \E e \in followed : template.edges[e].target = n

Joined(n) == template.kind[n] = "merge_all"
               => Cardinality(Arrived(n)) >= template.branchCount[n]

Ready(n) == n \notin done /\ Reached(n) /\ Joined(n)

DInit ==
  /\ template \in Templates
  /\ done = {}
  /\ followed = {}
  /\ status = "running"

RunNode(n) ==
  /\ status = "running"
  /\ Ready(n)
  /\ \E handles \in OutgoingHandles(template.kind[n]) :
       followed' = followed \cup Selected(template, n, handles)
  /\ done' = done \cup {n}
  /\ UNCHANGED <<template, status>>

Complete ==
  /\ status = "running"
  /\ Roots(template) # {}
  /\ \A n \in Node : ~ Ready(n)
  /\ status' = "completed"
  /\ UNCHANGED <<template, done, followed>>

\* A failing node, a cancellation or a failing status write.
Abort ==
  /\ status = "running"
  /\ status' = "aborted"
  /\ UNCHANGED <<template, done, followed>>

DNext == (\E n \in Node : RunNode(n)) \/ Complete \/ Abort

DSpec == DInit /\ [][DNext]_dvars
=============================================================================
