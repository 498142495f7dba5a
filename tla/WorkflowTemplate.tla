-------------------------- MODULE WorkflowTemplate --------------------------
(***************************************************************************)
(* The input of a run: the directed graph of nodes and edges the editor    *)
(* saves and graphInterpreterWorkflow receives as `template`               *)
(* (packages/shared/src/types/workflow.ts).  Node ids are the positions of *)
(* the nodes in template.nodes, so that the order in which the interpreter *)
(* meets them is the order of the numbers; an edge is a position in        *)
(* template.edges.  An edge may name a node that is not in the template:   *)
(* that end is Nowhere.                                                    *)
(***************************************************************************)
EXTENDS Naturals, Sequences, FiniteSets

CONSTANTS
  NodeCount,   \* number of nodes of a template
  Labels,      \* case labels of switch nodes, output ids of custom nodes
  Templates    \* the templates a run may be started with

Node    == 1 .. NodeCount
Nowhere == 0

(***************************************************************************)
(* The node kinds the interpreter treats differently.  "trigger" stands    *)
(* for manual, cron, mqtt_trigger, external_trigger, workflow_trigger_in   *)
(* and unknown kinds; "activity" for every kind whose case awaits          *)
(* activities and then follows all its edges.                              *)
(***************************************************************************)
Terminals  == {"stop", "response", "trigger_output", "subflow_output"}
Routers    == {"if_else", "switch", "custom_builder", "loop",
               "subflow_input", "subworkflow_call"}
PassThrough == {"debug", "delay", "group"}
Kind == Terminals \cup Routers \cup PassThrough \cup
          {"trigger", "webhook", "activity", "merge_all", "merge_first"}

\* A sourceHandle; "" is an edge without one.
Handle == {"", "true", "false", "done", "body", "out", "output_0", "output_1"}
            \cup Labels

Edge == [source : 0 .. NodeCount, handle : Handle, target : 0 .. NodeCount]

Template == [kind : [Node -> Kind], branchCount : [Node -> Nat],
             edges : Seq(Edge)]

ASSUME TemplateAssumption ==
  /\ NodeCount \in Nat
  /\ Templates \subseteq Template

-----------------------------------------------------------------------------
\* Nodes without an incoming edge (findRoots over buildReverseAdjacency).
Roots(t) == {n \in Node : \A e \in DOMAIN t.edges : t.edges[e].target # n}

\* Positions of the edges that leave n (buildAdjacency).
Outgoing(t, n) == {e \in DOMAIN t.edges : t.edges[e].source = n}

\* The values a node's case may give to outgoingHandles.
OutgoingHandles(kind) ==
  CASE kind \in Terminals                    -> {{}}
    [] kind = "if_else"                      -> {{"true"}, {"false"}}
    [] kind \in {"switch", "custom_builder"} -> {{l} : l \in Labels \cup {""}}
    [] kind = "loop"                         -> {{"done"}}
    [] kind = "subflow_input"                -> {{"out"}}
    [] kind = "subworkflow_call"             -> {{"output_0"}, {"output_1"}}
    [] OTHER                                 -> {{""}}

\* The outgoing edges a finished node follows (isUnconditional, matchesHandle).
IsUnconditional(handles) == "" \in handles \/ handles = {}

Selected(t, n, handles) ==
  {e \in Outgoing(t, n) : \/ IsUnconditional(handles)
                          \/ t.edges[e].handle \in handles
                          \/ t.edges[e].handle = ""}

\* The positions of S in increasing order: there is exactly one such sequence.
InOrder(S) ==
  {s \in [1 .. Cardinality(S) -> S] :
     /\ \A x \in S : \E i \in 1 .. Cardinality(S) : s[i] = x
     /\ \A i, j \in 1 .. Cardinality(S) : i < j => s[i] < s[j]}
=============================================================================
