------------------------- MODULE MCGraphInterpreter -------------------------
(***************************************************************************)
(* Templates for model checking GraphInterpreter: a gallery of small       *)
(* graphs, one per behaviour that matters, and all graphs over a fixed     *)
(* choice of kinds and candidate edges.                                    *)
(***************************************************************************)
EXTENDS GraphInterpreterClaims

E(s, h, t) == [source |-> s, handle |-> h, target |-> t]
T(kinds, counts, es) == [kind |-> kinds, branchCount |-> counts, edges |-> es]

\* trigger -> two branches -> AND-join -> activity
Diamond == T(<<"trigger", "activity", "delay", "merge_all">>, <<0, 0, 0, 2>>,
             <<E(1, "out", 2), E(1, "out", 3), E(2, "out", 4), E(3, "out", 4)>>)
\* an OR-join reached twice, and a custom node with two outputs
OrJoin == T(<<"trigger", "custom_builder", "debug", "merge_first">>, <<0, 0, 0, 2>>,
            <<E(1, "out", 2), E(1, "out", 3), E(2, "a", 4), E(3, "out", 4)>>)
\* an AND-join behind a condition: one of its branches may never be taken
HalfJoin == T(<<"trigger", "if_else", "activity", "merge_all">>, <<0, 0, 0, 2>>,
              <<E(1, "out", 2), E(2, "true", 3), E(2, "false", 4), E(3, "out", 4)>>)
\* a cycle behind a root, with a dangling edge
Cycle == T(<<"trigger", "activity", "switch", "group">>, <<0, 0, 0, 0>>,
           <<E(1, "out", 2), E(2, "out", 3), E(3, "a", 2), E(3, "b", 4), E(4, "out", 0)>>)
\* two webhook triggers in one template
TwoHooks == T(<<"webhook", "webhook", "merge_all", "response">>, <<0, 0, 2, 0>>,
              <<E(1, "out", 3), E(2, "out", 3), E(3, "out", 4)>>)
\* a response on a short branch while a longer one goes on
EarlyResponse == T(<<"webhook", "response", "activity", "debug">>, <<0, 0, 0, 0>>,
                   <<E(1, "out", 2), E(1, "out", 3), E(3, "out", 4)>>)
\* two answers on branches of different length
TwoAnswers == T(<<"trigger", "activity", "trigger_output", "response">>, <<0, 0, 0, 0>>,
                <<E(1, "out", 2), E(1, "out", 3), E(2, "out", 4)>>)
\* a child workflow routed by the port that fired, and a loop node
Child2 == T(<<"subflow_input", "subworkflow_call", "loop", "subflow_output">>, <<0, 0, 0, 0>>,
            <<E(1, "out", 2), E(2, "output_0", 3), E(2, "output_1", 4), E(3, "done", 4)>>)
\* a join that is itself a root, and an unconnected node
Loose == T(<<"trigger", "merge_all", "activity", "stop">>, <<0, 1, 0, 0>>,
           <<E(1, "out", 4), E(2, "out", 4)>>)
\* a stop node on one branch and work on the other
StopBranch == T(<<"trigger", "stop", "activity", "activity">>, <<0, 0, 0, 0>>,
                <<E(1, "out", 2), E(1, "out", 3), E(3, "out", 4)>>)
\* no root at all
NoRoot == T(<<"activity", "activity", "activity", "activity">>, <<0, 0, 0, 0>>,
            <<E(1, "", 2), E(2, "", 3), E(3, "", 4), E(4, "", 1)>>)

\* a switch whose cases both lead to one join
SwitchJoin == T(<<"trigger", "switch", "merge_all", "activity">>, <<0, 0, 2, 0>>,
                <<E(1, "out", 2), E(2, "a", 3), E(2, "b", 3), E(3, "out", 4)>>)
\* a loop with a body and a continuation
LoopBody == T(<<"trigger", "loop", "activity", "stop">>, <<0, 0, 0, 0>>,
              <<E(1, "out", 2), E(2, "body", 3), E(2, "done", 4)>>)
\* two output ports reached on parallel branches
TwoPorts == T(<<"subflow_input", "subflow_output", "activity", "subflow_output">>,
              <<0, 0, 0, 0>>, <<E(1, "out", 2), E(1, "out", 3), E(3, "out", 4)>>)
\* a debug node behind one of two responses
EchoedAnswer == T(<<"trigger", "response", "response", "debug">>, <<0, 0, 0, 0>>,
                  <<E(1, "out", 2), E(1, "out", 3), E(2, "", 4)>>)

Gallery == {Diamond, OrJoin, HalfJoin, Cycle, TwoHooks, EarlyResponse, TwoAnswers,
            Child2, Loose, StopBranch, NoRoot, SwitchJoin, LoopBody, TwoPorts, EchoedAnswer}

\* A switch and a join in every arrangement of these edges: forks, two edges
\* from one source, self loops, back edges, joins with too few branches.
Candidate == <<E(1, "out", 2), E(1, "out", 3), E(2, "a", 3), E(2, "b", 4),
               E(2, "b", 3), E(3, "out", 4), E(4, "out", 2), E(4, "out", 4)>>
Subgraph(S) == LET picked == SelectSeq([i \in DOMAIN Candidate |-> i], LAMBDA i : i \in S)
               IN  [i \in DOMAIN picked |-> Candidate[picked[i]]]
Arrangements ==
  {T(<<"trigger", "switch", "merge_all", k>>, <<0, 0, c, 0>>, Subgraph(S)) :
     S \in {U \in SUBSET DOMAIN Candidate : Cardinality(U) <= 5},
     c \in {1, 2}, k \in {"activity", "merge_first"}}

All == Gallery \cup Arrangements
=============================================================================
