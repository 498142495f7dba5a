-------------------------- MODULE GraphInterpreter --------------------------
(***************************************************************************)
(* The Temporal workflow graphInterpreterWorkflow: a breadth-first         *)
(* traversal of the template that runs one node at a time.                 *)
(*                                                                         *)
(* The workflow function is single threaded; what interleaves with it are  *)
(* the outcomes of the activities, timers and child workflows it awaits,   *)
(* the webhook signals it receives, and a cancellation requested from      *)
(* outside.  Best-effort log writes commute with all of these and are part *)
(* of the steps that make them.  A cancelled root scope rejects every      *)
(* activity, timer and condition, pending or new (Temporal TypeScript SDK, *)
(* default cancellation types).                                            *)
(***************************************************************************)
EXTENDS WorkflowTemplate

CONSTANT MaxSignals   \* bound on the webhook signals kept for a run

ASSUME MaxSignalsAssumption == MaxSignals \in Nat

VARIABLES
  template,         \* input.template
  queue,            \* entries [node, from] still to be visited
  completed,        \* completedNodes, a Set in insertion order
  arrivals,         \* mergeArrivals: sources that arrived at an AND-join
  followed,         \* history: the edges whose target was enqueued
  outputs,          \* nodeOutputs: the node whose data an output carries
  subflow,          \* subflowOutputResult: the subflow_output that set it
  cur,              \* the entry being executed
  pc,               \* where the workflow function is
  payload,          \* triggerPayload.webhookPath: the webhook node it names
  inbox,            \* webhookPayload signals received and not yet consumed
  cancelRequested,  \* the run's root scope is cancelled
  final,            \* finalOutput: the node whose data the run returns
  temporal          \* how the Temporal run stands

control == <<pc, cur, temporal, final>>
graph   == <<queue, completed, arrivals, followed, outputs, subflow>>
world   == <<payload, inbox, cancelRequested>>
vars    == <<template, control, graph, world>>

Entry   == [node : 0 .. NodeCount, from : 0 .. NodeCount]
NoEntry == [node |-> Nowhere, from |-> Nowhere]

Completed == {completed[i] : i \in DOMAIN completed}
KindOf(n) == template.kind[n]
Webhooks  == {n \in Node : KindOf(n) = "webhook"}

-----------------------------------------------------------------------------
Init ==
  /\ template \in Templates
  /\ queue = <<>>
  /\ completed = <<>>
  /\ arrivals = [n \in Node |-> {}]
  /\ followed = {}
  /\ outputs = [n \in Node |-> Nowhere]
  /\ subflow = Nowhere
  /\ cur = NoEntry
  /\ pc = "boot"
  /\ payload \in Webhooks \cup {Nowhere}
  /\ inbox = <<>>
  /\ cancelRequested = FALSE
  /\ final = Nowhere
  /\ temporal = "open"

\* The workflow function throws: Temporal closes the run.
Close(result) ==
  /\ pc' = "closed"
  /\ temporal' = result
  /\ cur' = NoEntry
  /\ UNCHANGED <<template, graph, world, final>>

-----------------------------------------------------------------------------
(* Before the loop: create the record of a scheduled run, resolve the      *)
(* variables, write status "running", seed the queue with the roots.       *)
SeedWith(nodes) ==
  /\ pc = "boot"
  /\ nodes # {}
  /\ \E order \in InOrder(nodes) :
       queue' = [i \in 1 .. Cardinality(nodes) |->
                   [node |-> order[i], from |-> Nowhere]]
  /\ pc' = "loop"
  /\ UNCHANGED <<template, cur, temporal, final, completed, arrivals, followed,
                 outputs, subflow, world>>

Seed == SeedWith(Roots(template))

\* An activity of the prologue fails, or there is no root (INVALID_TEMPLATE).
BootFails ==
  /\ pc = "boot"
  /\ \/ Close("failed")
     \/ cancelRequested /\ Close("cancelled")

-----------------------------------------------------------------------------
(* The head of the loop: one entry leaves the queue. *)
AtHead(entry) == pc = "loop" /\ queue # <<>> /\ entry = Head(queue)

\* Mutant: each arrival starts a new set.
ArrivalsOverwritten(entry) ==
  IF entry.node \in Node /\ KindOf(entry.node) = "merge_all"
       /\ entry.from # Nowhere
  THEN [arrivals EXCEPT ![entry.node] = {entry.from}]
  ELSE arrivals

\* mergeArrivals after this entry; an entry without a source adds nothing.
Arrivals(entry) ==
  IF entry.node \in Node /\ KindOf(entry.node) = "merge_all"
       /\ entry.from # Nowhere
  THEN [arrivals EXCEPT ![entry.node] = @ \cup {entry.from}]
  ELSE arrivals

\* Mutants: the join runs one branch early, or waits for one too many.
MustWaitLess(entry) ==
  /\ KindOf(entry.node) = "merge_all"
  /\ Cardinality(Arrivals(entry)[entry.node]) + 1 < template.branchCount[entry.node]

MustWaitMore(entry) ==
  /\ KindOf(entry.node) = "merge_all"
  /\ Cardinality(Arrivals(entry)[entry.node]) <= template.branchCount[entry.node]

MustWait(entry) ==
  /\ KindOf(entry.node) = "merge_all"
  /\ Cardinality(Arrivals(entry)[entry.node]) < template.branchCount[entry.node]

\* Mutant: a parked arrival goes back to the end of the queue.
DropToTheEnd(entry) ==
  /\ AtHead(entry)
  /\ entry.node \in Node => (MustWait(entry) \/ entry.node \in Completed)
  /\ queue' = IF entry.node \in Node /\ MustWait(entry)
              THEN Append(Tail(queue), entry) ELSE Tail(queue)
  /\ arrivals' = Arrivals(entry)
  /\ UNCHANGED <<template, control, completed, followed, outputs, subflow, world>>

\* A node the template does not have, a join short of branches, a node that
\* already ran: the entry is dropped.
Drop(entry) ==
  /\ AtHead(entry)
  /\ entry.node \in Node => (MustWait(entry) \/ entry.node \in Completed)
  /\ queue' = Tail(queue)
  /\ arrivals' = Arrivals(entry)
  /\ UNCHANGED <<template, control, completed, followed, outputs, subflow, world>>

\* Mutant: a completed node is not skipped.
BeginAgain(entry) ==
  /\ AtHead(entry)
  /\ entry.node \in Node
  /\ ~ MustWait(entry)
  /\ queue' = Tail(queue)
  /\ arrivals' = Arrivals(entry)
  /\ cur' = entry
  /\ pc' = "exec"
  /\ UNCHANGED <<template, temporal, final, completed, followed, outputs,
                 subflow, world>>

Begin(entry) ==
  /\ AtHead(entry)
  /\ entry.node \in Node
  /\ ~ MustWait(entry)
  /\ entry.node \notin Completed
  /\ queue' = Tail(queue)
  /\ arrivals' = Arrivals(entry)
  /\ cur' = entry
  /\ pc' = "exec"
  /\ UNCHANGED <<template, temporal, final, completed, followed, outputs,
                 subflow, world>>

-----------------------------------------------------------------------------
(* The switch over node.kind. *)
\* Kinds whose case awaits an activity, a timer, a signal or a child.
Awaits(n) == \/ KindOf(n) \in {"activity", "custom_builder", "delay", "debug",
                               "subworkflow_call"}
             \/ KindOf(n) = "webhook" /\ payload = Nowhere

\* The node's own data, or for the pass-through kinds what came from upstream.
OutputOf(entry) ==
  IF KindOf(entry.node) \in PassThrough
  THEN IF entry.from = Nowhere THEN Nowhere ELSE outputs[entry.from]
  ELSE entry.node

\* After the switch: store the output, mark the node completed and enqueue
\* the targets of the edges it follows, in the order of the template.
FinishNode(entry) ==
  /\ \E handles \in OutgoingHandles(KindOf(entry.node)) :
       LET next == Selected(template, entry.node, handles)
       IN  /\ \E order \in InOrder(next) :
                queue' = queue \o [i \in 1 .. Cardinality(next) |->
                                     [node |-> template.edges[order[i]].target,
                                      from |-> entry.node]]
           /\ followed' = followed \cup next
  /\ completed' = Append(completed, entry.node)
  /\ outputs' = [outputs EXCEPT ![entry.node] = OutputOf(entry)]
  /\ subflow' = IF KindOf(entry.node) = "subflow_output" THEN entry.node ELSE subflow
  /\ cur' = NoEntry
  /\ pc' = "loop"
  /\ UNCHANGED <<template, temporal, final, arrivals>>

\* A case without an await.
RunNow ==
  /\ pc = "exec"
  /\ ~ Awaits(cur.node)
  /\ FinishNode(cur)
  /\ UNCHANGED world

\* A case that awaits.
StartAwait ==
  /\ pc = "exec"
  /\ Awaits(cur.node)
  /\ ~ cancelRequested
  /\ pc' = "await"
  /\ UNCHANGED <<template, cur, temporal, final, graph, world>>

\* The scope is already cancelled: scheduling rejects with CancelledFailure.
StartRejected ==
  /\ pc = "exec"
  /\ Awaits(cur.node)
  /\ cancelRequested
  /\ Close("cancelled")

\* A custom node in http mode without a template throws a plain Error: when the
\* catch blocks have logged it and written "failed" (ExecutionLifecycle has the
\* write), the workflow task fails and is retried for ever, the run never closes.
ThrowsPlainError ==
  /\ pc = "exec"
  /\ KindOf(cur.node) = "custom_builder"
  /\ pc' = "wedged"
  /\ cur' = NoEntry
  /\ UNCHANGED <<template, temporal, final, graph, world>>

-----------------------------------------------------------------------------
(* What the awaited thing answers. *)
Waiting(kinds) == pc = "await" /\ KindOf(cur.node) \in kinds

\* Activities answer within startToCloseTimeout and a bounded number of
\* attempts; a timer fires.
Resolved ==
  /\ Waiting({"activity", "custom_builder", "delay", "debug"})
  /\ FinishNode(cur)
  /\ UNCHANGED world

ActivityFails ==
  /\ Waiting({"activity", "custom_builder", "debug"})
  /\ Close("failed")

\* The signals buffered before setHandler and those that arrive after it all
\* assign webhookData: the last one is what the node sees.
WebhookReceived ==
  /\ Waiting({"webhook"})
  /\ inbox # <<>>
  /\ FinishNode(cur)
  /\ payload' = inbox[Len(inbox)]
  /\ inbox' = <<>>
  /\ UNCHANGED cancelRequested

WebhookTimesOut ==
  /\ Waiting({"webhook"})
  /\ inbox = <<>>
  /\ Close("failed")

\* The child workflow closed; nothing bounds how long that takes.
ChildCompletes ==
  /\ Waiting({"subworkflow_call"})
  /\ FinishNode(cur)
  /\ UNCHANGED world

ChildFails ==
  /\ Waiting({"subworkflow_call"})
  /\ Close("failed")

\* A pending activity, timer or condition is rejected by the cancellation.
AwaitCancelled ==
  /\ pc = "await"
  /\ KindOf(cur.node) # "subworkflow_call"
  /\ cancelRequested
  /\ Close("cancelled")

\* A pending child is first asked to cancel, and awaited until it has closed.
ChildCancelled ==
  /\ Waiting({"subworkflow_call"})
  /\ cancelRequested
  /\ Close("cancelled")

-----------------------------------------------------------------------------
(* After the loop. *)
\* The nodes whose output carries the envelope of a trigger_output or a
\* response, by position in completion order.
Envelopes ==
  {i \in DOMAIN completed :
     /\ outputs[completed[i]] # Nowhere
     /\ KindOf(outputs[completed[i]]) \in {"trigger_output", "response"}}

\* Mutant: the first envelope wins.
IsFirstOutput(n) ==
  \/ \E i \in Envelopes : /\ \A j \in Envelopes : i <= j
                          /\ n = outputs[completed[i]]
  \/ Envelopes = {} /\ completed # <<>> /\ n = outputs[completed[Len(completed)]]
  \/ completed = <<>> /\ n = Nowhere

\* finalOutput: the last envelope, or else the output of the last node.
IsFinalOutput(n) ==
  \/ \E i \in Envelopes : /\ \A j \in Envelopes : j <= i
                          /\ n = outputs[completed[i]]
  \/ Envelopes = {} /\ completed # <<>> /\ n = outputs[completed[Len(completed)]]
  \/ completed = <<>> /\ n = Nowhere

StartFinish ==
  /\ pc = "loop"
  /\ queue = <<>>
  /\ ~ cancelRequested
  /\ \E n \in 0 .. NodeCount : IsFinalOutput(n) /\ final' = n
  /\ pc' = "finishing"
  /\ UNCHANGED <<template, cur, temporal, graph, world>>

\* The status write is rejected by the cancelled scope.
FinishRejected ==
  /\ \/ pc = "loop" /\ queue = <<>>
     \/ pc = "finishing"
  /\ cancelRequested
  /\ Close("cancelled")

FinishFails == pc = "finishing" /\ Close("failed")

Finish == pc = "finishing" /\ Close("completed")

-----------------------------------------------------------------------------
(* The outside world. *)
Open == pc \notin {"closed", "wedged"}

RequestCancel ==
  /\ Open
  /\ cancelRequested' = TRUE
  /\ UNCHANGED <<template, control, graph, payload, inbox>>

\* handleInbound signals the run for the endpoint of webhook node w.  Once a
\* payload is set nobody reads a signal any more.
Signal(w) ==
  /\ Open
  /\ payload = Nowhere
  /\ Len(inbox) < MaxSignals
  /\ inbox' = Append(inbox, w)
  /\ UNCHANGED <<template, control, graph, payload, cancelRequested>>

-----------------------------------------------------------------------------
Dequeue == \E entry \in Entry : Drop(entry) \/ Begin(entry)

Execute == RunNow \/ StartAwait \/ StartRejected \/ ThrowsPlainError

Answer == Resolved \/ ActivityFails \/ WebhookReceived \/ WebhookTimesOut
            \/ AwaitCancelled

Child == ChildCompletes \/ ChildFails \/ ChildCancelled

End == StartFinish \/ FinishRejected \/ FinishFails \/ Finish

\* The steps a running worker takes or a timeout takes for it.
Worker == Seed \/ BootFails \/ Dequeue \/ Execute \/ Answer \/ End

Environment == RequestCancel \/ \E w \in Webhooks : Signal(w)

Next == Worker \/ Child \/ Environment

Spec == Init /\ [][Next]_vars

\* The worker polls its queue, activities have timeouts, timers are durable;
\* nothing makes a child workflow close.
FairSpec == Spec /\ WF_vars(Worker)

-----------------------------------------------------------------------------
TypeOK ==
  /\ template \in Templates
  /\ queue \in Seq(Entry)
  /\ completed \in Seq(Node)
  /\ arrivals \in [Node -> SUBSET Node]
  /\ followed \subseteq DOMAIN template.edges
  /\ outputs \in [Node -> 0 .. NodeCount]
  /\ subflow \in 0 .. NodeCount
  /\ cur \in Entry
  /\ pc \in {"exec", "await"} => cur.node \in Node
  /\ pc \in {"boot", "loop", "exec", "await", "finishing", "closed", "wedged"}
  /\ payload \in 0 .. NodeCount
  /\ inbox \in Seq(Node)
  /\ cancelRequested \in BOOLEAN
  /\ final \in 0 .. NodeCount
  /\ temporal \in {"open", "completed", "failed", "cancelled"}

-----------------------------------------------------------------------------
(* Properties. *)
EdgeBetween(i, j) ==
  \E e \in followed : /\ template.edges[e].source = completed[i]
                      /\ template.edges[e].target = completed[j]

\* The positions before j in the order of completion that lead to the node at j.
Before(j) == {i \in DOMAIN completed : i < j /\ EdgeBetween(i, j)}

\* However many paths reach a node, in a graph with cycles too, it is executed
\* at most once in a run: no second execution is begun for a completed node.
NodeRunsOnce ==
  /\ \A i, j \in DOMAIN completed : completed[i] = completed[j] => i = j
  /\ pc \in {"exec", "await"} => cur.node \notin Completed

\* The order of completion respects the graph: a node is a root or an edge
\* into it was followed by a node that completed before it.
CausalOrder ==
  \A j \in DOMAIN completed : completed[j] \in Roots(template) \/ Before(j) # {}

\* An AND-join completes only after branchCount different nodes with a
\* followed edge into it.
JoinWaitsForBranches ==
  \A j \in DOMAIN completed :
    KindOf(completed[j]) = "merge_all" =>
      Cardinality(Before(j)) >= template.branchCount[completed[j]]

\* A run reported as completed has stranded no work: the target of every
\* followed edge ran, unless it is an AND-join that is short of branches.
NothingStranded ==
  temporal = "completed" =>
    /\ Roots(template) \subseteq Completed \cup
         {n \in Node : KindOf(n) = "merge_all" /\ template.branchCount[n] > 0}
    /\ \A e \in followed : LET n == template.edges[e].target
                          IN  \/ n \in Completed \cup {Nowhere}
                              \/ /\ KindOf(n) = "merge_all"
                                 /\ Cardinality(arrivals[n]) < template.branchCount[n]

\* Positions in the order of completion of the nodes that answer the caller.
Answers == {i \in DOMAIN completed : KindOf(completed[i]) \in {"response", "trigger_output"}}

\* In the templates of the editor no edge leaves an answering node.
AnswersAreTerminal ==
  \A e \in DOMAIN template.edges :
    LET n == template.edges[e].source
    IN  n \in Node => KindOf(n) \notin {"response", "trigger_output"}

\* The caller gets the data of the response or trigger_output node that
\* completed last, whatever ran after it on other branches and whatever
\* pass-through nodes copied, in every template the editor can draw.
ReturnsLatestResponse ==
  temporal = "completed" /\ AnswersAreTerminal =>
    \A i \in Answers : (\A j \in Answers : j <= i) => final = completed[i]

\* What a run is worth for its caller: the queue implements the abstract
\* dataflow run.
Status == CASE temporal = "completed"                              -> "completed"
            [] temporal \in {"failed", "cancelled"} \/ pc = "wedged" -> "aborted"
            [] OTHER                                               -> "running"

Dataflow == INSTANCE DataflowRun WITH done <- Completed, status <- Status

ImplementsDataflow == Dataflow!DSpec

\* Every run ends, on cyclic templates too, unless it waits for a child.
Terminates == \/ <>(pc \in {"closed", "wedged"})
              \/ <>[](Waiting({"subworkflow_call"}))

-----------------------------------------------------------------------------
(* The inductive invariant: the queue accounts for every edge followed.    *)
InRun == pc \in {"exec", "await"}

QueuedFor(n) == {i \in DOMAIN queue : queue[i].node = n}

SourcesOf(n) == {template.edges[e].source :
                   e \in {f \in followed : template.edges[f].target = n}}

\* An entry stands for a root, or for an edge that was followed.
Justified(entry) ==
  \/ entry.from = Nowhere /\ entry.node \in Roots(template)
  \/ \E e \in followed : /\ template.edges[e].source = entry.from
                         /\ template.edges[e].target = entry.node

Short(n) == /\ KindOf(n) = "merge_all"
            /\ Cardinality(arrivals[n]) < template.branchCount[n]

EntriesJustified == /\ \A i \in DOMAIN queue : Justified(queue[i])
                    /\ InRun => Justified(cur) /\ ~ Short(cur.node)

FollowedFromCompleted == \A e \in followed : template.edges[e].source \in Completed

\* At an AND-join the sources of the followed edges have arrived or are queued.
ArrivalsAccounted ==
  \A n \in Node :
    /\ arrivals[n] \subseteq SourcesOf(n)
    /\ KindOf(n) = "merge_all" =>
         SourcesOf(n) \subseteq arrivals[n] \cup {queue[i].from : i \in QueuedFor(n)}

\* A reached node ran, runs, is queued, or is a join short of branches.
NothingLost ==
  (pc \in {"loop", "exec", "await", "finishing"} \/ temporal = "completed") =>
    \A n \in Node :
      \/ n \notin Roots(template) /\ \A e \in followed : template.edges[e].target # n
      \/ n \in Completed
      \/ InRun /\ cur.node = n
      \/ QueuedFor(n) # {}
      \/ Short(n)

Phases ==
  /\ pc = "boot" => /\ queue = <<>> /\ completed = <<>> /\ followed = {}
                    /\ arrivals = [n \in Node |-> {}]
  /\ (pc \in {"loop", "exec", "await", "finishing"} \/ temporal = "completed")
       => Roots(template) # {}
  /\ (pc = "finishing" \/ temporal = "completed") => queue = <<>>
  /\ (pc = "closed") <=> (temporal # "open")

\* Every followed edge is queued, arrived or served, and nothing else is
\* queued: what the traversal keeps true at each step.
QueueInvariant == /\ TypeOK
                  /\ NodeRunsOnce
                  /\ EntriesJustified
                  /\ FollowedFromCompleted
                  /\ ArrivalsAccounted
                  /\ NothingLost
                  /\ Phases
=============================================================================
