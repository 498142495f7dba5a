--------------------------- MODULE WebhookInbound ---------------------------
(***************************************************************************)
(* Requests to one webhook endpoint and the executions of its workflow,    *)
(* whose template begins with the webhook node.                            *)
(*                                                                         *)
(* WebhookService.handleInbound signals the newest running execution or    *)
(* starts a new one; waitForWebhookResponse waits for that execution's     *)
(* result.  An execution is named by what started it: an inbound request,  *)
(* or a manual start, which has no payload and waits at the webhook node.  *)
(* Of the record only what handleInbound reads is kept: whether it says    *)
(* running, and when startExecution stored the run's id.                   *)
(***************************************************************************)
EXTENDS Naturals, Sequences, FiniteSets

CONSTANTS
  Requests,   \* inbound HTTP requests
  Manual,     \* executions started from the editor or the API
  None

ASSUME NamesAssumption == /\ Requests \cap Manual = {}
                          /\ None \notin Requests \cup Manual
ASSUME FiniteAssumption == IsFiniteSet(Requests) /\ IsFiniteSet(Manual)

Runs == Requests \cup Manual

VARIABLES
  endpointActive,   \* WebhookEndpoint.isActive
  workflowActive,   \* Workflow.status = "active"
  handler,          \* where the request that names the execution is
  target,           \* the execution whose result an inbound request awaits
  reply,            \* what the caller got
  row,              \* Execution.status: "none", "running" or "ended"
  startedAt,        \* order of the UPDATEs that stored the run's id; 0: not stored
  run,              \* where the workflow function is
  payload,          \* the request in triggerPayload, as the run sees it
  inbox,            \* webhookPayload signals not yet consumed
  faulty            \* history: a call failed

caller   == <<handler, target, reply>>
workflow == <<endpointActive, workflowActive>>
vars     == <<workflow, caller, row, startedAt, run, payload, inbox, faulty>>

Open(x) == run[x] \in {"ready", "waiting", "busy", "reported", "gaveUp"}

Init ==
  /\ endpointActive = TRUE
  /\ workflowActive = TRUE
  /\ handler = [x \in Runs |-> "idle"]
  /\ target = [r \in Requests |-> None]
  /\ reply = [r \in Requests |-> "none"]
  /\ row = [x \in Runs |-> "none"]
  /\ startedAt = [x \in Runs |-> 0]
  /\ run = [x \in Runs |-> "none"]
  /\ payload = [x \in Runs |-> None]
  /\ inbox = [x \in Runs |-> <<>>]
  /\ faulty = FALSE

-----------------------------------------------------------------------------
(* Steps of a request. *)
Goes(x, place) == handler' = [handler EXCEPT ![x] = place]

\* The request is over; a manual start has no caller to answer here.
Ends(x, kind) ==
  /\ Goes(x, "replied")
  /\ reply' = IF x \in Requests THEN [reply EXCEPT ![x] = kind] ELSE reply

\* The endpoint is looked up and the request authenticated.
Lookup(r) ==
  /\ handler[r] = "idle"
  /\ \/ endpointActive /\ Goes(r, "find") /\ UNCHANGED reply
     \/ Ends(r, "error")
  /\ UNCHANGED <<workflow, target, row, startedAt, run, payload, inbox, faulty>>

\* The running executions whose id is stored, the one started last.
Candidates == {x \in Runs : row[x] = "running" /\ startedAt[x] > 0}

IsNewest(x) == x \in Candidates /\ \A y \in Candidates : startedAt[y] <= startedAt[x]

FindWaiting(r) ==
  /\ handler[r] = "find"
  /\ \/ \E x \in Runs : /\ IsNewest(x)
                        /\ target' = [target EXCEPT ![r] = x]
                        /\ Goes(r, "signal")
     \/ Candidates = {} /\ Goes(r, "start") /\ UNCHANGED target
  /\ UNCHANGED <<workflow, reply, row, startedAt, run, payload, inbox, faulty>>

Deliver(r) == inbox' = [inbox EXCEPT ![target[r]] = Append(@, r)]

\* Temporal accepts signals for open runs, whatever they are doing.
SendSignal(r) ==
  /\ handler[r] = "signal"
  /\ \/ Open(target[r]) /\ Deliver(r) /\ Goes(r, "store")
     \/ ~ Open(target[r]) /\ UNCHANGED inbox /\ Goes(r, "start")
  /\ UNCHANGED <<workflow, target, reply, row, startedAt, run, payload, faulty>>

\* The call throws, with or without the signal having been delivered.
SignalFails(r) ==
  /\ handler[r] = "signal"
  /\ (Open(target[r]) /\ Deliver(r)) \/ UNCHANGED inbox
  /\ Goes(r, "start")
  /\ faulty' = TRUE
  /\ UNCHANGED <<workflow, target, reply, row, startedAt, run, payload>>

\* Mutant: the row's UPDATE is taken for a failure of the signal.
StorePayloadThenStart(r) ==
  /\ handler[r] = "store"
  /\ Goes(r, "start")
  /\ UNCHANGED <<workflow, target, reply, row, startedAt, run, payload, inbox, faulty>>

\* triggerPayload of the signalled execution; a failure starts a new one.
StorePayload(r) ==
  /\ handler[r] = "store"
  /\ \/ Goes(r, "await") /\ UNCHANGED faulty
     \/ Goes(r, "start") /\ faulty' = TRUE
  /\ UNCHANGED <<workflow, target, reply, row, startedAt, run, payload, inbox>>

ManualStart(m) ==
  /\ handler[m] = "idle"
  /\ Goes(m, "start")
  /\ UNCHANGED <<workflow, target, reply, row, startedAt, run, payload, inbox, faulty>>

-----------------------------------------------------------------------------
(* ExecutionService.startExecution. *)
OpenRun(x) ==
  /\ run' = [run EXCEPT ![x] = "ready"]
  /\ payload' = IF x \in Requests THEN [payload EXCEPT ![x] = x] ELSE payload

StartExecution(x) ==
  /\ handler[x] = "start"
  /\ \/ workflowActive /\ OpenRun(x) /\ Goes(x, "update") /\ UNCHANGED reply
     \/ ~ workflowActive /\ UNCHANGED <<run, payload>> /\ Ends(x, "error")
  /\ UNCHANGED <<workflow, target, row, startedAt, inbox, faulty>>

StartFails(x) ==
  /\ handler[x] = "start"
  /\ OpenRun(x) \/ UNCHANGED <<run, payload>>
  /\ Ends(x, "error")
  /\ row' = [row EXCEPT ![x] = "ended"]
  /\ faulty' = TRUE
  /\ UNCHANGED <<workflow, target, startedAt, inbox>>

\* The second UPDATE: running, whatever the run has reported by now.
RecordStarted(x) ==
  /\ handler[x] = "update"
  /\ row' = [row EXCEPT ![x] = "running"]
  /\ startedAt' = [startedAt EXCEPT ![x] =
                     Cardinality({y \in Runs : startedAt[y] > 0}) + 1]
  /\ \/ x \in Requests /\ target' = [target EXCEPT ![x] = x] /\ Goes(x, "await")
     \/ x \in Manual /\ UNCHANGED target /\ Goes(x, "replied")
  /\ UNCHANGED <<workflow, reply, run, payload, inbox, faulty>>

RecordStartedFails(x) ==
  /\ handler[x] = "update"
  /\ row' = [row EXCEPT ![x] = "ended"]
  /\ Ends(x, "error")
  /\ faulty' = TRUE
  /\ UNCHANGED <<workflow, target, startedAt, run, payload, inbox>>

-----------------------------------------------------------------------------
(* WebhookService.waitForWebhookResponse. *)
\* handle.result() has a response envelope, another result, or throws.
Result(r) ==
  /\ handler[r] = "await"
  /\ \/ run[target[r]] = "answered" /\ Ends(r, "response")
     \/ run[target[r]] \in {"completed", "failed"} /\ Ends(r, "received")
  /\ UNCHANGED <<workflow, target, row, startedAt, run, payload, inbox, faulty>>

\* Mutant: the race against the timer is dropped.
WaitNoLonger(r) ==
  /\ handler[r] = "await"
  /\ ~ Open(target[r])
  /\ Ends(r, "received")
  /\ UNCHANGED <<workflow, target, row, startedAt, run, payload, inbox, faulty>>

\* The thirty seconds are over.
WaitTimesOut(r) ==
  /\ handler[r] = "await"
  /\ Ends(r, "received")
  /\ UNCHANGED <<workflow, target, row, startedAt, run, payload, inbox, faulty>>

-----------------------------------------------------------------------------
(* The executions, as far as requests can tell: GraphInterpreter. *)
At(x, place) == run' = [run EXCEPT ![x] = place]

\* Mutant: a manual start does not wait.
ReachWebhookAndPass(x) ==
  /\ run[x] = "ready"
  /\ At(x, "busy")
  /\ UNCHANGED <<workflow, caller, row, startedAt, payload, inbox, faulty>>

\* A run with a payload does not wait and never reads a signal.
ReachWebhook(x) ==
  /\ run[x] = "ready"
  /\ At(x, IF payload[x] = None THEN "waiting" ELSE "busy")
  /\ UNCHANGED <<workflow, caller, row, startedAt, payload, inbox, faulty>>

\* Of the signals buffered so far the last one stays.
ReceiveSignal(x) ==
  /\ run[x] = "waiting"
  /\ inbox[x] # <<>>
  /\ payload' = [payload EXCEPT ![x] = inbox[x][Len(inbox[x])]]
  /\ inbox' = [inbox EXCEPT ![x] = <<>>]
  /\ At(x, "busy")
  /\ UNCHANGED <<workflow, caller, row, startedAt, faulty>>

\* After ten minutes the run fails, and reports it.
WebhookTimesOut(x) ==
  /\ run[x] = "waiting"
  /\ inbox[x] = <<>>
  /\ At(x, "gaveUp")
  /\ row' = [row EXCEPT ![x] = "ended"]
  /\ UNCHANGED <<workflow, caller, startedAt, payload, inbox, faulty>>

\* The other nodes ran or one failed: the record first, then the run.
Report(x) ==
  /\ run[x] = "busy"
  /\ At(x, "reported")
  /\ row' = [row EXCEPT ![x] = "ended"]
  /\ UNCHANGED <<workflow, caller, startedAt, payload, inbox, faulty>>

CloseRun(x) ==
  /\ \/ run[x] = "reported" /\ \E end \in {"answered", "completed", "failed"} : At(x, end)
     \/ run[x] = "gaveUp" /\ At(x, "failed")
  /\ UNCHANGED <<workflow, caller, row, startedAt, payload, inbox, faulty>>

\* deactivateWorkflow: first the endpoints, then the workflow.
Deactivate ==
  /\ \/ endpointActive /\ endpointActive' = FALSE /\ UNCHANGED workflowActive
     \/ ~ endpointActive /\ workflowActive' = FALSE /\ UNCHANGED endpointActive
  /\ UNCHANGED <<caller, row, startedAt, run, payload, inbox, faulty>>

-----------------------------------------------------------------------------
Inbound(r) == \/ FindWaiting(r) \/ SendSignal(r) \/ SignalFails(r) \/ StorePayload(r)
              \/ StartExecution(r) \/ StartFails(r)
              \/ RecordStarted(r) \/ RecordStartedFails(r)
              \/ Result(r) \/ WaitTimesOut(r)

Editor(m) == \/ ManualStart(m) \/ StartExecution(m) \/ StartFails(m)
             \/ RecordStarted(m) \/ RecordStartedFails(m)

Worker(x) == \/ ReachWebhook(x) \/ ReceiveSignal(x) \/ WebhookTimesOut(x)
             \/ Report(x) \/ CloseRun(x)

Next == \/ \E r \in Requests : Lookup(r) \/ Inbound(r)
        \/ \E m \in Manual : Editor(m)
        \/ \E x \in Runs : Worker(x)
        \/ Deactivate

Spec == Init /\ [][Next]_vars

\* The calls of a handler return or throw; its timer fires.
FairSpec == Spec /\ \A r \in Requests : WF_vars(Inbound(r))

-----------------------------------------------------------------------------
FlagsOK == endpointActive \in BOOLEAN /\ workflowActive \in BOOLEAN /\ faulty \in BOOLEAN

CallersOK ==
  /\ handler \in [Runs -> {"idle", "find", "signal", "store", "start", "update",
                           "await", "replied"}]
  /\ target \in [Requests -> Runs \cup {None}]
  /\ \A r \in Requests : handler[r] \in {"signal", "store", "await"} => target[r] \in Runs
  /\ reply \in [Requests -> {"none", "error", "received", "response"}]

RunsOK ==
  /\ row \in [Runs -> {"none", "running", "ended"}]
  /\ startedAt \in [Runs -> Nat]
  /\ run \in [Runs -> {"none", "ready", "waiting", "busy", "reported", "gaveUp",
                       "answered", "completed", "failed"}]
  /\ payload \in [Runs -> Requests \cup {None}]
  /\ inbox \in [Runs -> Seq(Requests)]

TypeOK == FlagsOK /\ CallersOK /\ RunsOK

-----------------------------------------------------------------------------
(* Properties. *)
\* A run that a request started works on that request from its start to its
\* end, whatever other requests signal to it meanwhile.
OwnPayload == \A r \in Requests : run[r] # "none" => payload[r] = r

Handling(r) == {x \in Runs : payload[x] = r}

\* Without faults no request is executed twice: it is signalled or it starts
\* an execution.
HandledOnce == ~ faulty => \A r \in Requests : Cardinality(Handling(r)) <= 1

\* Without faults, a request that was accepted but is executed by no run was
\* signalled to a run that had or then got another request, or that had
\* already given up waiting: it is never lost to a run that still waits.
LostOnlyToAnother ==
  ~ faulty => \A r \in Requests :
    (reply[r] \in {"received", "response"} /\ Handling(r) = {} /\ ~ Open(target[r])) =>
      \/ payload[target[r]] \in Requests \ {r}
      \/ payload[target[r]] = None /\ run[target[r]] = "failed"

-----------------------------------------------------------------------------
(* The inductive invariant behind OwnPayload and HandledOnce. *)
\* x got the request of another handler: it is in x's payload or on its way.
SignalledTo(x, r) ==
  /\ x # r
  /\ payload[x] = r \/ \E i \in 1..Len(inbox[x]) : inbox[x][i] = r

\* A run that never opened has no payload, and a request's own run never waits.
RunsHavePayload ==
  /\ \A x \in Runs : payload[x] # None => run[x] # "none"
  /\ \A r \in Requests : run[r] # "waiting"

\* A signalled request stays with its handler's target, and
\* starts no run of its own.
SignalsHeld ==
  \A r \in Requests :
    /\ handler[r] \in {"idle", "find", "signal", "store", "start"} => run[r] = "none"
    /\ \A x \in Runs : SignalledTo(x, r) =>
         handler[r] \in {"store", "await", "replied"} /\ target[r] = x /\ run[r] = "none"

SignalledStaysSignalled == ~ faulty => SignalsHeld

\* The inductive invariant of requests and runs: OwnPayload, and what
\* HandledOnce needs of handlers that signal (handleInbound).
InboundInvariant == TypeOK /\ OwnPayload /\ RunsHavePayload /\ SignalledStaysSignalled

-----------------------------------------------------------------------------
\* Every request that reached its handler is answered, by thirty seconds
\* after the start at the latest, whatever its execution does.
EveryRequestAnswered ==
  \A r \in Requests : (handler[r] # "idle") ~> (handler[r] = "replied")
=============================================================================
