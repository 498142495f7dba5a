# TLA+ models of ZuzuFlow

This directory holds TLA+ specifications of ZuzuFlow, the TLC configurations
that check them on small instances, and theorems about them that TLAPS proves
for every instance. Every action is a translation of code; `PROJECT.json` maps
each definition to its lines.

ZuzuFlow runs workflows drawn in an editor. The backend (`apps/backend`,
Express, Postgres through Prisma) keeps workflows, executions and endpoints; the
worker (`apps/workers`) runs `graphInterpreterWorkflow` as a Temporal workflow
and reports back through the backend's `/internal` routes; the frontend and the
SDKs follow a run over a WebSocket.

## 1. Inventory

| Component | State | Operations | Interacts with |
|---|---|---|---|
| Graph interpreter (`GraphInterpreter.ts`) | BFS queue, `completedNodes`, `mergeArrivals`, `nodeOutputs`, final output, Temporal run | seed, park/skip/run a node, route, wait for activity / timer / webhook signal / child, finish | activities, Temporal signals and cancellation, child runs |
| Execution lifecycle (`ExecutionService.ts`, `internal.ts`, `persistence.ts`, `subworkflow.ts`) | `Execution` row; Temporal run | start, prepare, create for a schedule, PATCH status, cancel, delete | interpreter (status writes), Temporal client |
| Inbound webhooks (`WebhookService.ts`, `webhooks.ts`) | `WebhookEndpoint` rows | signal a running execution or start one, wait for the response | lifecycle, interpreter's webhook nodes |
| Workflow lifecycle (`WorkflowService.ts`) | workflow status/template/version, endpoint rows, Temporal schedule | create, update, activate, deactivate, delete | three stores without a common transaction |
| Event broadcasting (`executionBroadcaster.ts`) | subscriptions of one process | authenticate, subscribe, broadcast | PATCH and log handlers broadcast |
| Editor's document (`saveWorkflow.ts`, `WorkflowEditorPage.tsx`, `workflowStore.ts`, `UnsavedChangesGuard.tsx`, `Toolbar.tsx`) | id, template, status and changed mark of the open document; the guard's dialog | open, edit, import, save, run, stop, activate, deactivate, leave | `WorkflowService` rows; the answers of its own calls |
| Execution view (`useExecutionSocket.ts`, `executionStore.ts`, `Toolbar.tsx`) | id, status and lines shown; socket, reconnect timer, backfills under way | run, stop, clear, connect, backfill, reconnect | broadcaster, `GET /executions/:id` |
| SDK watch (`ws.ts`, `executions.ts`) | queue of events, the waiting consumer | `triggerAndWait` | broadcaster |
| Folders (`FolderService.ts`, `routes/folders.ts`) | parent pointers | create, move, delete | workflows' `folderId`; push and pull of `GitService` |
| Users and organisations (`UserService.ts`, `OrganizationService.ts`) | accounts with a role, `OrgMember` rows | signup, seeding, deletion, founding, change of a role, removal | invitations |
| Invitations (`InviteService.ts`) | `OrgInvite` rows | create, replace, accept, decline, revoke, expire | memberships |
| One-time tokens, MFA | token rows with a used mark | issue, consume, prune | users |
| Package cache (`pkg_cache.ts`, `pip_cache.ts`) | a directory per list of packages, its entry, the install registered in the process | look up, join or run an install | sandbox activities |
| Integrations (about 90 activities), settings, credentials, git, editor, deployment | – | I/O, CRUD, user interface | – |

What is hard in this code, and what makes each part correct:

* **Interpreter.** Joins whose branches arrive in any order, cyclic templates,
  failures and cancellations at every `await`, signals that come early or
  several at once. Correct when each reached node runs once and in causal
  order, no branch is lost, joins wait, the right answer is returned, and the
  run ends.
* **Lifecycle.** The execution row is written by the request that starts the
  run, by the worker (with retries, late and lost requests) and by requests
  that cancel and delete, without a transaction around row and run. Correct
  when a completed run is recorded, a stored id names a run, deletions are
  final and a recorded cancellation ends the run.
* **Webhooks.** The newest running execution is signalled, waiting or not; the
  answer races a timeout. Correct when every accepted request is executed once.
* **Workflow lifecycle.** Three stores updated one after the other from a
  status read earlier. Correct when an inactive or deleted workflow does not
  fire and an active one fires its current template.
* **Events and their clients.** A subscription is made after an asynchronous
  check, a backfill races live events, the next socket and the switch to another
  execution. Correct when the editor comes to show how its execution ended, with
  that execution's lines, and when a call of the SDK always returns and can say
  why.
* **Folders.** A move checks for cycles in one call and writes in another.
  Correct when the folders stay a forest and the page reaches all of them.
* **Editor's document.** Answers of saves and loads arrive late and are applied to
  whatever is open. Correct when what is shown as saved is stored, a document
  stays with its row, and Run executes what is on the canvas.
* **Package cache.** The entry is read across awaits while others install. Correct
  when installs exclude each other, what is handed out is whole, and waiting calls
  are answered.
* **Users, organisations, invitations.** Count, check and write are separate
  calls. Correct when an organisation keeps an owner, a system with a
  superadmin keeps one, and an invite makes one membership.

## 2. Plan

Done, in this order, the most important behaviour first:

1. `WorkflowTemplate`, `GraphInterpreter`, abstract `DataflowRun`; its safety
   properties and the refinement proved.
2. `ExecutionLifecycle`: all writers of one execution record; its inductive
   invariant proved, and with it that the record agrees with the run.
3. `WebhookInbound`: requests against executions that wait or not, and the wait
   for the answer; its inductive invariants proved.
4. `WorkflowTriggers`: row, endpoints and schedule under concurrent requests;
   its inductive invariants proved.
5. `ExecutionFeed` with `EditorView` and `ExecutionWatch`, composed in
   `ExecutionClients`; the invariants of both clients proved over the composition.
6. `FolderTree`; its inductive invariant proved.
7. `Membership`; its inductive invariant proved.
8. `PackageCache`; its inductive invariant proved.
9. `EditorDocument`; its inductive invariant proved.

Every safety and action property that a run checks is a theorem; the liveness
properties are model-checked.

Left:

* That `WebhookInbound` implements a specification in which a request is handled
  once, and that the statuses of `ExecutionFeed` are those of
  `ExecutionLifecycle` without faults.
* Push, pull and the delayed push of `GitService` against two sites.

## 3. Modules

| Module | Role |
|---|---|
| `WorkflowTemplate` | the graph: node kinds as far as the traversal tells them apart, edges, roots, routing |
| `DataflowRun` | abstract specification of one run: a set of nodes that ran and of edges followed |
| `GraphInterpreter` | the workflow function, with properties, refinement and inductive invariant |
| `GraphInterpreterClaims` | a statement of the user interface that the code does not keep |
| `MCGraphInterpreter` | the templates TLC runs |
| `WorkerProofs` | theorems about `GraphInterpreter` and `PackageCache`, which share no state |
| `ExecutionLifecycle` | one execution record and all its writers |
| `WebhookInbound` | inbound requests, the runs they signal or start, and the answers |
| `WorkflowTriggers` | one workflow's row, endpoints and schedule under concurrent requests |
| `ExecutionFeed` | the records and the broadcasts after each write of the worker, as clients can learn of them |
| `EditorView` | `ExecutionFeed` with the editor: store, socket, timer, backfills, buttons |
| `ExecutionWatch` | `ExecutionFeed` with one `triggerAndWait` of the SDK |
| `ExecutionClients` | both over one server: `EditorView`, and `ExecutionWatch` instantiated |
| `FolderTree` | folders and workflows of an environment, the page's tree, and the repository's copy |
| `Membership` | accounts, members and invites of one organisation |
| `PackageCache` | one list's directory and the calls that ask for it |
| `EditorDocument` | the editor's store and the rows, with the calls between them |
| `...Claims`, `MC...`, `...Proofs` | as above; `ExecutionClientsProofs` is about both clients |

Definitions whose comment begins with *Mutant* are plausible bugs: each replaces
a definition of the model in a run that must then fail, and shows that the
property notices it. They are not part of any specification.

### GraphInterpreter

One action per step of `graphInterpreterWorkflow` between two points where
something else can happen. `pc` is the place in the function: `boot` (before
the queue is seeded), `loop`, `exec` (the switch over the node's kind),
`await`, `finishing` (the write of the result), `closed`, `wedged`.

| Action | Code |
|---|---|
| `Seed`, `BootFails` | 712-774: record of a scheduled run, variables, roots; `INVALID_TEMPLATE` |
| `Drop`, `Begin` | 780-821: unknown node, join short of branches, node already done; or the node is taken |
| `RunNow`, `StartAwait`, `StartRejected`, `ThrowsPlainError` | the switch, for cases without and with an await |
| `Resolved`, `ActivityFails`, `WebhookReceived`, `WebhookTimesOut`, `ChildCompletes`, `ChildFails`, `AwaitCancelled`, `ChildCancelled` | what the await gives |
| `FinishNode` | 3148-3188: output stored, node completed, targets enqueued in template order |
| `StartFinish`, `Finish`, `FinishFails`, `FinishRejected` | 3214-3288 |
| `Signal`, `RequestCancel` | `handleInbound`, `cancelExecution` |

An activity's data is abstracted to the node that produced it (`outputs`), which
is what `ReturnsLatestResponse` tells apart. The roughly ninety activity kinds
are one kind, `activity`: each case awaits one or more activities and then
follows all its edges. Best-effort log writes are part of the step they belong
to: they change nothing here, and a failure of theirs is swallowed.

A cancelled root scope rejects each pending and each new activity, timer and
condition; a pending child is awaited until it has closed. This is Temporal's
TypeScript SDK with its default cancellation types and is modelled from how the
code uses it.

### ExecutionLifecycle

`record`/`row` is the Postgres row, `run` the Temporal execution. `starter` is
the place of the starting request in `startExecution` (or of `prepare` and the
parent, or of the schedule), `phase` the place of the workflow function as far
as the record is concerned, `call`/`attempt` the current attempt of its status
activity, `patches` the PATCH requests under way, including those of attempts
that timed out, `canceller` the place of each cancelling request between its
read and its write. A Prisma call is one atomic step; everything between two
calls is another step. `faulty` and `lastWriter` are history variables read by
properties only.

The run's nodes are one phase: what happens inside is `GraphInterpreter`'s, and
what the two share is the order `boot`, nodes, `complete`/`fail`, closed. A plain
`Error` takes the way of a failure, whose write is the place `throw`, and ends in
`wedged` instead of closing the run; a parent that awaits such a child is `wedged`
without a write.

### WebhookInbound

An execution is named by what started it: an inbound request or a manual start.
`handler[x]` is the place of that request in the router, `handleInbound` and
`startExecution` (endpoint lookup, lookup of a running execution, signal, UPDATE,
start, second UPDATE, wait); `run[x]` is the place of the workflow function as
far as signals and the record are concerned. `Candidates`/`IsNewest` are the query
for the newest execution whose record says `running`: the record says so only
after the second UPDATE, and may say so after the run has closed, so the query
can miss a run and can find one that takes no signal. `inbox` holds the signals
a run has not consumed: a waiting run takes the last one, a run that a request
started has its payload and never reads one. The answer
(`waitForWebhookResponse`) is the result of the run in `target`, or `{received}`
after 30 seconds.

Simplified: a template begins with its webhook node, an authentication failure
is one outcome of `Lookup`, cancellation of a waiting run is left out
(`GraphInterpreter` has it), and a deactivation is its two flags (its schedule is in
`WorkflowTriggers`).

### WorkflowTriggers

`row`, `endpoint`, `schedule` are the three stores; `job[q]` is what request `q` has
read and its place in its sequence of calls:

| Request | Places |
|---|---|
| `createWorkflow` 398-484 | insert, then the endpoints |
| `updateWorkflow` 679-791 | write; upsert/respec or unschedule if the status it read was active; the endpoints |
| `activateWorkflow` 806-840 | upsert/respec if there is a cron node; the endpoints; status |
| `deactivateWorkflow` 842-875 | unschedule, flip, status |
| `deleteWorkflow` 796-801 | delete |
| `syncEndpointsForWorkflow` 253-354 | read, prune, upsertRows (one step a path) |

`held` stands for the rows' ids: a request updates and deletes the rows it read,
and one that another request inserted later at the same path is not among them.
`FailsQuietly` is a call whose failure is logged or ignored, `Aborts` one that
throws, or the end of the backend. `alone`, `latest` and `trouble` are history that
properties read.

Simplified: an update without a template, names, keys, folders and tags touch
none of the stores' relations; the other workflows' paths (`Taken`) do not change;
the paths of a template are written in any order.

### ExecutionFeed, EditorView, ExecutionWatch, ExecutionClients

`ExecutionFeed` is what a client can see of `ExecutionLifecycle`: `row` and `logs`
are the database, `pen` is the worker's latest write and whether its broadcast
was made (the handler stores, then broadcasts, and the worker awaits the answer
before the next write), `cancel` the place of a DELETE.

| `EditorView` | Code |
|---|---|
| `Run`, `Started`, `NotStarted`, `Stop`, `Stopped`, `Clear` | `Toolbar.tsx` 208-290, `executionStore.ts` |
| `Effect` | the hook's effect: cleanup and connect when the id changed |
| `Subscribe`, `Lose` | `attachWebSocketServer`: the subscription after the check of the token; the server's end of a socket |
| `Acknowledged`, `FetchReads`, `FetchApplied`, `FetchFails` | `useExecutionSocket.ts` 335-393: the backfill that follows `subscribed` |
| `LineArrives`, `StatusArrives` | 238-332 |
| `Closed`, `TimerFires` | 405-422: reconnect after 2 s unless the execution has ended |

A socket is a queue of messages (`sock.net`); each backfill has its own slot
(`fetch[n]`) because nothing cancels it. A line carries the socket it came over
and its number, which is all that `OwnLines` and `BackfillLeavesNoGap` look at.
`crossed`, `overtaken` and `missed` are history: an answer of a backfill was
applied to another execution's view, was applied after a later status, or
failed after the end.

| `ExecutionWatch` | Code |
|---|---|
| `Trigger`, `Triggered`, `TriggerFails` | `ExecutionsResource.trigger` |
| `Opened`, `Message`, `Closed` | the handlers of `watchExecution` (`ws.ts` 58-89): they queue an event or set `done`, and wake the consumer |
| `Take`, `Resume`, `Wait`, `TimeUp`, `GivesUp` | the generator (93-128) and the loop of `triggerAndWait` over it |

`ExecutionClients` lets a behaviour have one client or the other (`side`); a
client sends the server nothing that another would notice, so nothing is lost.

Simplified: node states and the response shown beside the lines follow the
same events; one backend process (the broadcaster keeps its subscriptions in
memory); whether a token may subscribe is an outcome of opening the socket.

### FolderTree

`parent` is `Folder.parentId` and `Workflow.folderId`; `repo` the manifest that
`GitService.push` stored. `job[r]` is what request `r` has read and is about to
write: `MoveRead` (46-53, with the walk over the descendants) and `MoveWrite`,
`DeleteRead` and `DeleteWrite` (one transaction that moves children and workflows
to the parent), `CreateRead` and `CreateWrite`, `PullRead` and then `PullFolder`
and `PullWorkflow`, one row a step and parents before children
(`_topoSortFolders`). The place `walk` is a walk over a cycle: it has no step out
of it. `clean` and `overlapped` are history: a request wrote although another one
had written a folder since it read. That is coarse, any folder write of another
request counts. A push is one step; names, environments and the old layout of the
repository are left out.

### Membership

`account` is `User.role`, `member` the `OrgMember` row of each user in the modelled
organisation with the invite that made it (`via`, which stands for the row's id:
a row that was removed and made again is another row), `invites` the `OrgInvite`
rows in the order of their creation.

| Request | Places of `job[r]` |
|---|---|
| `signup` 94-166, `ensureAdminExists` 23-59 | `create` (the users were counted), `found` |
| `deleteUser` 254-301 | `users`, `superadmins`, `erase` |
| `updateMemberRole` 293-329, `removeMemberFromOrg` 267-290 | `owners`, `write` |
| `createInvite` 50-125 | `existing`, `replace`, `issue` |
| `acceptInvite` 150-191, `acceptInviteById` 210-258 | `accept`, or `drop` when it has expired |
| `declineInvite`, `declineInviteById`, `revokeInvite` | `drop` |

`basis` is what the check found (in `deleteUser` first the role that was read, then
the superadmins that were counted), and `overtaken` the kinds of check that were
acted upon when the tables said otherwise. The transaction of an acceptance
(upsert and delete) is one step that happens or does not; the transaction of a
signup is two, since at the database's default isolation its count sees only
what was committed before and does not keep others from inserting. `AddUser` is
`createUser`, one insert by anyone with a token, with the role that is asked for.

Simplified: one organisation; an address signs up once; who may ask for a change
is the routes' and left out; a deletion of an account may fail while any invite
is open (the user may be the one who sent it). `addMemberToOrg` has no callers.

### PackageCache

`meta` and `modules` are `.cache-meta.json` and `node_modules` (or `venv`) as the
file system has them, `inflight` the entry of the map `inflightInstalls`. A call
reads the entry (`MetaRead`), looks at what it read (`MetaChecked`), reads the
directory (`ModulesRead`), and after a hit uses it or after a miss joins or
registers an install (`JoinOrInstall`, in the turn of the event loop that ends the
check). The install is `Starts` (pip removes the venv first), `ToolWrites`,
`ToolSucceeds`, `MetaTruncated` and `MetaWritten` (a `writeFile` empties the file
and then fills it), or `Fails` at any of them. `repeats` is a list that names a
package twice: the entry is then never valid, since a set is compared with a
list. `redundant` is history: an install began although the entry was valid, after
a check that had begun before.

### EditorDocument

`store` is `useWorkflowStore`; `rows` the workflows' rows. A button starts a call
in a place of `call`: Save and the guard one request, Run up to three (save,
activate, start), Activate up to two, Stop cancel and deactivate, opening one. A
request is `sent`, then the server handles it and it is `answered`, then the
answer is applied to the store (`Loaded`, `Saved`, `StatusSet`, `Started`,
`Cancelled`) and the next request is sent. Nothing cancels a call when its page is
left: its answers change the store of the next page, which is the history variable
`crossed`. `raced` says that the template was changed while a call was under way,
`overlap` that two calls of a page overlapped.

`Measured` is the canvas: xyflow reports the sizes of nodes it renders for the
first time as changes, and `onNodesChange` marks the document as changed. Until
then (`fresh`) an import counts as unchanged. A template is told apart by its
document and the edit that made it; name, tags and key go the same way and are left
out.

## 4. Runs

| Run | Shows | Bounds |
|---|---|---|
| `interpreter` | nodes run once, no branch is lost, the right answer is returned, the refinement, and termination | 15 chosen templates and 876 arrangements of three edges between a switch, a join and a node (cycles, self loops, parallel edges); two buffered signals |
| `stop_claim` | a stop node does not end the run while other branches are queued | same |
| `lifecycle` | safety of the record, `CancelEndsRun` | all three origins, two cancelling requests, two attempts |
| `cancel_claim` | a record is marked cancelled while its run goes on | one cancelling request |
| `webhook` | requests keep their run, are handled once, are lost only to another request's run, and are answered | two requests, one manual start, every call failing |
| `triggers` | the stores agree after undisturbed requests; a deactivation or an activation that runs alone restores them after any history | four requests, three templates, one path taken |
| `sync_claim` | an update leaves the old template in the schedule | three requests |
| `folders` | the folders stay a forest, the page shows all of them and every request ends, unless a check was overtaken | every tree of at most three folders, a workflow, two requests at a time, four in all |
| `clients` | the editor's lines are its execution's, its backfills leave no gap, it stays connected and comes to show the end; the SDK's call loses no wake-up, returns, and what it returns is explained | two executions with a line each; one with two lines and a fault; one with three lines |
| `members` | the organisation keeps an owner, an invite makes one membership of an outsider, unless a check was overtaken; the last superadmin goes only when another one was counted | three users, two requests at a time, four in all, two invites; from nobody and from every organisation with an owner |
| `package_cache` | installs exclude each other, what is handed out is whole, calls are answered | three activities, four calls, one crash, npm and pip, with and without a repeated package |
| `editor` | what is shown as saved is stored, documents keep to their rows, Run runs what is shown, the badge is right | two openings, one existing workflow and one new, an edit or import, three buttons with two calls at a time, one failing request |

`TidNamesRun`, `RunHasRecord`, `OwnPayload`, `EndpointsBelong` and `JoinedOnce` are parts
of the invariants `LifecycleInvariant`, `InboundInvariant`, `TriggersInvariant` and
`MembershipInvariant`; the runs check them there, and section 5 proves each by name.

Why the bounds are enough. The interpreter's properties concern a node, the
edges into it and the order of two completions: a join of two branches with
parallel edges, self loops and a cycle through it shows every relation that
arrivals, queue and completed nodes can have; the proofs remove the bound. In the
lifecycle a second cancelling request can delete what the first has marked, and
a second attempt makes a late PATCH possible; a third of either repeats these.
Inbound requests meet in pairs: at one run, or one that signals and one whose
run is found; the manual start gives a run that waits for both. Four requests on
a workflow are one that creates it, two that race and one that runs alone
afterwards; the templates differ in paths and expression, one has both, and one
has a path that conflicts. Cycles of folders need two moves at a time, a
deletion between them makes the third case, and three folders give a chain in
which child, parent and grandparent differ. A view meets a second execution only
after the first is over, so two executions show every leftover of the first; a
fault (a lost socket, a failed start or backfill) needs lines before and after
it. Two owners demoted at a time need a third user to be neither; an invite that
is replaced needs two invites and three requests; two superadmins deleted at a time
need two requests. Of three activities one installs,
one waits for it and one has read before it; the fourth call comes after the crash.
Two openings show every leftover of the first; two calls overlap in every order,
and one edit makes two templates that their requests can carry. The editor's run
stops at `crossed`, after which all its properties except what happens.

Fairness. `FairSpec` of the interpreter assumes weak fairness of `Worker` alone:
workers poll, activities have `startToCloseTimeout` and a bounded number of
attempts, timers are durable. Child workflows have no timeout in the code and
are not assumed to close: `Terminates` excepts a run that waits for one.
`FairSpec` of the lifecycle assumes weak fairness of the worker's steps,
among them the timeout of an attempt and the rejection of an await by a
cancellation; requests, the backend and the starter may stop anywhere.
The status write of a run that threw is a step of the worker like any other; after it
the run is wedged (section 6) and `CancelEndsRun` excepts it.
`FairSpec` of `WebhookInbound` assumes weak fairness of `Inbound(r)` for each request: a
call returns or throws and the timer of the wait fires; the workers are not
assumed to do anything. `WorkflowTriggers` and `Membership` have no liveness
property: a request may stop at any call.
`FolderTree` assumes weak fairness of each request that has begun (a call of the
database returns or throws); a walk over a cycle has no step to be fair to.
`ExecutionClients` assumes weak fairness of the server's and the browser's steps
(`ViewFairness`), of the worker where the editor's `ShowsTheEnd` waits for its
writes, and of the SDK's steps, its timer included (`WatchFairness`). For
`CallReturns` nothing is assumed of the worker: the deadline ends the wait.
`PackageCache` assumes that file operations return and that the tool ends, by its
timeout of at most 60 seconds (`pkg_cache.ts:265`). The editor's run has no liveness.
Opening the SDK's socket has no deadline in the code; it is assumed that a
connection succeeds or fails.

Deadlock checking is off: a closed run and a settled record really stop.

## 5. Proofs

All theorems hold for every value of the constants, from the assumptions named
in the modules (`TemplateAssumption`, `MaxSignalsAssumption`,
`OriginsAssumption`, `MaxAttemptsAssumption`, `NamesAssumption`, `OutcomesAssumption`,
`IdsAssumption`, the assumptions on `None`, and
`TemplatesAssumption`, the bounds' assumptions, and in `Membership` that the users
are finitely many).

*GraphInterpreter.* `QueueInvariant` is inductive. `NodeRunsOnce` alone is not: a
step adds a node to `completed`, and only "a queued entry stands for a root or a
followed edge" and "the node being run has not completed" show it new.
`NothingStranded` needs that every reached node has completed, is running, is
queued, or is a join short of branches (`NothingLost`), which in turn needs that
the sources of the edges into a join have arrived or are queued
(`ArrivalsAccounted`). The refinement uses the invariant to map
every step to a step of `DataflowRun` or a stutter: `Begin` and `Drop` stutter,
`FinishNode` is `RunNode` (the arrivals counted by the queue are those counted
in `followed`), `Finish` is `Complete` because the queue is empty and nothing is
lost. `CausalOrder` and `JoinWaitsForBranches` are proved with a history invariant
over the order of completion; TLC checks the refinement instead of them.
`ReturnsLatestResponse` speaks of the last answering node and the code of the last
output that carries an answer. `AnswersOwned` makes them the same: an answering node
that completed carries its own data, and no other node carries it, because a
pass-through node copies from the source of a followed edge. `FinalStands` adds that
nothing completes after the output was computed.

*ExecutionLifecycle.* `LifecycleInvariant` adds to the properties the order of the
starting requests (`StartOrder`, `AutoRecordFirst`), that an unsent write has an
attempt left, and that the output is stored before the worker is told so
(`StoredBeforeCompleted`): without it `CompletedRunWasRecorded` does not survive
the step that closes the run. `RecordAgrees` speaks of a closed run only; inductive is
`WritesAnswered`: without faults and cancellations the only PATCH under way is the one
that the worker waits for, only a deleted record refuses it, and the record says what
the worker knows to be written (`Reflects`), unless the starting or a cancelling
request wrote last.

*WebhookInbound.* `InboundInvariant` makes `OwnPayload` and `HandledOnce` inductive:
a request that was signalled has its target and starts no run of its own unless
a call failed, and a run that a request started has that request's payload from
its start. `DeliveryInvariant` proves `LostOnlyToAnother`: without a failed call an
accepted request is in the inbox of its run, or the run has a payload
(`AcceptedIsDelivered`), and no step takes that back. It needs that a run without a
payload still waits for one or has given up (`PayloadlessRuns`), and that only a
handler that is done has answered (`HandlersInOrder`).

*WorkflowTriggers.* `TriggersInvariant` adds to `DeactivationSilences` and
`EndpointsBelong` that a request that is alone stays so until another begins
(`AloneIsAlone`), what a deactivation has done when it is at each of its places
(`OnCourse`), and that the rows a request holds exist (`HeldExist`), without which
an UPDATE could revive an endpoint of a deleted workflow. One lemma (`OwnStep`)
carries the argument: while `q` is under way nobody else is alone, so no step of
`q` undoes what another relies on. `RequestsInvariant` proves `ActivationRepairs` and
`StoresAgree`: at each place a request that is alone finds its own earlier calls
done (`FindsItsWork`); in a history without trouble it also found row, endpoints and
schedule in agreement when it began (`FindsAgreement`).

*ExecutionClients.* The theorems are about `ClientsSpec`, the composition that the run
checks. `EditorInvariant` ties the hook to the store (`HookFollows`: no socket
and no timer of an execution that was left). With it a view that says `running`
always has a socket or a timer (`NeverDeaf`), because only a terminal status keeps
`Closed` from setting the timer, and no line of another execution comes over the
socket (`OwnLines`). `BackfillLeavesNoGap` needs `LinesInvariant`, where each line of
the socket is between server and view: lines wait in the socket in the order in
which they were stored (`NetInOrder`), a live line goes on where the backfill that was
read ends (`BackfillContinues`), or where the lines shown end (`ViewContinues`).
For the SDK's call `WatchInvariant` adds to `NoLostWakeup` and `ReturnExplained` that a
terminal event in the socket or in the queue is one that the worker wrote, and that
without one only a lost socket ends the watch (`WatchesTheWorker`).

*EditorDocument.* `EditorInvariant` is `Structure` (which calls can be under way and
where, in each state of the page) and, as long as no answer of a page that was left
has changed the next one (`crossed`), three parts: a call of the page is about the
document it was made for and the rows keep their documents (`KeepsToDocument`); what
was sent and what is shown as saved are the template on the canvas, unless it was
changed meanwhile (`SavesWhatIsShown`); and, when calls neither overlap nor fail, the
badge is right but for the answer under way (`ShowsStatus`). `CleanMeansStored`,
`DocumentInvariant`, `ActiveShown` and the action property `RunsWhatIsShown` follow.

*PackageCache.* `CacheInvariant` is inductive. `GivenWhole` needs `DirectoryInvariant`:
after the tool has succeeded the modules are whole until another install begins, an
entry that is fresh is one of whole modules, and an install is not under way below
a fresh entry unless it is recorded as redundant.

*FolderTree.* `FolderInvariant` says that what a request has read is still so while
it is `clean` (`CleanReads`): a clean move still goes to a folder that is not below
the moved one, and then moving it closes no cycle (`MoveAcyclic`). A deletion moves
the children to the parent it has read, and a pull writes a folder after its parent:
`PullsStayInPlan` says that what is written follows the manifest, which is a forest
because a push stored it. `AllShown` is that in a forest every folder is below none.

*Membership.* `OwnerStays` is not inductive: a write must know that it leaves an
owner. `WritesKnow` says that a request about to write found, besides the member, a
second owner, or wrote no owner, or makes one; if the owners are still those that it
found, one stays. The action property `SuperadminStays` needs that a request past the
checks of `deleteUser` is about a user who is no superadmin, or has counted two
(`ErasesKnow`), and that nobody who has an account becomes superadmin later; when the
last superadmin goes, the other one who was counted is gone. `JoinedOnce` and `InvitesAreForOutsiders`
need each other: at most one invite of a user is open, so accepting it leaves none.

Only model-checked: `Terminates`, `CancelEndsRun`, `EveryRequestAnswered`,
`RequestsEnd`, `ShowsTheEnd`, `CallReturns` and `CallsEnd`: liveness under fairness is
beyond the prover. Every proved module's `TypeOK` is part of its inductive invariant.

## 6. Observed and not modelled as a run

* A custom node in http mode without a template throws a plain `Error`
  (`GraphInterpreter.ts:1091`). The catch blocks log it and write `failed` (3189-3215,
  3277-3285), then the throw fails the workflow task, which Temporal retries for ever:
  the record says `failed` (`running` when the write did not come through) and the run
  stays open. `cancelExecution` finds a terminal row, deletes it and does not cancel the
  run (`ExecutionService.ts:358-364`). A parent that awaits such a child stays open as
  well, its record `running`. The models have the state `wedged` for both, and
  `ExecutionLifecycle` the write before it (`throw`).
* A loop node follows `done` and never `body` (1856-1890).
* An AND-join counts distinct source nodes while `branchCount` is documented per
  incoming branch (`workflow.ts:322`): two edges from one node count once.
* `subflow_output` is said to terminate the child's traversal (1267) and does not.
* "The last terminal output node wins" (3230) fails when a pass-through node copies
  an older response and completes later; only templates saved through the API
  can contain that, so `ReturnsLatestResponse` assumes `AnswersAreTerminal`.
* The write of status `cancelled` (3263) runs in the cancelled scope and never
  reaches the backend; the record's `cancelled` comes from `cancelExecution`.
* `WorkflowExecutionAlreadyStartedError` (`ExecutionService.ts:108`) cannot occur
  for an id that contains the new row's id and is left out.
* An update that read `active` and is overtaken by a deactivation creates the
  schedule and live endpoints of an inactive workflow (`WorkflowService.ts:746-783`);
  the next deactivation removes them (`DeactivationSilences`). `StoresAgree` is
  stated for requests that do not overlap.
* A path conflict answers 409 after the row and the schedule were written: the
  created workflow stays, and so does the schedule of a draft whose activation
  failed.
* `deleteWorkflow` leaves the Temporal schedule (796-801).
* `subworkflow_call` starts its child without an `environmentId`
  (`GraphInterpreter.ts:1331-1336`).
* A switch without a matching case and without a default label (the form clears it
  to undefined, `SwitchForm.tsx:90`) produces the handle `""` (1199), which line 3171
  reads as unconditional: the edges of all its cases are followed, against the comment
  at 3169. `GraphInterpreter` does the same.
* A run that has ended before `startExecution` writes `running`
  (`ExecutionService.ts:90-98`) is set back to `running`, and nobody writes its record
  again, although `cancelExecution` takes a terminal status for the end (356-358).
  `RecordAgrees` excepts it.
* `handleInbound` means to "Signal a waiting execution if one exists"
  (`WebhookService.ts:488`) and takes any running one: a run that a request started never
  reads the signal, and the second caller gets the first one's answer.
  `LostOnlyToAnother` says that a request is lost in no other way.
* A cancellation is never broadcast: the view of an execution that was cancelled
  elsewhere stays `running`. `ShowsTheEnd` excepts it.
* A backfill that was read before the end and applied after it puts the view back
  to `running` (`useExecutionSocket.ts:343`); one that fails after the end leaves it
  there (391); one of an earlier execution is applied to the view of the next and may
  close its socket. Lines of a backfill are dropped when a live line came first (351),
  and a line can be shown twice. These are the exceptions `overtaken`, `missed` and
  `crossed`.
* Stop pressed on an execution that has just ended deletes its record.
* `watchExecution` ends without a terminal event when the socket closes, against the
  comment "`watch` always yields a terminal event before stopping"
  (`executions.ts:111`); the call then ends in `TriggerTimeoutError`. So it does when
  the end was broadcast before the subscription: the SDK reads nothing back.
* Two moves at a time can close a cycle although `moveFolder` checks for it
  (`FolderService.ts:47`), and a deletion between the two calls of a move can make a
  folder its own parent. On a cycle `_collectDescendantIds` never ends,
  `buildFolderPaths` overflows the stack, and the page shows none of its folders. A
  pull checks for no cycle and needs none: it writes parents first.
* Two demotions, or a demotion of a member who was made owner after it was read,
  can leave an organisation without an owner (`OrganizationService.ts:277, 309`);
  deleting an owner's account does so without any check (`UserService.ts:295`, the
  memberships cascade).
* Two first signups can both become superadmin: the comment at `UserService.ts:130-132`
  says that the transaction prevents it, which at read committed it does not.
* `createUser` stores the role of the request's body as it is (`auth.ts:667-673`,
  `UserService.ts:212-218`), `superadmin` too, though its type names only admin and
  editor; and the master token, which needs no account (`middleware/auth.ts:37-49`), can
  add an editor first, after which no signup becomes superadmin. There can be none, one
  or several: `AddUser` does the same, and no property says that there is one.
* Two deletions of superadmins that count each other leave none, against "Cannot delete
  the last superadmin" (`UserService.ts:252`). `SuperadminStays` says that the last one
  goes in no other way.
* A signup whose `createOrgWithOwner` fails leaves the account; the next login makes
  the organisation (`auth.ts:77`).
* An invite created while its user accepts an earlier one stays open for a member;
  accepting it changes no role.
* An expired list is installed over modules that a running script may be using; an
  install that was not needed and fails leaves them partial under a valid entry. A
  list that names a package twice is installed anew by every call. A call that read the
  entry while it was written installs it again after the first install has
  unregistered (`pkg_cache.ts:56-61`), against the comment that npm runs once per set
  and window (38-39).
* An edit made after Save has read the template is marked as saved when the answer comes
  (`workflowStore.ts:767`), and the guard lets it go: the exception `raced`.
* Run activates the new workflow that it creates, and Stop does not take that back
  (`Toolbar.tsx:212, 278`).
* The AI builder's "New + Existing Nodes" loads the result and navigates to
  `/editor/new` (`AiBuilderPanel.tsx:107-110`), whose effect resets the store: from an
  unchanged document the result is gone.
* Save and Run of a new workflow at the same time create two workflows. Stop and a
  second Run before the answer leave the workflow active, since Run stores the status
  of the first Run's activation. After leaving during a save its answer gives the next
  document the id of the first (`crossed`): the next save overwrites the wrong row.

Not modelled, and why: see the `components` of `PROJECT.json`. In short:
integration activities are calls of third-party services, whose outcomes are choices
in `GraphInterpreter`; the configuration services, tags, tokens and settings are
single statements on a row; drawing is user interface state; git beyond the folders,
mail and deployment are I/O. The worker's
`workflow_trigger` activity makes one call of `startExecution` an attempt, and a
lost reply starts a second execution, which nothing in the code relates to the first.
