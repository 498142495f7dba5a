------------------------- MODULE ExecutionLifecycle -------------------------
(***************************************************************************)
(* One execution and everybody who writes its record: the request that     *)
(* starts it (ExecutionService.startExecution, or the prepare handler and  *)
(* the parent workflow, or a Temporal schedule), the worker that runs      *)
(* graphInterpreterWorkflow and reports its status through PATCH requests, *)
(* and the requests that cancel or delete it.                              *)
(*                                                                         *)
(* The record is a row in Postgres, the run an execution in Temporal; no   *)
(* transaction spans the two.  A prisma call is one atomic step.  The      *)
(* nodes of the run are GraphInterpreter's business: here they end, fail,  *)
(* are cancelled or never return.  Rows left behind by a creating request  *)
(* whose reply was lost belong to no run and are not part of this state.   *)
(***************************************************************************)
EXTENDS Naturals

CONSTANTS
  Origins,      \* who starts the execution: among "api", "parent", "schedule"
  Cancellers,   \* requests of DELETE /executions/:id
  MaxAttempts   \* retry.maximumAttempts of the status activity

ASSUME OriginsAssumption     == Origins \subseteq {"api", "parent", "schedule"}
ASSUME MaxAttemptsAssumption == MaxAttempts \in Nat \ {0}

VARIABLES
  origin,           \* who starts this execution
  record,           \* the row: "absent", "present" or "deleted"
  row,              \* its status, temporalWorkflowId (set or not), output (set or not)
  starter,          \* where the starting request is
  run,              \* how the Temporal run stands
  cancelRequested,  \* Temporal has recorded a cancellation of the run
  phase,            \* where the workflow function is
  call,             \* the current attempt of its status write
  attempt,          \* number of that attempt
  patches,          \* PATCH requests on their way to the backend
  canceller,        \* where each cancelling request is
  faulty,           \* history: something was lost, timed out or crashed
  lastWriter        \* history: who wrote the row's status last

store  == <<record, row, lastWriter>>
worker == <<phase, call, attempt>>
vars   == <<origin, store, starter, run, cancelRequested, worker, patches,
            canceller, faulty>>

Terminal == {"completed", "failed", "cancelled", "timed_out"}
Status   == {"pending", "running"} \cup Terminal
Patch    == [status : {"running", "completed", "failed"}, attempt : 1 .. MaxAttempts]

Present == record = "present"

-----------------------------------------------------------------------------
Init ==
  /\ origin \in Origins
  /\ record = "absent"
  /\ row = [status |-> "pending", tid |-> FALSE, output |-> FALSE]
  /\ starter = IF origin = "schedule" THEN "start" ELSE "create"
  /\ run = "none"
  /\ cancelRequested = FALSE
  /\ phase = "none"
  /\ call = "idle"
  /\ attempt = 0
  /\ patches = {}
  /\ canceller = [c \in Cancellers |-> "idle"]
  /\ faulty = FALSE
  /\ lastWriter = "none"

Insert ==
  /\ record' = "present"
  /\ UNCHANGED <<row, lastWriter>>

\* prisma.execution.update: an error when the row is not there.
Update(writer, changed) ==
  /\ Present
  /\ row' = changed
  /\ lastWriter' = writer
  /\ UNCHANGED record

NoUpdate == ~ Present /\ UNCHANGED store

-----------------------------------------------------------------------------
(* The starting request. *)
CreateRecord ==
  /\ starter = "create"
  /\ \/ Insert /\ starter' = "start"
     \/ UNCHANGED store /\ starter' = "done"   \* inactive, absent, not a subworkflow
  /\ UNCHANGED <<origin, run, cancelRequested, worker, patches, canceller, faulty>>

\* The worker picks the new run up.
OpenRun ==
  /\ run' = "open"
  /\ phase' = IF origin = "schedule" THEN "record" ELSE "vars"
  /\ UNCHANGED <<call, attempt>>

\* temporal.workflow.start, executeChild, or the schedule firing.
TemporalStart ==
  /\ starter = "start"
  /\ OpenRun
  /\ starter' = IF origin = "api" THEN "update" ELSE "done"
  /\ UNCHANGED <<origin, store, cancelRequested, patches, canceller, faulty>>

\* The call throws, whether or not Temporal has started the run.
TemporalStartFails ==
  /\ starter = "start"
  /\ origin = "api"
  /\ OpenRun \/ UNCHANGED <<run, worker>>
  /\ starter' = "fail"
  /\ faulty' = TRUE
  /\ UNCHANGED <<origin, store, cancelRequested, patches, canceller>>

\* The parent fails or is cancelled before it starts the child.
ParentGivesUp ==
  /\ starter = "start"
  /\ origin = "parent"
  /\ starter' = "done"
  /\ UNCHANGED <<origin, store, run, cancelRequested, worker, patches,
                 canceller, faulty>>

\* The UPDATE after the start looks at nothing the row has become meanwhile.
RecordStarted ==
  /\ starter = "update"
  /\ \/ /\ Update("start", [row EXCEPT !.status = "running", !.tid = TRUE])
        /\ starter' = "done"
        /\ UNCHANGED faulty
     \/ NoUpdate /\ starter' = "fail" /\ UNCHANGED faulty
     \/ UNCHANGED store /\ starter' = "fail" /\ faulty' = TRUE
  /\ UNCHANGED <<origin, run, cancelRequested, worker, patches, canceller>>

\* The catch block; its own UPDATE may throw as well.
MarkFailed ==
  /\ starter = "fail"
  /\ Update("start", [row EXCEPT !.status = "failed"]) \/ UNCHANGED store
  /\ starter' = "done"
  /\ UNCHANGED <<origin, run, cancelRequested, worker, patches, canceller, faulty>>

\* The backend process dies between two steps of startExecution.
StarterCrashes ==
  /\ origin = "api"
  /\ starter \in {"start", "update", "fail"}
  /\ starter' = "done"
  /\ faulty' = TRUE
  /\ UNCHANGED <<origin, store, run, cancelRequested, worker, patches, canceller>>

-----------------------------------------------------------------------------
(* The workflow function. *)
Close(result) ==
  /\ run' = result
  /\ phase' = "closed"
  /\ UNCHANGED <<call, attempt>>

GoTo(next) ==
  /\ phase' = next
  /\ call' = "idle"
  /\ attempt' = 0
  /\ UNCHANGED run

\* createExecutionRecordActivity of a scheduled run: all attempts may fail.
AutoRecord ==
  /\ phase = "record"
  /\ \/ Insert /\ GoTo("vars") /\ UNCHANGED faulty
     \/ UNCHANGED store /\ Close("failed") /\ faulty' = TRUE
  /\ UNCHANGED <<origin, starter, cancelRequested, patches, canceller>>

\* resolveVariablesActivity, outside the try: nobody reports its failure.
ResolveVariables ==
  /\ phase = "vars"
  /\ \/ GoTo("boot") /\ UNCHANGED faulty
     \/ Close("failed") /\ faulty' = TRUE
     \/ cancelRequested /\ Close("cancelled") /\ UNCHANGED faulty
  /\ UNCHANGED <<origin, store, starter, cancelRequested, patches, canceller>>

\* Mutant: the catch around the nodes swallows the cancellation and goes on.
RunNodesThroughCancel ==
  /\ phase = "nodes"
  /\ \/ ~ cancelRequested /\ (GoTo("complete") \/ GoTo("fail"))
     \/ cancelRequested /\ UNCHANGED <<worker, run>>
  /\ UNCHANGED <<origin, store, starter, cancelRequested, patches, canceller, faulty>>

\* The nodes all ran, one failed, or the cancellation rejected an await.
RunNodes ==
  /\ phase = "nodes"
  /\ \/ GoTo("complete")
     \/ GoTo("fail")
     \/ cancelRequested /\ Close("cancelled")
  /\ UNCHANGED <<origin, store, starter, cancelRequested, patches, canceller, faulty>>

\* A task of the workflow that fails is retried for ever: the run stays open.
Wedged == phase' = "wedged" /\ UNCHANGED <<run, call, attempt>>

\* A plain Error in the workflow code: the catch blocks write "failed" before
\* they throw it again, which fails the workflow task and not the run.
ThrowsPlainError ==
  /\ phase = "nodes"
  /\ GoTo("throw")
  /\ UNCHANGED <<origin, store, starter, cancelRequested, patches, canceller, faulty>>

\* A child that is wedged never returns to the parent that awaits it.
AwaitsWedgedChild ==
  /\ phase = "nodes"
  /\ Wedged
  /\ UNCHANGED <<origin, store, starter, cancelRequested, patches, canceller, faulty>>

-----------------------------------------------------------------------------
(* updateExecutionStatusActivity, retried up to MaxAttempts times. *)
Writing == phase \in {"boot", "complete", "fail", "throw"}

Reported == CASE phase = "boot"     -> "running"
              [] phase = "complete" -> "completed"
              [] OTHER              -> "failed"

\* A cancelled scope schedules no activity.
SendPatch ==
  /\ Writing /\ call = "idle"
  /\ ~ cancelRequested
  /\ patches' = patches \cup {[status |-> Reported, attempt |-> attempt + 1]}
  /\ attempt' = attempt + 1
  /\ call' = "sent"
  /\ UNCHANGED <<origin, store, starter, run, cancelRequested, phase, canceller, faulty>>

AttemptTimesOut ==
  /\ Writing /\ call = "sent"
  /\ call' = "error"
  /\ faulty' = TRUE
  /\ UNCHANGED <<origin, store, starter, run, cancelRequested, phase, attempt,
                 patches, canceller>>

Retry ==
  /\ Writing /\ call = "error"
  /\ attempt < MaxAttempts
  /\ call' = "idle"
  /\ UNCHANGED <<origin, store, starter, run, cancelRequested, phase, attempt,
                 patches, canceller, faulty>>

WriteSucceeds ==
  /\ Writing /\ call = "ok"
  /\ \/ phase = "boot" /\ GoTo("nodes")
     \/ phase = "complete" /\ Close("completed")
     \/ phase = "fail" /\ Close("failed")
     \/ phase = "throw" /\ Wedged
  /\ UNCHANGED <<origin, store, starter, cancelRequested, patches, canceller, faulty>>

\* Mutant: the write of the result is best-effort, like that of the start.
WriteFailsQuietly ==
  /\ Writing /\ call = "error" /\ attempt = MaxAttempts
  /\ \/ phase = "boot" /\ GoTo("nodes")
     \/ phase = "complete" /\ Close("completed")
     \/ phase = "fail" /\ Close("failed")
     \/ phase = "throw" /\ Wedged
  /\ UNCHANGED <<origin, store, starter, cancelRequested, patches, canceller, faulty>>

\* "running" and "failed" are best-effort, and what was caught is thrown again;
\* a result that cannot be stored fails the run.
WriteFails ==
  /\ Writing /\ call = "error" /\ attempt = MaxAttempts
  /\ \/ phase = "boot" /\ GoTo("nodes")
     \/ phase = "complete" /\ GoTo("fail")
     \/ phase = "fail" /\ Close("failed")
     \/ phase = "throw" /\ Wedged
  /\ UNCHANGED <<origin, store, starter, cancelRequested, patches, canceller, faulty>>

\* The cancellation rejects the activity; a request on its way stays there.
\* The write of "cancelled" that follows is rejected at once by the same scope.
WriteRejected ==
  /\ Writing /\ cancelRequested
  /\ \/ phase = "boot" /\ GoTo("nodes")
     \/ phase = "complete" /\ Close("cancelled")
     \/ phase = "fail" /\ Close("failed")
     \/ phase = "throw" /\ Wedged
  /\ UNCHANGED <<origin, store, starter, cancelRequested, patches, canceller, faulty>>

\* workflowExecutionTimeout or workflowRunTimeout: Temporal closes the run and
\* the workflow code does not run again.
RunTimesOut ==
  /\ run = "open"
  /\ Close("timed_out")
  /\ faulty' = TRUE
  /\ UNCHANGED <<origin, store, starter, cancelRequested, patches, canceller>>

-----------------------------------------------------------------------------
(* The backend's PATCH /internal/executions/:id/status. *)
Current(p) == /\ Writing /\ call = "sent"
              /\ p = [status |-> Reported, attempt |-> attempt]

\* The answer of the handler reaches the worker, or is lost, or is too late.
Reply(p, answer) ==
  \/ Current(p) /\ call' = answer /\ UNCHANGED faulty
  \/ UNCHANGED call /\ faulty' = (faulty \/ Current(p))

Reporting(p) == [row EXCEPT !.status = p.status,
                            !.output = @ \/ p.status = "completed"]

\* Mutant: upsert instead of update.
PatchHandledByUpsert(p) ==
  /\ p \in patches
  /\ patches' = patches \ {p}
  /\ record' = "present" /\ row' = Reporting(p) /\ lastWriter' = "worker"
  /\ Reply(p, "ok")
  /\ UNCHANGED <<origin, starter, run, cancelRequested, phase, attempt, canceller>>

\* Mutant: a record that has been started is not updated any more.
PatchHandledOnce(p) ==
  /\ p \in patches
  /\ patches' = patches \ {p}
  /\ \/ /\ Update("worker", IF row.status = "running" THEN row ELSE Reporting(p))
        /\ Reply(p, "ok")
     \/ NoUpdate /\ Reply(p, "error")
  /\ UNCHANGED <<origin, starter, run, cancelRequested, phase, attempt, canceller>>

PatchHandled(p) ==
  /\ p \in patches
  /\ patches' = patches \ {p}
  /\ \/ Update("worker", Reporting(p)) /\ Reply(p, "ok")
     \/ NoUpdate /\ Reply(p, "error")
  /\ UNCHANGED <<origin, starter, run, cancelRequested, phase, attempt, canceller>>

PatchLost(p) ==
  /\ p \in patches
  /\ patches' = patches \ {p}
  /\ faulty' = TRUE
  /\ UNCHANGED <<origin, store, starter, run, cancelRequested, worker, canceller>>

-----------------------------------------------------------------------------
(* ExecutionService.cancelExecution. *)
\* What the request does next depends on the row as it is now.
ReadExecution(c) ==
  /\ canceller[c] = "idle"
  /\ canceller' = [canceller EXCEPT ![c] =
       IF ~ Present THEN "done"
       ELSE IF row.status \in Terminal THEN "delete"
       ELSE IF row.tid THEN "cancel" ELSE "mark"]
  /\ UNCHANGED <<origin, store, starter, run, cancelRequested, worker, patches, faulty>>

\* handle.cancel(); whatever it throws is only logged.
CancelRun(c) ==
  /\ canceller[c] = "cancel"
  /\ \/ cancelRequested' = (cancelRequested \/ run = "open") /\ UNCHANGED faulty
     \/ UNCHANGED cancelRequested /\ faulty' = TRUE
  /\ canceller' = [canceller EXCEPT ![c] = "mark"]
  /\ UNCHANGED <<origin, store, starter, run, worker, patches>>

MarkCancelled(c) ==
  /\ canceller[c] = "mark"
  /\ Update("cancel", [row EXCEPT !.status = "cancelled"]) \/ NoUpdate
  /\ canceller' = [canceller EXCEPT ![c] = "done"]
  /\ UNCHANGED <<origin, starter, run, cancelRequested, worker, patches, faulty>>

\* The logs and then the row; an error when another request was first.
DeleteExecution(c) ==
  /\ canceller[c] = "delete"
  /\ \/ Present /\ record' = "deleted" /\ UNCHANGED <<row, lastWriter>>
     \/ NoUpdate
  /\ canceller' = [canceller EXCEPT ![c] = "done"]
  /\ UNCHANGED <<origin, starter, run, cancelRequested, worker, patches, faulty>>

\* deleteWorkflow deletes the rows of its executions with it, running or not.
DeleteWorkflow ==
  /\ Present
  /\ record' = "deleted"
  /\ UNCHANGED <<origin, row, lastWriter, starter, run, cancelRequested, worker,
                 patches, canceller, faulty>>

\* A parent that is cancelled cancels the child it awaits.
ParentCancels ==
  /\ origin = "parent" /\ run = "open"
  /\ cancelRequested' = TRUE
  /\ UNCHANGED <<origin, store, starter, run, worker, patches, canceller, faulty>>

-----------------------------------------------------------------------------
Start == CreateRecord \/ TemporalStart \/ TemporalStartFails \/ ParentGivesUp
           \/ RecordStarted \/ MarkFailed \/ StarterCrashes

Worker == AutoRecord \/ ResolveVariables \/ RunNodes
            \/ SendPatch \/ AttemptTimesOut \/ Retry
            \/ WriteSucceeds \/ WriteFails \/ WriteRejected

Throws == ThrowsPlainError \/ AwaitsWedgedChild

Backend == \E p \in Patch : PatchHandled(p) \/ PatchLost(p)

Cancel == (\E c \in Cancellers : \/ ReadExecution(c) \/ CancelRun(c)
                                 \/ MarkCancelled(c) \/ DeleteExecution(c))
            \/ DeleteWorkflow \/ ParentCancels

Next == Start \/ Worker \/ Throws \/ Backend \/ RunTimesOut \/ Cancel

Spec == Init /\ [][Next]_vars

\* The worker polls; its activities have timeouts; a cancelled run's awaits
\* are rejected.  Nothing else has to happen.
FairSpec == Spec /\ WF_vars(Worker)

-----------------------------------------------------------------------------
TypeOK ==
  /\ origin \in Origins
  /\ record \in {"absent", "present", "deleted"}
  /\ row \in [status : Status, tid : BOOLEAN, output : BOOLEAN]
  /\ starter \in {"create", "start", "update", "fail", "done"}
  /\ run \in {"none", "open", "completed", "failed", "cancelled", "timed_out"}
  /\ cancelRequested \in BOOLEAN
  /\ phase \in {"none", "record", "vars", "boot", "nodes", "complete", "fail",
                "throw", "closed", "wedged"}
  /\ call \in {"idle", "sent", "ok", "error"}
  /\ attempt \in 0 .. MaxAttempts
  /\ patches \subseteq Patch
  /\ canceller \in [Cancellers -> {"idle", "cancel", "mark", "delete", "done"}]
  /\ faulty \in BOOLEAN
  /\ lastWriter \in {"none", "start", "worker", "cancel"}

-----------------------------------------------------------------------------
(* Properties. *)
Closed == run \in Terminal

\* A temporalWorkflowId in the record names a run that Temporal has: whoever
\* reads it can cancel, signal or await that run.
TidNamesRun == row.tid => run # "none"

\* No node of a run is executed before its record exists, however the run
\* was started: logs and status always have a row to go to, or had one.
RunHasRecord ==
  phase \in {"boot", "nodes", "complete", "fail", "throw", "wedged"} => record # "absent"

\* A run that Temporal reports as completed has left its output in the
\* record, unless the record was deleted: lost replies, failing writes and
\* cancellations in between fail or cancel the run instead.
CompletedRunWasRecorded ==
  run = "completed" => record = "deleted" \/ (Present /\ row.output)

\* Without faults and cancellations of the run, the record of a run that
\* ended by itself has the run's status, unless startExecution's or
\* cancelExecution's UPDATE came after the worker's.
RecordAgrees ==
  (~ faulty /\ ~ cancelRequested /\ run \in {"completed", "failed"}) =>
    \/ record = "deleted"
    \/ row.status = run
    \/ lastWriter \in {"start", "cancel"}

\* A deleted execution stays deleted: a PATCH or an UPDATE that arrives late
\* does not bring it back.
DeletedStaysDeleted == [][record = "deleted" => record' = "deleted"]_vars

\* A cancellation that Temporal has recorded ends the run, in every phase,
\* unless the workflow code throws a plain Error, or awaits a child that did.
CancelEndsRun == cancelRequested ~> (Closed \/ phase = "wedged")
-----------------------------------------------------------------------------
(* The inductive invariant of the proofs. *)
\* The order of the starting requests: the record, the run, the ids.
StartOrder ==
  /\ starter = "create" => record = "absent" /\ origin # "schedule"
  /\ starter \in {"create", "start"} => run = "none"
  /\ starter = "start" /\ origin # "schedule" => record # "absent"
  /\ starter \in {"update", "fail"} => origin = "api" /\ record # "absent"
  /\ starter = "update" => run # "none"
  /\ run = "none" <=> phase = "none"

\* A scheduled run has no record before it has created one itself.
AutoRecordFirst ==
  /\ phase = "record" => origin = "schedule" /\ record = "absent"
  /\ origin = "schedule" /\ phase = "none" => record = "absent"
  /\ phase = "vars" => record # "absent"

\* A write that has not been sent has an attempt left.
AttemptsLeft == call = "idle" => attempt < MaxAttempts

\* The output is stored before the worker learns that it has been.
StoredBeforeCompleted ==
  (run = "completed" \/ (phase = "complete" /\ call = "ok")) =>
    record = "deleted" \/ (Present /\ row.output)

\* What startExecution, the worker and the PATCH handler keep true together.
LifecycleInvariant == /\ TypeOK
                      /\ TidNamesRun
                      /\ RunHasRecord
                      /\ StartOrder
                      /\ AutoRecordFirst
                      /\ AttemptsLeft
                      /\ StoredBeforeCompleted
=============================================================================
