---------------------- MODULE ExecutionLifecycleProofs ----------------------
(***************************************************************************)
(* For any set of origins, any number of cancelling requests and any       *)
(* number of attempts: LifecycleInvariant is inductive.  Its parts that    *)
(* are properties of their own follow, and an action property; with it     *)
(* WritesAnswered is inductive, and RecordAgrees follows.                  *)
(***************************************************************************)
EXTENDS ExecutionLifecycle, TLAPS

USE DEF Terminal, Status, Patch, Present

LEMMA InitEstablishes == Init => LifecycleInvariant
<1> SUFFICES ASSUME Init PROVE LifecycleInvariant
  OBVIOUS
<1> USE MaxAttemptsAssumption DEF Init
<1>1. starter \in {"create", "start"}
  BY Zenon
<1>2. TypeOK
  <2>1. cancelRequested \in BOOLEAN /\ faulty \in BOOLEAN
    BY Zenon
  <2> QED
    BY <1>1, <2>1, SMT DEF TypeOK
<1>3. StartOrder
  BY Zenon DEF StartOrder
<1>4. TidNamesRun /\ RunHasRecord
  BY SMT DEF TidNamesRun, RunHasRecord
<1>5. AutoRecordFirst /\ AttemptsLeft /\ StoredBeforeCompleted
  BY SMT DEF AutoRecordFirst, AttemptsLeft, StoredBeforeCompleted
<1> QED
  BY <1>2, <1>3, <1>4, <1>5 DEF LifecycleInvariant

\* The steps of the starting request.
LEMMA StartPreserves == LifecycleInvariant /\ Start => LifecycleInvariant'
<1> SUFFICES ASSUME LifecycleInvariant, Start PROVE LifecycleInvariant'
  OBVIOUS
<1> USE OriginsAssumption, MaxAttemptsAssumption
    DEF LifecycleInvariant, TypeOK, TidNamesRun, RunHasRecord, StartOrder,
        AutoRecordFirst, AttemptsLeft, StoredBeforeCompleted, store, worker
<1>1. CASE CreateRecord
  BY <1>1, SMT DEF CreateRecord, Insert
<1>2. CASE TemporalStart
  BY <1>2, SMT DEF TemporalStart, OpenRun
<1>3. CASE TemporalStartFails
  BY <1>3, SMT DEF TemporalStartFails, OpenRun
<1>4. CASE ParentGivesUp
  BY <1>4, SMT DEF ParentGivesUp
<1>5. CASE RecordStarted
  <2>1. faulty' \in BOOLEAN
    BY <1>5, Zenon DEF RecordStarted
  <2>2. CASE Update("start", [row EXCEPT !.status = "running", !.tid = TRUE])
    <3>1. /\ row' \in [status : Status, tid : BOOLEAN, output : BOOLEAN]
          /\ row'.output = row.output
      BY <2>2, Zenon DEF Update
    <3>2. starter' \in {"done", "fail"} /\ (starter' = "fail" => starter = "update")
      BY <1>5, Zenon DEF RecordStarted
    <3>3. UNCHANGED <<origin, run, cancelRequested, worker, patches, canceller>>
      BY <1>5 DEF RecordStarted
    <3>4. starter = "update" /\ Present /\ UNCHANGED record /\ lastWriter' = "start"
      BY <1>5, <2>2 DEF RecordStarted, Update
    <3>5. TypeOK'
      BY <2>1, <3>1, <3>2, <3>3, <3>4, SMT
    <3>6. TidNamesRun' /\ RunHasRecord' /\ StoredBeforeCompleted'
      BY <3>1, <3>3, <3>4, SMT
    <3> QED
      BY <3>2, <3>3, <3>4, <3>5, <3>6, SMT
  <2>3. CASE UNCHANGED store
    BY <1>5, <2>1, <2>3, SMT DEF RecordStarted
  <2> QED
    BY <1>5, <2>2, <2>3 DEF RecordStarted, NoUpdate
<1>6. CASE MarkFailed
  BY <1>6, SMT DEF MarkFailed, Update
<1>7. CASE StarterCrashes
  BY <1>7, SMT DEF StarterCrashes
<1> QED
  BY <1>1, <1>2, <1>3, <1>4, <1>5, <1>6, <1>7 DEF Start

\* The steps of the workflow function and of its status activity.
LEMMA WorkerPreserves ==
  LifecycleInvariant /\ (Worker \/ Throws \/ RunTimesOut) => LifecycleInvariant'
<1> SUFFICES ASSUME LifecycleInvariant, Worker \/ Throws \/ RunTimesOut
             PROVE  LifecycleInvariant'
  OBVIOUS
<1> USE OriginsAssumption, MaxAttemptsAssumption
    DEF LifecycleInvariant, TypeOK, TidNamesRun, RunHasRecord, StartOrder,
        AutoRecordFirst, AttemptsLeft, StoredBeforeCompleted, store, worker
<1>1. CASE AutoRecord
  <2>1. faulty' \in BOOLEAN
    BY <1>1, Zenon DEF AutoRecord
  <2> QED
    BY <1>1, <2>1, SMT DEF AutoRecord, Insert, GoTo, Close
<1>2. CASE ResolveVariables
  <2>1. faulty' \in BOOLEAN
    BY <1>2, Zenon DEF ResolveVariables
  <2> QED
    BY <1>2, <2>1, SMT DEF ResolveVariables, GoTo, Close
<1>3. CASE RunNodes
  BY <1>3, SMT DEF RunNodes, GoTo, Close
<1>4. CASE SendPatch
  <2>1. Reported \in {"running", "completed", "failed"}
    BY SMT DEF Reported
  <2>2. attempt + 1 \in 1 .. MaxAttempts
    BY <1>4, SMT DEF SendPatch
  <2> QED
    BY <1>4, <2>1, <2>2, SMT DEF SendPatch, Writing
<1>5. CASE AttemptTimesOut
  BY <1>5, SMT DEF AttemptTimesOut, Writing
<1>6. CASE Retry
  BY <1>6, SMT DEF Retry, Writing
<1>7. CASE WriteSucceeds
  BY <1>7, SMT DEF WriteSucceeds, Writing, GoTo, Close, Wedged
<1>8. CASE WriteFails
  BY <1>8, SMT DEF WriteFails, Writing, GoTo, Close, Wedged
<1>9. CASE WriteRejected
  BY <1>9, SMT DEF WriteRejected, Writing, GoTo, Close, Wedged
<1>10. CASE Throws
  BY <1>10, SMT DEF Throws, ThrowsPlainError, AwaitsWedgedChild, GoTo, Wedged
<1>11. CASE RunTimesOut
  BY <1>11, SMT DEF RunTimesOut, Close
<1> QED
  BY <1>1, <1>2, <1>3, <1>4, <1>5, <1>6, <1>7, <1>8, <1>9, <1>10, <1>11 DEF Worker

\* The PATCH handler and the requests that cancel or delete.
LEMMA OthersPreserve ==
  LifecycleInvariant /\ (Backend \/ Cancel) => LifecycleInvariant'
<1> SUFFICES ASSUME LifecycleInvariant, Backend \/ Cancel
             PROVE  LifecycleInvariant'
  OBVIOUS
<1> USE OriginsAssumption, MaxAttemptsAssumption
    DEF LifecycleInvariant, TypeOK, TidNamesRun, RunHasRecord, StartOrder,
        AutoRecordFirst, AttemptsLeft, StoredBeforeCompleted, store, worker
<1>1. ASSUME NEW p \in Patch, PatchHandled(p) PROVE LifecycleInvariant'
  <2>1. CASE Update("worker", Reporting(p)) /\ Reply(p, "ok")
    <3>1. row' \in [status : Status, tid : BOOLEAN, output : BOOLEAN]
      BY <2>1, Zenon DEF Update, Reporting
    <3>2. faulty' \in BOOLEAN
      BY <2>1, Zenon DEF Reply, Current
    <3>3. /\ row'.tid = row.tid
          /\ row.output => row'.output
          /\ p.status = "completed" => row'.output
      BY <2>1, Zenon DEF Update, Reporting
    <3>4. call' = "ok" /\ call # "ok" => p.status = Reported
      BY <2>1, SMT DEF Reply, Current
    <3>5. TypeOK'
      BY <1>1, <2>1, <3>1, <3>2, SMT DEF PatchHandled, Update, Reply
    <3>6. StoredBeforeCompleted'
      BY <1>1, <2>1, <3>3, <3>4, SMT DEF PatchHandled, Update, Reply, Reported
    <3> QED
      BY <1>1, <2>1, <3>3, <3>5, <3>6, SMT DEF PatchHandled, Update, Reply
  <2>2. CASE NoUpdate /\ Reply(p, "error")
    <3>1. faulty' \in BOOLEAN
      BY <2>2, Zenon DEF Reply, Current
    <3> QED
      BY <1>1, <2>2, <3>1, SMT DEF PatchHandled, NoUpdate, Reply
  <2> QED
    BY <1>1, <2>1, <2>2 DEF PatchHandled
<1>2. ASSUME NEW p \in Patch, PatchLost(p) PROVE LifecycleInvariant'
  BY <1>2, SMT DEF PatchLost
<1>3. ASSUME NEW c \in Cancellers, ReadExecution(c) PROVE LifecycleInvariant'
  BY <1>3, SMT DEF ReadExecution
<1>4. ASSUME NEW c \in Cancellers, CancelRun(c) PROVE LifecycleInvariant'
  <2>1. faulty' \in BOOLEAN /\ cancelRequested' \in BOOLEAN
    BY <1>4, Zenon DEF CancelRun
  <2> QED
    BY <1>4, <2>1, SMT DEF CancelRun
<1>5. ASSUME NEW c \in Cancellers, MarkCancelled(c) PROVE LifecycleInvariant'
  BY <1>5, SMT DEF MarkCancelled, Update, NoUpdate
<1>6. ASSUME NEW c \in Cancellers, DeleteExecution(c) PROVE LifecycleInvariant'
  BY <1>6, SMT DEF DeleteExecution, NoUpdate
<1>7. CASE DeleteWorkflow
  BY <1>7, SMT DEF DeleteWorkflow
<1>8. CASE ParentCancels
  BY <1>8, SMT DEF ParentCancels
<1> QED
  BY <1>1, <1>2, <1>3, <1>4, <1>5, <1>6, <1>7, <1>8 DEF Backend, Cancel

LEMMA StutterPreserves == LifecycleInvariant /\ UNCHANGED vars => LifecycleInvariant'
  BY SMT
  DEF vars, store, worker, LifecycleInvariant, TypeOK, TidNamesRun, RunHasRecord,
      StartOrder, AutoRecordFirst, AttemptsLeft, StoredBeforeCompleted

LEMMA NextPreserves == LifecycleInvariant /\ [Next]_vars => LifecycleInvariant'
  BY StartPreserves, WorkerPreserves, OthersPreserve, StutterPreserves DEF Next

\* The writers of the record keep their common invariant: see its parts.
THEOREM LifecycleInvariantHolds == Spec => []LifecycleInvariant
  BY InitEstablishes, NextPreserves, PTL DEF Spec

\* Every variable keeps its type.
THEOREM LifecycleTypes == Spec => []TypeOK
<1>1. LifecycleInvariant => TypeOK
  BY DEF LifecycleInvariant
<1> QED
  BY <1>1, LifecycleInvariantHolds, PTL

\* The id stored by startExecution always names a run that was started.
THEOREM StoredIdsNameRuns == Spec => []TidNamesRun
<1>1. LifecycleInvariant => TidNamesRun
  BY DEF LifecycleInvariant
<1> QED
  BY <1>1, LifecycleInvariantHolds, PTL

\* No node runs before the record of its execution exists.
THEOREM RecordBeforeNodes == Spec => []RunHasRecord
<1>1. LifecycleInvariant => RunHasRecord
  BY DEF LifecycleInvariant
<1> QED
  BY <1>1, LifecycleInvariantHolds, PTL

\* A completed run has its output in its record, or the record was deleted,
\* however many attempts were lost, late or rejected.
THEOREM CompletedIsRecorded == Spec => []CompletedRunWasRecorded
<1>1. LifecycleInvariant => CompletedRunWasRecorded
  BY DEF LifecycleInvariant, StoredBeforeCompleted, CompletedRunWasRecorded
<1> QED
  BY <1>1, LifecycleInvariantHolds, PTL

\* Nothing that arrives late brings a deleted record back.
THEOREM DeletionIsFinal == Spec => DeletedStaysDeleted
<1> USE DEF LifecycleInvariant, StartOrder, AutoRecordFirst, store, worker
<1>1. ASSUME LifecycleInvariant, [Next]_vars, record = "deleted"
      PROVE  record' = "deleted"
  <2>1. CASE Start
    BY <1>1, <2>1, SMT
    DEF Start, CreateRecord, TemporalStart, TemporalStartFails, ParentGivesUp,
        RecordStarted, MarkFailed, StarterCrashes, Insert, Update, NoUpdate
  <2>2. CASE Worker \/ Throws \/ RunTimesOut
    BY <1>1, <2>2, SMT
    DEF Worker, AutoRecord, ResolveVariables, RunNodes, SendPatch, AttemptTimesOut,
        Retry, WriteSucceeds, WriteFails, WriteRejected, Throws, ThrowsPlainError,
        AwaitsWedgedChild, RunTimesOut, Insert
  <2>3. CASE Backend
    BY <1>1, <2>3, SMT DEF Backend, PatchHandled, PatchLost, Update, NoUpdate
  <2>4. CASE Cancel
    BY <1>1, <2>4, SMT
    DEF Cancel, ReadExecution, CancelRun, MarkCancelled, DeleteExecution,
        DeleteWorkflow, ParentCancels, Update, NoUpdate
  <2>5. CASE UNCHANGED vars
    BY <1>1, <2>5 DEF vars
  <2> QED
    BY <1>1, <2>1, <2>2, <2>3, <2>4, <2>5 DEF Next
<1> QED
  BY <1>1, LifecycleInvariantHolds, PTL DEF Spec, DeletedStaysDeleted

-----------------------------------------------------------------------------
(* What the record says of a run that nothing disturbed. *)
\* The record shows the status, was deleted, or was written by a request.
Reflects(status) ==
  record = "deleted" \/ row.status = status \/ lastWriter \in {"start", "cancel"}

\* Without faults and cancellations of the run, the PATCH under way is the one
\* the worker waits for, only a deleted record refuses it, and the record
\* reflects what the worker knows to be written.
WritesAnswered ==
  (~ faulty /\ ~ cancelRequested) =>
    /\ phase \notin {"none", "closed"} => run = "open"
    /\ \A p \in patches : Current(p)
    /\ call = "error" => record = "deleted"
    /\ Writing /\ call = "ok" => Reflects(Reported)
    /\ run \in {"completed", "failed"} => Reflects(run)

\* A fault is never forgotten, and neither is a cancellation of the run.
LEMMA TroubleStays ==
  ASSUME LifecycleInvariant, [Next]_vars, ~ faulty', ~ cancelRequested'
  PROVE  ~ faulty /\ ~ cancelRequested
<1> USE DEF LifecycleInvariant, TypeOK
<1>1. CASE Start
  BY <1>1, Zenon
  DEF Start, CreateRecord, TemporalStart, TemporalStartFails, ParentGivesUp,
      RecordStarted, MarkFailed, StarterCrashes
<1>2. CASE Worker \/ Throws \/ RunTimesOut
  BY <1>2, Zenon
  DEF Worker, AutoRecord, ResolveVariables, RunNodes, SendPatch, AttemptTimesOut,
      Retry, WriteSucceeds, WriteFails, WriteRejected, Throws, ThrowsPlainError,
      AwaitsWedgedChild, RunTimesOut
<1>3. CASE Backend
  <2>1. PICK p \in Patch : PatchHandled(p)
    BY <1>3 DEF Backend, PatchLost
  <2>2. UNCHANGED cancelRequested /\ (Reply(p, "ok") \/ Reply(p, "error"))
    BY <2>1, Zenon DEF PatchHandled
  <2> QED
    BY <2>2, Zenon DEF Reply
<1>4. CASE Cancel
  BY <1>4, Zenon
  DEF Cancel, ReadExecution, CancelRun, MarkCancelled, DeleteExecution,
      DeleteWorkflow, ParentCancels
<1>5. CASE UNCHANGED vars
  BY <1>5 DEF vars
<1> QED
  BY <1>1, <1>2, <1>3, <1>4, <1>5 DEF Next

LEMMA WritesAnsweredPreserved ==
  ASSUME LifecycleInvariant, WritesAnswered, [Next]_vars
  PROVE  WritesAnswered'
<1> SUFFICES ASSUME ~ faulty', ~ cancelRequested'
             PROVE  /\ phase' \notin {"none", "closed"} => run' = "open"
                    /\ \A p \in patches' : Current(p)'
                    /\ call' = "error" => record' = "deleted"
                    /\ Writing' /\ call' = "ok" => Reflects(Reported)'
                    /\ run' \in {"completed", "failed"} => Reflects(run)'
  BY DEF WritesAnswered
<1>0. /\ ~ faulty /\ ~ cancelRequested
      /\ phase \notin {"none", "closed"} => run = "open"
      /\ \A p \in patches : Current(p)
      /\ call = "error" => record = "deleted"
      /\ Writing /\ call = "ok" => Reflects(Reported)
      /\ run \in {"completed", "failed"} => Reflects(run)
  BY TroubleStays DEF WritesAnswered
<1> USE DEF LifecycleInvariant, TypeOK, RunHasRecord, StartOrder, AutoRecordFirst,
            store, worker, Current, Writing, Reported, Reflects
<1>1. CASE Start
  BY <1>0, <1>1, SMT
  DEF Start, CreateRecord, TemporalStart, TemporalStartFails, ParentGivesUp,
      RecordStarted, MarkFailed, StarterCrashes, Insert, Update, NoUpdate, OpenRun
<1>2. CASE Worker
  <2>1. CASE AutoRecord \/ ResolveVariables \/ RunNodes
    BY <1>0, <2>1, SMT
    DEF AutoRecord, ResolveVariables, RunNodes, Insert, GoTo, Close
  <2>2. CASE SendPatch
    BY <1>0, <2>2, SMT DEF SendPatch
  <2>3. CASE AttemptTimesOut \/ Retry
    BY <1>0, <2>3, SMT DEF AttemptTimesOut, Retry
  <2>4. CASE WriteSucceeds
    BY <1>0, <2>4, SMT DEF WriteSucceeds, GoTo, Close, Wedged
  <2>5. CASE WriteFails
    BY <1>0, <2>5, SMT DEF WriteFails, GoTo, Close, Wedged
  <2>6. CASE WriteRejected
    BY <1>0, <2>6, SMT DEF WriteRejected
  <2> QED
    BY <1>2, <2>1, <2>2, <2>3, <2>4, <2>5, <2>6 DEF Worker
<1>3. CASE Throws \/ RunTimesOut
  BY <1>0, <1>3, SMT
  DEF Throws, ThrowsPlainError, AwaitsWedgedChild, GoTo, Wedged, RunTimesOut, Close
<1>4. CASE Backend
  <2>1. PICK p \in Patch : PatchHandled(p)
    BY <1>4 DEF Backend, PatchLost
  <2>2. Current(p) /\ patches' = {}
    BY <1>0, <2>1, SMT DEF PatchHandled
  <2>3. CASE Update("worker", Reporting(p)) /\ Reply(p, "ok")
    <3>1. p.status = Reported
      BY <2>2 DEF Current
    <3>2. row'.status = Reported
      BY <2>3, <3>1, Zenon DEF Update, Reporting
    <3>3. call' = "ok"
      BY <2>2, <2>3, Zenon DEF Reply
    <3>4. UNCHANGED <<run, phase>> /\ Writing /\ run \notin {"completed", "failed"}
      BY <1>0, <2>1, <2>2, SMT DEF PatchHandled
    <3> QED
      BY <1>0, <2>2, <3>2, <3>3, <3>4, SMT
  <2>4. CASE NoUpdate /\ Reply(p, "error")
    <3>1. record' = "deleted" /\ UNCHANGED store
      BY <2>2, <2>4, SMT DEF NoUpdate
    <3>2. call' = "error"
      BY <2>2, <2>4, Zenon DEF Reply
    <3> QED
      BY <1>0, <2>1, <2>2, <3>1, <3>2, SMT DEF PatchHandled
  <2> QED
    BY <2>1, <2>3, <2>4 DEF PatchHandled
<1>5. CASE Cancel
  BY <1>0, <1>5, SMT
  DEF Cancel, ReadExecution, CancelRun, MarkCancelled, DeleteExecution,
      DeleteWorkflow, ParentCancels, Update, NoUpdate
<1>6. CASE UNCHANGED vars
  BY <1>0, <1>6, SMT DEF vars
<1> QED
  BY <1>1, <1>2, <1>3, <1>4, <1>5, <1>6 DEF Next

\* The record of a run that ended by itself says how, if nothing was lost and
\* no UPDATE of startExecution or cancelExecution came after the worker's.
THEOREM RecordAgreesHolds == Spec => []RecordAgrees
<1>1. Init => WritesAnswered
  BY SMT DEF Init, WritesAnswered, Writing
<1>2. WritesAnswered => RecordAgrees
  BY DEF WritesAnswered, RecordAgrees, Reflects
<1> QED
  BY <1>1, <1>2, WritesAnsweredPreserved, LifecycleInvariantHolds, PTL DEF Spec
=============================================================================
