---------------------------- MODULE ExecutionFeed ----------------------------
(***************************************************************************)
(* What a client can learn of executions: their records (routes/internal,  *)
(* ExecutionService) and the events that are broadcast after each write of *)
(* the worker.  EditorView and ExecutionWatch add a client.                *)
(*                                                                         *)
(* The worker awaits the answer to a write before the next one.  Writes    *)
(* that fail or are retried and the steps of a cancellation are            *)
(* ExecutionLifecycle's subject.                                           *)
(***************************************************************************)
EXTENDS Naturals

CONSTANTS
  Outcomes,  \* how executions end, as the worker writes it
  MaxExecutions, MaxLogs, MaxFaults,
  Budgets    \* bounds: executions that are started, log lines of each, and faults

ASSUME BoundsAssumption ==
  /\ MaxExecutions \in Nat /\ MaxLogs \in Nat /\ MaxFaults \in Nat
  /\ Budgets \subseteq [executions : 0 .. MaxExecutions, logs : 0 .. MaxLogs,
                        faults : 0 .. MaxFaults]

ASSUME OutcomesAssumption == Outcomes \subseteq {"completed", "failed"}

Executions == 1 .. MaxExecutions

VARIABLES
  budget,    \* the bounds of this behaviour
  faults,    \* faults so far
  row,       \* status of the record
  logs,      \* log rows of the execution
  pen,       \* the worker's latest write, and where it is
  answered,  \* startExecution has stored the run's id and answered
  cancel,    \* where the DELETE of the execution is
  told       \* Temporal was told to cancel the run

records == <<row, logs>>
bounds  == <<budget, faults>>
feed    == <<records, pen, answered, cancel, told>>

Terminal == {"completed", "failed", "cancelled"}
Status   == {"pending", "running"} \cup Terminal
Writes   == {"running", "log", "completed", "failed"}

Pen(at, what) == [at |-> at, what |-> what]

FeedInit ==
  /\ budget \in Budgets
  /\ faults = 0
  /\ row = [e \in Executions |-> "none"]
  /\ logs = [e \in Executions |-> 0]
  /\ pen = [e \in Executions |-> Pen("idle", "nothing")]
  /\ answered = [e \in Executions |-> FALSE]
  /\ cancel = [e \in Executions |-> "no"]
  /\ told = [e \in Executions |-> FALSE]

Fault == faults < budget.faults /\ faults' = faults + 1 /\ UNCHANGED budget

Exists(e) == row[e] \in Status

NextWrites(e) ==
  CASE pen[e].what = "nothing"            -> {"running"}
    [] pen[e].what \in {"running", "log"} ->
         Outcomes \cup (IF logs[e] < budget.logs THEN {"log"} ELSE {})
    [] OTHER                              -> {}

\* Nothing happens to the execution any more.
Over(e) ==
  /\ row[e] \in Terminal \cup {"deleted"}
  /\ pen[e].at = "idle" /\ cancel[e] # "asked"
  /\ told[e] \/ NextWrites(e) = {}

\* startExecution: the row is inserted and the run started ...  Bound: the one
\* before is over.
Accept(e) ==
  /\ row[e] = "none" /\ e <= budget.executions
  /\ \A d \in Executions : d < e => Over(d)
  /\ row' = [row EXCEPT ![e] = "pending"]
  /\ UNCHANGED <<logs, pen, answered, cancel, told>>

\* ... and the run's id stored with the status "running", whatever it is by now.
Answer(e) ==
  /\ Exists(e) /\ ~ answered[e]
  /\ row' = [row EXCEPT ![e] = "running"]
  /\ answered' = [answered EXCEPT ![e] = TRUE]
  /\ UNCHANGED <<logs, pen, cancel, told>>

\* The worker sends a status or a log line and the route writes it; to a row that
\* is gone the write fails.  A cancelled scope schedules no activity.
Write(e) ==
  /\ row[e] # "none" /\ pen[e].at = "idle" /\ ~ told[e]
  /\ \E w \in NextWrites(e) :
       \/ /\ Exists(e)
          /\ row' = [row EXCEPT ![e] = IF w = "log" THEN @ ELSE w]
          /\ logs' = [logs EXCEPT ![e] = IF w = "log" THEN @ + 1 ELSE @]
          /\ pen' = [pen EXCEPT ![e] = Pen("written", w)]
       \/ /\ ~ Exists(e)
          /\ pen' = [pen EXCEPT ![e] = Pen("idle", w)]
          /\ UNCHANGED records
  /\ UNCHANGED <<answered, cancel, told>>

\* Then the event goes to the subscribers: a status event, or the log line; that
\* of an execution deleted meanwhile is dropped.
Event(e) == [kind |-> pen[e].what, at |-> IF pen[e].what = "log" THEN logs[e] ELSE 0]

Announced(e) == pen[e].what = "log" => Exists(e)

Broadcast(e) ==
  /\ pen[e].at = "written"
  /\ pen' = [pen EXCEPT ![e] = Pen("idle", pen[e].what)]
  /\ UNCHANGED <<records, answered, cancel, told>>

\* cancelExecution is asked for ...
CancelAsked(e) ==
  /\ row[e] # "none" /\ cancel[e] = "no"
  /\ cancel' = [cancel EXCEPT ![e] = "asked"]
  /\ UNCHANGED <<records, pen, answered, told>>

\* ... and deletes the row of an execution that has ended; otherwise it tells
\* Temporal, if it has the run's id, and marks the row.  Nothing of this is broadcast.
Cancel(e) ==
  /\ cancel[e] = "asked"
  /\ cancel' = [cancel EXCEPT ![e] = "done"]
  /\ \/ /\ row[e] \in Terminal
        /\ row' = [row EXCEPT ![e] = "deleted"]
        /\ UNCHANGED told
     \/ /\ row[e] \in Status \ Terminal
        /\ row' = [row EXCEPT ![e] = "cancelled"]
        /\ told' = [told EXCEPT ![e] = answered[e]]
  /\ UNCHANGED <<logs, pen, answered>>

BoundsOK == budget \in Budgets /\ faults \in 0 .. budget.faults

FeedTypeOK ==
  /\ row \in [Executions -> Status \cup {"none", "deleted"}]
  /\ logs \in [Executions -> 0 .. MaxLogs]
  /\ pen \in [Executions -> [at : {"idle", "written"}, what : Writes \cup {"nothing"}]]
  /\ \A e \in Executions : pen[e].at = "written" => pen[e].what \in Writes
  /\ answered \in [Executions -> BOOLEAN]
  /\ cancel \in [Executions -> {"no", "asked", "done"}]
  /\ told \in [Executions -> BOOLEAN]
=============================================================================
