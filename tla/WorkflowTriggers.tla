-------------------------- MODULE WorkflowTriggers --------------------------
(***************************************************************************)
(* One workflow: its row, its webhook endpoints and its Temporal schedule, *)
(* under concurrent requests that create, activate, deactivate, update and *)
(* delete it (WorkflowService, WebhookService.syncEndpointsForWorkflow).   *)
(*                                                                         *)
(* A request is a sequence of calls of the database and of Temporal, with  *)
(* no transaction around them; each call is a step.  Of a template only    *)
(* the webhook paths and the cron expression count; updates that bring no  *)
(* template change none of the three stores and are left out.              *)
(***************************************************************************)
EXTENDS Naturals, FiniteSets

CONSTANTS
  Requests,   \* requests to the API
  Paths,      \* webhook paths
  Taken,      \* the paths that another workflow has registered
  Crons,      \* cron expressions
  Templates,  \* the templates that requests save
  None

Template == [paths : SUBSET Paths, cron : Crons \cup {None}]
Row      == [status : {"draft", "active", "inactive"}, template : Template]
Schedule == [cron : Crons, template : Template]

ASSUME TemplatesAssumption == Templates \subseteq Template
ASSUME TakenAssumption == Taken \subseteq Paths
ASSUME NoneAssumption == None \notin Crons \cup Requests \cup Row \cup Schedule

VARIABLES
  row,        \* Workflow: status and template, or None
  endpoint,   \* WebhookEndpoint.isActive of the workflow's row for a path: "on",
              \* "off", or "none"
  held,       \* the rows each request read that are still there: a row inserted
              \* later at the same path has another id
  schedule,   \* Temporal schedule: its expression and the template in its arguments
  job,        \* what each request has read and where it is
  alone,      \* history: requests during which no other was under way or failed
  latest,     \* history: the request that ended last, if alone and successful
  trouble     \* history: requests overlapped, a call failed, or a path was taken

rows    == <<endpoint, held>>
stores  == <<row, rows, schedule>>
history == <<alone, latest, trouble>>
vars    == <<stores, job, history>>

Ops    == {"create", "activate", "deactivate", "update", "delete"}
Places == {"idle", "insert", "write", "upsert", "respec", "unschedule", "read", "prune",
           "upsertRows", "flip", "status", "delete", "done"}

\* template: the one the request works with; flag: the isActive it writes;
\* known: the paths of the endpoint rows it read; left: the paths it has still
\* to write.
Job == [op : Ops, at : Places, template : Template, flag : {"on", "off"},
        known : SUBSET Paths, left : SUBSET Paths]

Fresh(op, at, template, flag) ==
  [op |-> op, at |-> at, template |-> template, flag |-> flag, known |-> {}, left |-> {}]

Blank == [paths |-> {}, cron |-> None]

Init ==
  /\ row = None
  /\ endpoint = [p \in Paths |-> "none"]
  /\ held = [q \in Requests |-> {}]
  /\ schedule = None
  /\ job = [q \in Requests |-> Fresh("delete", "idle", Blank, "off")]
  /\ alone = {}
  /\ latest = None
  /\ trouble = FALSE

Rows == {p \in Paths : endpoint[p] # "none"}
Live == {p \in Paths : endpoint[p] = "on"}

-----------------------------------------------------------------------------
(* Places of a request. *)
Settled(q) == job[q].at \in {"idle", "done"}

At(q, place) == job[q].at = place

Moves(q, place) == job' = [job EXCEPT ![q].at = place]

GoTo(q, place) == Moves(q, place) /\ UNCHANGED history

\* The request is answered and what it has read is forgotten.
Answered(q) == job' = [job EXCEPT ![q] = Fresh(job[q].op, "done", Blank, "off")]

\* ok says whether it succeeded.
Ends(q, ok) ==
  /\ Answered(q)
  /\ latest' = IF ok /\ q \in alone THEN q ELSE None
  /\ UNCHANGED <<alone, trouble>>

\* A request begins: those under way are not alone any more.
Begins(q, first) ==
  LET others == {o \in Requests \ {q} : ~ Settled(o)} IN
  /\ job' = [job EXCEPT ![q] = first]
  /\ alone' = IF others = {} THEN alone \cup {q} ELSE alone \ (others \cup {q})
  /\ latest' = None
  /\ trouble' = (trouble \/ others # {})

HasCron(q) == job[q].template.cron # None

AfterSchedule(q) == IF job[q].op = "deactivate" THEN "flip" ELSE "read"

\* Activation sets the status, the others are done.
AfterEndpoints(q) == IF job[q].op = "activate" THEN "status" ELSE "done"

AfterSync(q) ==
  \/ AfterEndpoints(q) = "status" /\ GoTo(q, "status")
  \/ AfterEndpoints(q) = "done" /\ Ends(q, TRUE)

-----------------------------------------------------------------------------
(* Requests begin. *)
\* createWorkflow; the template was validated.
BeginCreate(q) ==
  /\ At(q, "idle")
  /\ \A o \in Requests : job[o].op # "create"
  /\ \E t \in Templates :
       Begins(q, Fresh("create", "insert", t, "off"))
  /\ UNCHANGED stores

\* getWorkflow found the row.
BeginActivate(q) ==
  /\ At(q, "idle")
  /\ row # None
  /\ Begins(q, Fresh("activate", IF row.template.cron # None THEN "upsert" ELSE "read",
                     row.template, "on"))
  /\ UNCHANGED stores

BeginDeactivate(q) ==
  /\ At(q, "idle")
  /\ row # None
  /\ Begins(q, Fresh("deactivate", "unschedule", Blank, "off"))
  /\ UNCHANGED stores

BeginUpdate(q) ==
  /\ At(q, "idle")
  /\ row # None
  /\ \E t \in Templates :
       Begins(q, Fresh("update", "write", t, IF row.status = "active" THEN "on" ELSE "off"))
  /\ UNCHANGED stores

BeginDelete(q) ==
  /\ At(q, "idle")
  /\ row # None
  /\ Begins(q, Fresh("delete", "delete", Blank, "off"))
  /\ UNCHANGED stores

-----------------------------------------------------------------------------
(* The workflow's row. *)
InsertRow(q) ==
  /\ At(q, "insert")
  /\ row' = [status |-> "draft", template |-> job[q].template]
  /\ GoTo(q, "read")
  /\ UNCHANGED <<rows, schedule>>

\* updateWorkflow's transaction; the schedule is touched if the status read
\* before it was active.
WriteTemplate(q) ==
  /\ At(q, "write")
  /\ \/ /\ row # None
        /\ row' = [row EXCEPT !.template = job[q].template]
        /\ GoTo(q, IF job[q].flag = "off" THEN "read"
                   ELSE IF HasCron(q) THEN "upsert" ELSE "unschedule")
     \/ row = None /\ UNCHANGED row /\ Ends(q, FALSE)
  /\ UNCHANGED <<rows, schedule>>

SetStatus(q) ==
  /\ At(q, "status")
  /\ \/ /\ row # None
        /\ row' = [row EXCEPT !.status = IF job[q].flag = "on" THEN "active" ELSE "inactive"]
        /\ Ends(q, TRUE)
     \/ row = None /\ UNCHANGED row /\ Ends(q, FALSE)
  /\ UNCHANGED <<rows, schedule>>

\* The endpoints go with the row, the schedule stays.
DeleteRow(q) ==
  /\ At(q, "delete")
  /\ \/ /\ row # None
        /\ row' = None
        /\ endpoint' = [p \in Paths |-> "none"]
        /\ held' = [o \in Requests |-> {}]
        /\ Ends(q, TRUE)
     \/ row = None /\ UNCHANGED <<row, rows>> /\ Ends(q, FALSE)
  /\ UNCHANGED schedule

-----------------------------------------------------------------------------
(* The Temporal schedule. *)
\* schedule.create, which throws if there is one.
UpsertSchedule(q) ==
  /\ At(q, "upsert")
  /\ \/ /\ schedule = None
        /\ schedule' = [cron |-> job[q].template.cron, template |-> job[q].template]
        /\ GoTo(q, "read")
     \/ schedule # None /\ UNCHANGED schedule /\ GoTo(q, "respec")
  /\ UNCHANGED <<row, rows>>

\* handle.update: a new expression, the old arguments.
UpdateSchedule(q) ==
  /\ At(q, "respec")
  /\ \/ /\ schedule # None
        /\ schedule' = [schedule EXCEPT !.cron = job[q].template.cron]
        /\ GoTo(q, "read")
     \/ schedule = None /\ UNCHANGED schedule /\ Ends(q, FALSE)
  /\ UNCHANGED <<row, rows>>

DeleteSchedule(q) ==
  /\ At(q, "unschedule")
  /\ schedule' = None
  /\ GoTo(q, AfterSchedule(q))
  /\ UNCHANGED <<row, rows>>

-----------------------------------------------------------------------------
(* The webhook endpoints. *)
ReadEndpoints(q) ==
  /\ At(q, "read")
  /\ job' = [job EXCEPT ![q].at = "prune", ![q].known = Rows]
  /\ held' = [held EXCEPT ![q] = Rows]
  /\ UNCHANGED <<row, endpoint, schedule, history>>

\* Mutant: the rows of paths that are gone stay.
PruneNothing(q) ==
  /\ At(q, "prune")
  /\ job' = [job EXCEPT ![q].at = "upsertRows", ![q].left = job[q].template.paths]
  /\ UNCHANGED <<stores, history>>

PruneEndpoints(q) ==
  /\ At(q, "prune")
  /\ LET gone == held[q] \ job[q].template.paths IN
       /\ endpoint' = [p \in Paths |-> IF p \in gone THEN "none" ELSE endpoint[p]]
       /\ held' = [o \in Requests |-> held[o] \ gone]
  /\ job' = [job EXCEPT ![q].at = "upsertRows", ![q].left = job[q].template.paths]
  /\ UNCHANGED <<row, schedule, history>>

\* Mutant: a row that exists keeps its flag.
UpsertKeepsFlag(q, p) ==
  endpoint' = [endpoint EXCEPT ![p] = IF @ = "none" THEN job[q].flag ELSE @]

UpsertSetsFlag(q, p) == endpoint' = [endpoint EXCEPT ![p] = job[q].flag]

\* One path, in any order: UPDATE if the row was read, INSERT if not.
UpsertEndpoint(q) ==
  /\ At(q, "upsertRows")
  /\ \E p \in job[q].left :
       /\ IF p \in job[q].known THEN p \in held[q]
          ELSE p \notin Taken /\ endpoint[p] = "none" /\ row # None
       /\ UpsertSetsFlag(q, p)
       /\ job' = [job EXCEPT ![q].left = @ \ {p}]
  /\ UNCHANGED <<row, held, schedule, history>>

\* The row that was read is gone, or the workflow is: logged, and the rest of
\* the paths is skipped.
UpsertGivesUp(q) ==
  /\ At(q, "upsertRows")
  /\ \E p \in job[q].left :
       \/ p \in job[q].known \ held[q]
       \/ p \notin job[q].known \cup Taken /\ endpoint[p] = "none" /\ row = None
  /\ AfterSync(q)
  /\ UNCHANGED stores

\* The unique path has a row that was not read: CONFLICT.
UpsertConflicts(q) ==
  /\ At(q, "upsertRows")
  /\ \E p \in job[q].left \ job[q].known : p \in Taken \/ endpoint[p] # "none"
  /\ Answered(q)
  /\ latest' = None
  /\ trouble' = TRUE
  /\ UNCHANGED <<stores, alone>>

EndpointsDone(q) ==
  /\ At(q, "upsertRows")
  /\ job[q].left = {}
  /\ AfterSync(q)
  /\ UNCHANGED stores

\* Mutant: the endpoints are forgotten.
FlipNothing(q) ==
  /\ At(q, "flip")
  /\ GoTo(q, "status")
  /\ UNCHANGED stores

FlipEndpoints(q) ==
  /\ At(q, "flip")
  /\ endpoint' = [p \in Paths |-> IF endpoint[p] = "none" THEN "none" ELSE "off"]
  /\ GoTo(q, "status")
  /\ UNCHANGED <<row, held, schedule>>

-----------------------------------------------------------------------------
(* Failures. *)
\* A call whose failure is logged or ignored fails.  One that fails after it
\* took effect leaves what its success does.
FailsQuietly(q) ==
  /\ \/ At(q, "upsert") /\ Moves(q, "read")
     \/ At(q, "unschedule") /\ Moves(q, AfterSchedule(q))
     \/ At(q, "flip") /\ Moves(q, "status")
     \/ /\ job[q].at \in {"read", "prune", "upsertRows"}
        /\ IF AfterEndpoints(q) = "done" THEN Answered(q) ELSE Moves(q, "status")
  /\ alone' = alone \ {q}
  /\ latest' = None
  /\ trouble' = TRUE
  /\ UNCHANGED stores

\* A call throws, or the backend dies.
Aborts(q) ==
  /\ ~ Settled(q)
  /\ Answered(q)
  /\ trouble' = TRUE
  /\ latest' = None
  /\ UNCHANGED <<stores, alone>>

-----------------------------------------------------------------------------
Begin(q) == \/ BeginCreate(q) \/ BeginActivate(q) \/ BeginDeactivate(q)
            \/ BeginUpdate(q) \/ BeginDelete(q)

Step(q) == \/ InsertRow(q) \/ WriteTemplate(q) \/ SetStatus(q) \/ DeleteRow(q)
           \/ UpsertSchedule(q) \/ UpdateSchedule(q) \/ DeleteSchedule(q)
           \/ ReadEndpoints(q) \/ PruneEndpoints(q) \/ UpsertEndpoint(q)
           \/ UpsertGivesUp(q) \/ UpsertConflicts(q) \/ EndpointsDone(q)
           \/ FlipEndpoints(q)

Next == \E q \in Requests : Begin(q) \/ Step(q) \/ FailsQuietly(q) \/ Aborts(q)

Spec == Init /\ [][Next]_vars

-----------------------------------------------------------------------------
TypeOK ==
  /\ row \in Row \cup {None}
  /\ endpoint \in [Paths -> {"none", "on", "off"}]
  /\ held \in [Requests -> SUBSET Paths]
  /\ schedule \in Schedule \cup {None}
  /\ job \in [Requests -> Job]
  /\ alone \subseteq Requests
  /\ latest \in Requests \cup {None}
  /\ trouble \in BOOLEAN

Rest == \A q \in Requests : Settled(q)

-----------------------------------------------------------------------------
(* Properties. *)
\* What the three stores say of each other where nothing is missing.
Agreement ==
  /\ Rows = row.template.paths
  /\ Live = IF row.status = "active" THEN Rows ELSE {}
  /\ (schedule # None) = (row.status = "active" /\ row.template.cron # None)
  /\ schedule # None => schedule.cron = row.template.cron

\* As long as requests neither overlap nor fail, the three stores agree when
\* none is under way: the endpoints are those of the template and answer iff
\* the workflow is active, and there is a schedule, with the template's
\* expression, iff it is active and has a cron node.
StoresAgree == Rest /\ ~ trouble /\ row # None => Agreement

Silent == row.status = "inactive" /\ Live = {} /\ schedule = None

\* A deactivation that runs alone and does not fail leaves nothing that fires,
\* whatever interleavings and failures went before it.
DeactivationSilences ==
  latest # None /\ job[latest].op = "deactivate" => Silent

\* An activation that runs alone and does not fail puts the endpoints and the
\* expression right, whatever went before it.
ActivationRepairs ==
  latest # None /\ job[latest].op = "activate" =>
    /\ row.status = "active"
    /\ Rows = row.template.paths /\ Live = Rows
    /\ row.template.cron # None =>
         schedule # None /\ schedule.cron = row.template.cron

\* Another workflow's path is never registered for this one, and without its
\* row it has no endpoint, under any interleaving and failure.
EndpointsBelong ==
  /\ Rows \cap Taken = {}
  /\ row = None => Rows = {}

-----------------------------------------------------------------------------
(* The inductive invariant behind DeactivationSilences. *)
\* While a request that is alone is under way no other is.
AloneIsAlone ==
  \A q \in alone : ~ Settled(q) => \A o \in Requests \ {q} : Settled(o)

\* Only a request with a cron expression upserts the schedule.  A deactivation
\* takes its three stores in order, and one that is alone finds what it did
\* untouched.
CourseOf(q) ==
  /\ job[q].at \in {"upsert", "respec"} => HasCron(q)
  /\ job[q].op = "deactivate" =>
       /\ job[q].flag = "off"
       /\ job[q].at \in {"unschedule", "flip", "status", "done"}
       /\ q \in alone /\ job[q].at \in {"flip", "status"} => schedule = None
       /\ q \in alone /\ job[q].at = "status" => Live = {}

OnCourse == \A q \in Requests : CourseOf(q)

HeldExist == \A q \in Requests : held[q] \subseteq Rows

LatestIsLast == latest # None => Rest

\* The inductive invariant of the three stores under concurrent requests: what
\* a deactivation has switched off stays off until another request begins.
TriggersInvariant ==
  /\ TypeOK /\ EndpointsBelong /\ HeldExist /\ AloneIsAlone /\ OnCourse /\ LatestIsLast
  /\ DeactivationSilences
=============================================================================
