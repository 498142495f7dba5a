----------------------- MODULE WorkflowTriggersProofs -----------------------
(***************************************************************************)
(* The inductive invariants of WorkflowTriggers, for any requests, paths   *)
(* and templates: endpoints never belong to another workflow or to none,   *)
(* a deactivation that runs alone leaves nothing that fires, an activation *)
(* repairs, and without overlap and failure the stores agree.              *)
(***************************************************************************)
EXTENDS WorkflowTriggers, TLAPS

\* A request's fresh record has its type.
LEMMA FreshTypes ==
  ASSUME NEW op \in Ops, NEW at \in Places, NEW template \in Template,
         NEW flag \in {"on", "off"}
  PROVE  Fresh(op, at, template, flag) \in Job
<1>1. {} \in SUBSET Paths
  OBVIOUS
<1> QED  BY <1>1, Zenon DEF Fresh, Job

LEMMA BlankType == Blank \in Template
<1>1. {} \in SUBSET Paths /\ None \in Crons \cup {None}
  OBVIOUS
<1> QED  BY <1>1, Zenon DEF Blank, Template

LEMMA InitEstablishes == Init => TriggersInvariant
<1> SUFFICES ASSUME Init PROVE TriggersInvariant
  OBVIOUS
<1> USE DEF Init
<1>1. Fresh("delete", "idle", Blank, "off") \in Job
  BY BlankType, FreshTypes DEF Ops, Places
<1>2. \A q \in Requests : job[q] = Fresh("delete", "idle", Blank, "off")
  OBVIOUS
<1>3. trouble \in BOOLEAN
  BY Zenon
<1>4. TypeOK
  <2>1. job \in [Requests -> Job]
    BY <1>1
  <2>2. endpoint \in [Paths -> {"none", "on", "off"}]
    BY SMT
  <2>3. held \in [Requests -> SUBSET Paths]
    BY SMT
  <2> QED  BY <1>3, <2>1, <2>2, <2>3 DEF TypeOK
<1>5. EndpointsBelong /\ HeldExist
  BY SMT DEF EndpointsBelong, HeldExist, Rows
<1>6. AloneIsAlone /\ LatestIsLast /\ DeactivationSilences
  BY DEF AloneIsAlone, LatestIsLast, DeactivationSilences
<1>7. OnCourse
  BY <1>2, SMT DEF OnCourse, CourseOf, Fresh
<1> QED  BY <1>4, <1>5, <1>6, <1>7 DEF TriggersInvariant

-----------------------------------------------------------------------------
(* Types. *)
\* A request that moves keeps the type of what it has read.
LEMMA MovesTypes ==
  ASSUME job \in [Requests -> Job], NEW q \in Requests, NEW place \in Places, Moves(q, place)
  PROVE  /\ job' \in [Requests -> Job]
         /\ job'[q] = [job[q] EXCEPT !.at = place]
         /\ \A o \in Requests \ {q} : job'[o] = job[o]
<1>1. job' = [job EXCEPT ![q] = [job[q] EXCEPT !.at = place]]
  BY DEF Moves
<1>2. [job[q] EXCEPT !.at = place] \in Job
  BY Zenon DEF Job
<1> QED  BY <1>1, <1>2, Zenon

LEMMA AnsweredTypes ==
  ASSUME job \in [Requests -> Job], NEW q \in Requests, Answered(q)
  PROVE  /\ job' \in [Requests -> Job]
         /\ job'[q].at = "done" /\ job'[q].op = job[q].op /\ job'[q].flag = "off"
         /\ \A o \in Requests \ {q} : job'[o] = job[o]
<1>1. job' = [job EXCEPT ![q] = Fresh(job[q].op, "done", Blank, "off")]
  BY DEF Answered
<1>2. job[q].op \in Ops /\ "done" \in Places
  BY DEF Job, Places
<1>3. Fresh(job[q].op, "done", Blank, "off") \in Job
  BY <1>2, BlankType, FreshTypes
<1>4. job'[q] = Fresh(job[q].op, "done", Blank, "off")
  BY <1>1, Zenon
<1>5. job'[q].at = "done" /\ job'[q].op = job[q].op /\ job'[q].flag = "off"
  BY <1>4, SMT DEF Fresh
<1> QED  BY <1>1, <1>3, <1>5, Zenon

\* Steps that write trouble write a Boolean.
LEMMA TroubleTypes == TypeOK /\ Next => trouble' \in BOOLEAN
<1> SUFFICES ASSUME trouble \in BOOLEAN, NEW q \in Requests,
                    Begin(q) \/ Step(q) \/ FailsQuietly(q) \/ Aborts(q)
             PROVE  trouble' \in BOOLEAN
  BY DEF TypeOK, Next
<1> USE DEF history, Ends, GoTo, AfterSync
<1>1. CASE Begin(q)
  BY <1>1, Zenon DEF Begin, BeginCreate, BeginActivate, BeginDeactivate, BeginUpdate,
                     BeginDelete, Begins
<1>2. CASE \/ InsertRow(q) \/ WriteTemplate(q) \/ SetStatus(q) \/ DeleteRow(q)
           \/ UpsertSchedule(q) \/ UpdateSchedule(q) \/ DeleteSchedule(q)
  BY <1>2, Zenon DEF InsertRow, WriteTemplate, SetStatus, DeleteRow, UpsertSchedule,
                     UpdateSchedule, DeleteSchedule
<1>3. CASE \/ ReadEndpoints(q) \/ PruneEndpoints(q) \/ UpsertEndpoint(q)
           \/ UpsertGivesUp(q) \/ UpsertConflicts(q) \/ EndpointsDone(q)
           \/ FlipEndpoints(q)
  BY <1>3, Zenon DEF ReadEndpoints, PruneEndpoints, UpsertEndpoint, UpsertGivesUp,
                     UpsertConflicts, EndpointsDone, FlipEndpoints
<1>4. CASE FailsQuietly(q) \/ Aborts(q)
  BY <1>4, Zenon DEF FailsQuietly, Aborts
<1> QED  BY <1>1, <1>2, <1>3, <1>4, Zenon DEF Step

-----------------------------------------------------------------------------
(* What every step does to the requests it does not belong to. *)
\* While q is under way no other request is alone: a step of q can be seen by
\* nobody who relies on being alone.
LEMMA OwnStep ==
  ASSUME AloneIsAlone, OnCourse, LatestIsLast, latest \in Requests \cup {None},
         NoneAssumption, NEW q \in Requests, ~ Settled(q),
         \A o \in Requests \ {q} : job'[o] = job[o],
         alone' \subseteq alone, alone \subseteq Requests,
         CourseOf(q)',
         \/ latest' \in {None, latest}
         \/ /\ latest' = q /\ q \in alone /\ job'[q].at = "done"
            /\ job'[q].op = "deactivate" => Silent'
  PROVE  AloneIsAlone' /\ OnCourse' /\ LatestIsLast' /\ DeactivationSilences'
<1>1. latest = None
  BY DEF LatestIsLast, Rest
<1>2. \A o \in Requests \ {q} : o \in alone => Settled(o)
  BY DEF AloneIsAlone
<1>3. \A o \in Requests \ {q} : Settled(o)' = Settled(o)
  BY DEF Settled
<1>4. AloneIsAlone'
  BY <1>2, <1>3 DEF AloneIsAlone
<1>5. OnCourse'
  <2> SUFFICES ASSUME NEW o \in Requests, o # q PROVE CourseOf(o)'
    BY DEF OnCourse
  <2>1. job'[o] = job[o] /\ CourseOf(o)
    BY DEF OnCourse
  <2>2. o \in alone' => job[o].at \notin {"flip", "status"}
    BY <1>2 DEF Settled
  <2> QED  BY <2>1, <2>2 DEF CourseOf, HasCron
<1>6. CASE latest' \in {None, latest}
  BY <1>1, <1>4, <1>5, <1>6 DEF LatestIsLast, DeactivationSilences
<1>7. CASE /\ latest' = q /\ q \in alone /\ job'[q].at = "done"
           /\ job'[q].op = "deactivate" => Silent'
  <2>1. \A o \in Requests : Settled(o)'
    BY <1>3, <1>7 DEF AloneIsAlone, Settled
  <2> QED  BY <1>4, <1>5, <1>7, <2>1 DEF LatestIsLast, Rest, DeactivationSilences
<1> QED  BY <1>6, <1>7

\* A request begins, with its stores untouched.
LEMMA BeginPreserves ==
  ASSUME TriggersInvariant, NEW q \in Requests, Begin(q), trouble' \in BOOLEAN
  PROVE  TriggersInvariant'
<1> DEFINE others == {o \in Requests \ {q} : ~ Settled(o)}
<1>1. PICK first \in Job :
        /\ Begins(q, first)
        /\ first.op = "deactivate" => first.at = "unschedule" /\ first.flag = "off"
        /\ first.at \in {"upsert", "respec"} => first.template.cron # None
  <2> USE DEF TriggersInvariant, TypeOK
  <2>1. CASE BeginCreate(q)
    <3>1. PICK t \in Templates : Begins(q, Fresh("create", "insert", t, "off"))
      BY <2>1 DEF BeginCreate
    <3>2. Fresh("create", "insert", t, "off") \in Job
      BY FreshTypes, TemplatesAssumption DEF Ops, Places
    <3> QED  BY <3>1, <3>2 DEF Fresh
  <2>2. CASE BeginActivate(q)
    <3>1. PICK at \in {"upsert", "read"} :
            /\ Begins(q, Fresh("activate", at, row.template, "on"))
            /\ at = "upsert" => row.template.cron # None
      BY <2>2 DEF BeginActivate
    <3>2. row.template \in Template
      BY <2>2 DEF BeginActivate, Row
    <3>3. Fresh("activate", at, row.template, "on") \in Job
      BY <3>2, FreshTypes DEF Ops, Places
    <3> QED  BY <3>1, <3>3 DEF Fresh
  <2>3. CASE BeginDeactivate(q)
    <3>1. Fresh("deactivate", "unschedule", Blank, "off") \in Job
      BY FreshTypes, BlankType DEF Ops, Places
    <3> QED  BY <2>3, <3>1 DEF BeginDeactivate, Fresh
  <2>4. CASE BeginUpdate(q)
    <3>1. PICK t \in Templates, flag \in {"on", "off"} :
            Begins(q, Fresh("update", "write", t, flag))
      BY <2>4 DEF BeginUpdate
    <3>2. Fresh("update", "write", t, flag) \in Job
      BY FreshTypes, TemplatesAssumption DEF Ops, Places
    <3> QED  BY <3>1, <3>2 DEF Fresh
  <2>5. CASE BeginDelete(q)
    <3>1. Fresh("delete", "delete", Blank, "off") \in Job
      BY FreshTypes, BlankType DEF Ops, Places
    <3> QED  BY <2>5, <3>1 DEF BeginDelete, Fresh
  <2> QED  BY <2>1, <2>2, <2>3, <2>4, <2>5 DEF Begin
<1>2. UNCHANGED stores /\ At(q, "idle")
  BY Zenon DEF Begin, BeginCreate, BeginActivate, BeginDeactivate, BeginUpdate, BeginDelete
<1>3. /\ job' = [job EXCEPT ![q] = first] /\ latest' = None
      /\ alone' = IF others = {} THEN alone \cup {q} ELSE alone \ (others \cup {q})
  BY <1>1 DEF Begins
<1>4. job'[q] = first /\ \A o \in Requests \ {q} : job'[o] = job[o]
  BY <1>3 DEF TriggersInvariant, TypeOK
<1>5. TypeOK'
  BY <1>1, <1>2, <1>3, Zenon DEF TriggersInvariant, TypeOK, stores, rows
<1>6. EndpointsBelong' /\ HeldExist'
  BY <1>2 DEF TriggersInvariant, EndpointsBelong, HeldExist, Rows, stores, rows
<1>7. LatestIsLast' /\ DeactivationSilences'
  BY <1>3 DEF LatestIsLast, DeactivationSilences
<1>8. \A o \in Requests \ {q} : o \in alone' => o \in alone /\ Settled(o)
  BY <1>3
<1>9. AloneIsAlone'
  <2> SUFFICES ASSUME NEW a \in alone', ~ Settled(a)', NEW o \in Requests \ {a}
               PROVE  Settled(o)'
    BY DEF AloneIsAlone
  <2>1. a \in Requests
    BY <1>5 DEF TypeOK
  <2>2. a = q
    BY <1>4, <1>8, <2>1 DEF Settled
  <2>3. Settled(o)
    BY <1>3, <2>2
  <2> QED  BY <1>4, <2>2, <2>3 DEF Settled
<1>10. OnCourse'
  <2> SUFFICES ASSUME NEW o \in Requests PROVE CourseOf(o)'
    BY DEF OnCourse
  <2>1. CASE o = q
    <3>1. job'[o].op = "deactivate" => job'[o].at = "unschedule" /\ job'[o].flag = "off"
      BY <1>1, <1>4, <2>1, Zenon
    <3>2. job'[o].at \in {"upsert", "respec"} => job'[o].template.cron # None
      BY <1>1, <1>4, <2>1, Zenon
    <3> QED  BY <3>1, <3>2 DEF CourseOf, HasCron
  <2>2. CASE o # q
    <3>1. job'[o] = job[o] /\ CourseOf(o)
      BY <1>4, <2>2 DEF TriggersInvariant, OnCourse
    <3>2. o \in alone' => job[o].at \notin {"flip", "status"}
      BY <1>8, <2>2 DEF Settled
    <3> QED  BY <3>1, <3>2 DEF CourseOf, HasCron
  <2> QED  BY <2>1, <2>2
<1> QED  BY <1>5, <1>6, <1>7, <1>9, <1>10 DEF TriggersInvariant

-----------------------------------------------------------------------------
(* The steps of a request. *)
\* A step that moves the request on: no store of a deactivation that is alone
\* is undone, because no other request can be under way.
LEMMA GoOn ==
  ASSUME TriggersInvariant, NEW q \in Requests, ~ Settled(q),
         NEW place \in Places, GoTo(q, place),
         place \in {"upsert", "respec"} => HasCron(q),
         job[q].op = "deactivate" =>
           /\ place \in {"unschedule", "flip", "status", "done"}
           /\ place \in {"flip", "status"} /\ q \in alone => schedule' = None
           /\ place = "status" /\ q \in alone => Live' = {}
  PROVE  /\ job' \in [Requests -> Job]
         /\ AloneIsAlone' /\ OnCourse' /\ LatestIsLast' /\ DeactivationSilences'
         /\ UNCHANGED history
<1>1. UNCHANGED <<alone, latest, trouble>> /\ Moves(q, place)
  BY DEF GoTo, history
<1>2. job \in [Requests -> Job] /\ alone \subseteq Requests /\ latest \in Requests \cup {None}
  BY DEF TriggersInvariant, TypeOK
<1>3. /\ job' \in [Requests -> Job]
      /\ job'[q] = [job[q] EXCEPT !.at = place]
      /\ \A o \in Requests \ {q} : job'[o] = job[o]
  BY <1>1, <1>2, MovesTypes
<1>4. /\ job'[q].op = job[q].op /\ job'[q].at = place
      /\ job'[q].flag = job[q].flag /\ job'[q].template = job[q].template
  BY <1>2, <1>3, SMT DEF Job
<1>5. CourseOf(q)
  BY DEF TriggersInvariant, OnCourse
<1>6. CourseOf(q)'
  BY <1>1, <1>4, <1>5 DEF CourseOf, HasCron
<1> QED  BY <1>1, <1>2, <1>3, <1>6, OwnStep, NoneAssumption DEF TriggersInvariant, history

\* A step that answers the request.
LEMMA Finish ==
  ASSUME TriggersInvariant, NEW q \in Requests, ~ Settled(q), Answered(q),
         alone' \subseteq alone,
         \/ latest' \in {None, latest}
         \/ latest' = q /\ q \in alone /\ (job[q].op = "deactivate" => Silent')
  PROVE  /\ job' \in [Requests -> Job]
         /\ AloneIsAlone' /\ OnCourse' /\ LatestIsLast' /\ DeactivationSilences'
<1>1. job \in [Requests -> Job] /\ alone \subseteq Requests /\ latest \in Requests \cup {None}
  BY DEF TriggersInvariant, TypeOK
<1>2. /\ job' \in [Requests -> Job]
      /\ job'[q].at = "done" /\ job'[q].op = job[q].op /\ job'[q].flag = "off"
      /\ \A o \in Requests \ {q} : job'[o] = job[o]
  BY <1>1, AnsweredTypes
<1>3. CourseOf(q)'
  BY <1>2 DEF CourseOf
<1> QED  BY <1>1, <1>2, <1>3, OwnStep, NoneAssumption DEF TriggersInvariant

\* The invariant from its parts.
LEMMA Together ==
  ASSUME row' \in Row \cup {None}, endpoint' \in [Paths -> {"none", "on", "off"}],
         held' \in [Requests -> SUBSET Paths], HeldExist',
         schedule' \in Schedule \cup {None}, job' \in [Requests -> Job],
         alone' \subseteq Requests, latest' \in Requests \cup {None}, trouble' \in BOOLEAN,
         EndpointsBelong', AloneIsAlone', OnCourse', LatestIsLast',
         DeactivationSilences'
  PROVE  TriggersInvariant'
BY Zenon DEF TriggersInvariant, TypeOK

\* A deactivation never comes to the other requests' places.
LEMMA NotDeactivating ==
  ASSUME TriggersInvariant, NEW q \in Requests,
         job[q].at \notin {"unschedule", "flip", "status", "done"}
  PROVE  job[q].op # "deactivate"
BY DEF TriggersInvariant, OnCourse, CourseOf

\* A step that leaves the endpoints alone and does not delete the row.
LEMMA SameEndpoints ==
  ASSUME TriggersInvariant, UNCHANGED rows, row' = None => row = None
  PROVE  /\ EndpointsBelong' /\ HeldExist' /\ UNCHANGED <<endpoint, held>>
<1>1. UNCHANGED <<endpoint, held>>
  BY DEF rows
<1> QED  BY <1>1 DEF TriggersInvariant, TypeOK, EndpointsBelong, HeldExist, Rows

\* The row's steps, besides its deletion.
LEMMA InsertPreserves ==
  ASSUME TriggersInvariant, NEW q \in Requests, InsertRow(q), trouble' \in BOOLEAN
  PROVE  TriggersInvariant'
<1> USE DEF TriggersInvariant, TypeOK
<1>1. At(q, "insert") /\ GoTo(q, "read") /\ UNCHANGED <<rows, schedule>>
  BY DEF InsertRow
<1>2. ~ Settled(q) /\ job[q].op # "deactivate"
  BY <1>1, NotDeactivating DEF At, Settled
<1>3. row' \in Row
  <2>1. job[q].template \in Template
    BY DEF Job
  <2>2. row' = [status |-> "draft", template |-> job[q].template]
    BY DEF InsertRow
  <2> QED  BY <2>1, <2>2 DEF Row
<1>4. EndpointsBelong' /\ HeldExist' /\ UNCHANGED <<endpoint, held>>
  <2>1. row' # None
    BY <1>3, NoneAssumption
  <2> QED  BY <1>1, <2>1, SameEndpoints
<1> QED  BY <1>1, <1>2, <1>3, <1>4, GoOn, Together DEF Places, history

\* What a request's end leaves in the history.
LEMMA AfterEnd ==
  ASSUME NEW q \in Requests, NEW ok \in BOOLEAN, Ends(q, ok)
  PROVE  /\ Answered(q)
         /\ UNCHANGED alone
         /\ latest' = None \/ (latest' = q /\ q \in alone)
<1>1. Answered(q) /\ UNCHANGED alone
  BY DEF Ends
<1>2. CASE q \in alone
  BY <1>1, <1>2, Zenon DEF Ends
<1>3. CASE q \notin alone
  <2>1. latest' = None
    BY <1>3, SMT DEF Ends
  <2> QED  BY <1>1, <2>1
<1> QED  BY <1>2, <1>3

LEMMA WritePreserves ==
  ASSUME TriggersInvariant, NEW q \in Requests, WriteTemplate(q), trouble' \in BOOLEAN
  PROVE  TriggersInvariant'
<1> USE DEF TriggersInvariant, TypeOK
<1>1. At(q, "write") /\ UNCHANGED <<rows, schedule>>
  BY DEF WriteTemplate
<1>2. ~ Settled(q) /\ job[q].op # "deactivate"
  BY <1>1, NotDeactivating DEF At, Settled
<1>3. CASE /\ row # None
           /\ row' = [row EXCEPT !.template = job[q].template]
           /\ GoTo(q, IF job[q].flag = "off" THEN "read"
                      ELSE IF HasCron(q) THEN "upsert" ELSE "unschedule")
  <2>1. row' \in Row
    <3>1. row \in Row /\ job[q].template \in Template
      BY <1>3 DEF Job
    <3> QED  BY <1>3, <3>1 DEF Row
  <2>2. row' # None
    BY <2>1, NoneAssumption
  <2>3. EndpointsBelong' /\ HeldExist' /\ UNCHANGED <<endpoint, held>>
    BY <1>1, <2>2, SameEndpoints
  <2>4. PICK place \in {"read", "upsert", "unschedule"} :
          GoTo(q, place) /\ (place = "upsert" => HasCron(q))
    BY <1>3
  <2> QED  BY <1>1, <1>2, <2>1, <2>3, <2>4, GoOn, Together DEF Places, history
<1>4. CASE row = None /\ UNCHANGED row /\ Ends(q, FALSE)
  <2>1. Answered(q) /\ latest' = None /\ UNCHANGED alone
    BY <1>4 DEF Ends
  <2>2. EndpointsBelong' /\ HeldExist' /\ UNCHANGED <<endpoint, held>>
    BY <1>1, <1>4, SameEndpoints
  <2> QED  BY <1>1, <1>2, <1>4, <2>1, <2>2, Finish, Together
<1> QED  BY <1>3, <1>4 DEF WriteTemplate

\* A deactivation that comes here alone has emptied the other two stores.
LEMMA StatusPreserves ==
  ASSUME TriggersInvariant, NEW q \in Requests, SetStatus(q), trouble' \in BOOLEAN
  PROVE  TriggersInvariant'
<1> USE DEF TriggersInvariant, TypeOK
<1>1. At(q, "status") /\ UNCHANGED <<rows, schedule>>
  BY DEF SetStatus
<1>2. ~ Settled(q)
  BY <1>1 DEF At, Settled
<1>3. CASE /\ row # None
           /\ row' = [row EXCEPT !.status = IF job[q].flag = "on" THEN "active"
                                            ELSE "inactive"]
           /\ Ends(q, TRUE)
  <2>1. row \in Row
    BY <1>3
  <2>2. row' \in Row
    BY <1>3, <2>1 DEF Row
  <2>3. row' # None
    BY <2>2, NoneAssumption
  <2>4. EndpointsBelong' /\ HeldExist' /\ UNCHANGED <<endpoint, held>>
    BY <1>1, <2>3, SameEndpoints
  <2>5. Answered(q) /\ UNCHANGED alone /\ latest' = IF q \in alone THEN q ELSE None
    BY <1>3 DEF Ends
  <2>6. ASSUME q \in alone, job[q].op = "deactivate" PROVE Silent'
    <3>1. job[q].flag = "off" /\ schedule = None /\ Live = {}
      BY <1>1, <2>6 DEF OnCourse, CourseOf, At
    <3>2. row'.status = "inactive"
      BY <1>3, <2>1, <3>1 DEF Row
    <3> QED  BY <1>1, <3>1, <3>2 DEF Silent, Live, rows
  <2> QED  BY <1>1, <1>2, <2>2, <2>4, <2>5, <2>6, Finish, Together
<1>4. CASE row = None /\ UNCHANGED row /\ Ends(q, FALSE)
  <2>1. Answered(q) /\ latest' = None /\ UNCHANGED alone
    BY <1>4 DEF Ends
  <2>2. EndpointsBelong' /\ HeldExist' /\ UNCHANGED <<endpoint, held>>
    BY <1>1, <1>4, SameEndpoints
  <2> QED  BY <1>1, <1>2, <1>4, <2>1, <2>2, Finish, Together
<1> QED  BY <1>3, <1>4 DEF SetStatus

LEMMA DeletePreserves ==
  ASSUME TriggersInvariant, NEW q \in Requests, DeleteRow(q), trouble' \in BOOLEAN
  PROVE  TriggersInvariant'
<1> USE DEF TriggersInvariant, TypeOK
<1>1. At(q, "delete") /\ UNCHANGED schedule
  BY DEF DeleteRow
<1>2. ~ Settled(q) /\ job[q].op # "deactivate"
  BY <1>1, NotDeactivating DEF At, Settled
<1>3. /\ row' = None
      /\ endpoint' \in [Paths -> {"none", "on", "off"}]
      /\ held' \in [Requests -> SUBSET Paths]
      /\ EndpointsBelong' /\ HeldExist'
  <2>1. CASE /\ row' = None
             /\ endpoint' = [p \in Paths |-> "none"]
             /\ held' = [o \in Requests |-> {}]
    BY <2>1, SMT DEF EndpointsBelong, HeldExist, Rows
  <2>2. CASE row = None /\ UNCHANGED <<row, rows>>
    BY <2>2, SameEndpoints
  <2> QED  BY <2>1, <2>2 DEF DeleteRow
<1>4. Answered(q) /\ UNCHANGED alone /\ (latest' = None \/ (latest' = q /\ q \in alone))
  <2>1. CASE Ends(q, TRUE)
    BY <2>1, AfterEnd
  <2>2. CASE Ends(q, FALSE)
    BY <2>2, AfterEnd
  <2> QED  BY <2>1, <2>2 DEF DeleteRow
<1> QED  BY <1>1, <1>2, <1>3, <1>4, Finish, Together

-----------------------------------------------------------------------------
(* The schedule's steps. *)
LEMMA UpsertSchedulePreserves ==
  ASSUME TriggersInvariant, NEW q \in Requests, UpsertSchedule(q), trouble' \in BOOLEAN
  PROVE  TriggersInvariant'
<1> USE DEF TriggersInvariant, TypeOK
<1>1. At(q, "upsert") /\ UNCHANGED <<row, rows>>
  BY DEF UpsertSchedule
<1>2. ~ Settled(q) /\ job[q].op # "deactivate"
  BY <1>1, NotDeactivating DEF At, Settled
<1>3. EndpointsBelong' /\ HeldExist' /\ UNCHANGED <<endpoint, held>>
  BY <1>1, SameEndpoints
<1>4. PICK place \in {"read", "respec"} : GoTo(q, place)
  BY DEF UpsertSchedule
<1>5. HasCron(q)
  BY <1>1 DEF OnCourse, CourseOf, At
<1>6. schedule' \in Schedule \cup {None}
  <2>1. CASE schedule' = [cron |-> job[q].template.cron, template |-> job[q].template]
    <3>1. job[q].template \in Template
      BY DEF Job
    <3>2. job[q].template.cron # None
      BY <1>5 DEF HasCron
    <3> QED  BY <2>1, <3>1, <3>2 DEF Schedule, Template
  <2>2. CASE UNCHANGED schedule
    BY <2>2
  <2> QED  BY <2>1, <2>2 DEF UpsertSchedule
<1> QED  BY <1>1, <1>2, <1>3, <1>4, <1>5, <1>6, GoOn, Together DEF Places, history

LEMMA UpdateSchedulePreserves ==
  ASSUME TriggersInvariant, NEW q \in Requests, UpdateSchedule(q), trouble' \in BOOLEAN
  PROVE  TriggersInvariant'
<1> USE DEF TriggersInvariant, TypeOK
<1>1. At(q, "respec") /\ UNCHANGED <<row, rows>>
  BY DEF UpdateSchedule
<1>2. ~ Settled(q) /\ job[q].op # "deactivate"
  BY <1>1, NotDeactivating DEF At, Settled
<1>3. EndpointsBelong' /\ HeldExist' /\ UNCHANGED <<endpoint, held>>
  BY <1>1, SameEndpoints
<1>4. CASE /\ schedule # None
           /\ schedule' = [schedule EXCEPT !.cron = job[q].template.cron]
           /\ GoTo(q, "read")
  <2>1. job[q].template \in Template /\ job[q].template.cron # None
    BY <1>1 DEF Job, OnCourse, CourseOf, At, HasCron
  <2>2. schedule' \in Schedule
    BY <1>4, <2>1 DEF Schedule, Template
  <2> QED  BY <1>1, <1>2, <1>3, <1>4, <2>2, GoOn, Together DEF Places, history
<1>5. CASE schedule = None /\ UNCHANGED schedule /\ Ends(q, FALSE)
  <2>1. Answered(q) /\ latest' = None /\ UNCHANGED alone
    BY <1>5 DEF Ends
  <2> QED  BY <1>1, <1>2, <1>3, <1>5, <2>1, Finish, Together
<1> QED  BY <1>4, <1>5 DEF UpdateSchedule

\* A deactivation that is alone leaves this place with no schedule.
LEMMA DeleteSchedulePreserves ==
  ASSUME TriggersInvariant, NEW q \in Requests, DeleteSchedule(q), trouble' \in BOOLEAN
  PROVE  TriggersInvariant'
<1> USE DEF TriggersInvariant, TypeOK
<1>1. At(q, "unschedule") /\ UNCHANGED <<row, rows>> /\ schedule' = None
  BY DEF DeleteSchedule
<1>2. ~ Settled(q)
  BY <1>1 DEF At, Settled
<1>3. EndpointsBelong' /\ HeldExist' /\ UNCHANGED <<endpoint, held>>
  BY <1>1, SameEndpoints
<1>4. PICK place \in {"flip", "read"} :
        GoTo(q, place) /\ (job[q].op = "deactivate" => place = "flip")
  BY DEF DeleteSchedule, AfterSchedule
<1> QED  BY <1>1, <1>2, <1>3, <1>4, GoOn, Together DEF Places, history

-----------------------------------------------------------------------------
(* The endpoints' steps. *)
\* A step of the synchronisation changes what the request remembers of the
\* endpoints, and no deactivation comes here.
LEMMA SyncStep ==
  ASSUME TriggersInvariant, NEW q \in Requests,
         job[q].at \in {"read", "prune", "upsertRows"},
         NEW record \in Job, job' = [job EXCEPT ![q] = record],
         record.op = job[q].op, record.at \in {"prune", "upsertRows"},
         UNCHANGED history
  PROVE  /\ job' \in [Requests -> Job]
         /\ AloneIsAlone' /\ OnCourse' /\ LatestIsLast' /\ DeactivationSilences'
<1>1. job \in [Requests -> Job] /\ alone \subseteq Requests /\ latest \in Requests \cup {None}
  BY DEF TriggersInvariant, TypeOK
<1>2. ~ Settled(q) /\ job[q].op # "deactivate"
  BY NotDeactivating DEF Settled
<1>3. job'[q] = record /\ (\A o \in Requests \ {q} : job'[o] = job[o])
  BY <1>1, Zenon
<1>4. job' \in [Requests -> Job]
  BY <1>1, Zenon
<1>5. CourseOf(q)'
  BY <1>2, <1>3 DEF CourseOf
<1>6. UNCHANGED <<alone, latest>>
  BY DEF history
<1> QED  BY <1>1, <1>2, <1>3, <1>4, <1>5, <1>6, OwnStep, NoneAssumption DEF TriggersInvariant

LEMMA ReadPreserves ==
  ASSUME TriggersInvariant, NEW q \in Requests, ReadEndpoints(q), trouble' \in BOOLEAN
  PROVE  TriggersInvariant'
<1> USE DEF TriggersInvariant, TypeOK
<1> DEFINE record == [job[q] EXCEPT !.at = "prune", !.known = Rows]
<1>1. /\ At(q, "read") /\ UNCHANGED <<row, endpoint, schedule, history>>
      /\ job' = [job EXCEPT ![q] = record]
  BY DEF ReadEndpoints
<1>2. record \in Job /\ record.op = job[q].op /\ record.at = "prune"
  <2>1. job[q] \in Job /\ "prune" \in Places /\ Rows \in SUBSET Paths
    BY DEF Places, Rows
  <2>2. record \in Job
    BY <2>1, Zenon DEF Job
  <2>3. record.op = job[q].op /\ record.at = "prune"
    BY <2>1, Zenon DEF Job
  <2> QED  BY <2>2, <2>3
<1>3. held' = [held EXCEPT ![q] = Rows] /\ Rows' = Rows
  BY DEF ReadEndpoints, Rows
<1>4. held' \in [Requests -> SUBSET Paths] /\ HeldExist'
  <2>1. Rows \in SUBSET Paths
    BY DEF Rows
  <2> QED  BY <1>3, <2>1, SMT DEF HeldExist
<1>5. EndpointsBelong'
  BY <1>1, <1>3 DEF EndpointsBelong
<1> HIDE DEF record
<1> QED  BY <1>1, <1>2, <1>4, <1>5, SyncStep, Together DEF At, history

LEMMA PrunePreserves ==
  ASSUME TriggersInvariant, NEW q \in Requests, PruneEndpoints(q), trouble' \in BOOLEAN
  PROVE  TriggersInvariant'
<1> USE DEF TriggersInvariant, TypeOK
<1> DEFINE record == [job[q] EXCEPT !.at = "upsertRows", !.left = job[q].template.paths]
<1> DEFINE gone == held[q] \ job[q].template.paths
<1>1. /\ At(q, "prune") /\ UNCHANGED <<row, schedule, history>>
      /\ job' = [job EXCEPT ![q] = record]
  BY DEF PruneEndpoints
<1>2. record \in Job /\ record.op = job[q].op /\ record.at = "upsertRows"
  <2>1. job[q] \in Job /\ "upsertRows" \in Places /\ job[q].template.paths \in SUBSET Paths
    BY DEF Places, Job, Template
  <2>2. record \in Job
    BY <2>1, Zenon DEF Job
  <2>3. record.op = job[q].op /\ record.at = "upsertRows"
    BY <2>1, Zenon DEF Job
  <2> QED  BY <2>2, <2>3
<1>3. /\ endpoint' = [p \in Paths |-> IF p \in gone THEN "none" ELSE endpoint[p]]
      /\ held' = [o \in Requests |-> held[o] \ gone]
  BY DEF PruneEndpoints
<1> HIDE DEF record, gone
<1>4. /\ endpoint' \in [Paths -> {"none", "on", "off"}]
      /\ held' \in [Requests -> SUBSET Paths]
  BY <1>3, SMT
<1>5. Rows' = Rows \ gone
  BY <1>3, SMT DEF Rows
<1>6. EndpointsBelong' /\ HeldExist'
  BY <1>1, <1>3, <1>5 DEF EndpointsBelong, HeldExist
<1> QED  BY <1>1, <1>2, <1>4, <1>6, SyncStep, Together DEF At, history

\* The row that is written was there already, or its path is free and the
\* workflow exists.
LEMMA UpsertPreserves ==
  ASSUME TriggersInvariant, NEW q \in Requests, UpsertEndpoint(q), trouble' \in BOOLEAN
  PROVE  TriggersInvariant'
<1> USE DEF TriggersInvariant, TypeOK
<1>1. At(q, "upsertRows") /\ UNCHANGED <<row, held, schedule, history>>
  BY DEF UpsertEndpoint
<1>2. PICK p \in job[q].left :
         /\ IF p \in job[q].known THEN p \in held[q]
            ELSE p \notin Taken /\ endpoint[p] = "none" /\ row # None
         /\ UpsertSetsFlag(q, p)
         /\ job' = [job EXCEPT ![q].left = @ \ {p}]
  BY DEF UpsertEndpoint
<1> DEFINE record == [job[q] EXCEPT !.left = job[q].left \ {p}]
<1>3. p \in Paths /\ job[q].flag \in {"on", "off"}
  BY DEF Job
<1>4. record \in Job /\ record.op = job[q].op /\ record.at = "upsertRows"
  BY <1>1, SMT DEF Job, At
<1>5. job' = [job EXCEPT ![q] = record]
  BY <1>2
<1>6. endpoint' = [endpoint EXCEPT ![p] = job[q].flag]
  BY <1>2 DEF UpsertSetsFlag
<1>7. endpoint' \in [Paths -> {"none", "on", "off"}]
  BY <1>3, <1>6, SMT
<1>8. p \notin Taken /\ row # None
  BY <1>2, <1>3 DEF EndpointsBelong, HeldExist, Rows
<1>9. Rows' = Rows \cup {p}
  BY <1>3, <1>6, SMT DEF Rows
<1>10. EndpointsBelong' /\ HeldExist'
  BY <1>1, <1>8, <1>9 DEF EndpointsBelong, HeldExist
<1> HIDE DEF record
<1> QED  BY <1>1, <1>4, <1>5, <1>7, <1>10, SyncStep, Together DEF At, history

\* The synchronisation is over.
LEMMA AfterSyncPreserves ==
  ASSUME TriggersInvariant, NEW q \in Requests, At(q, "upsertRows"), AfterSync(q),
         UNCHANGED stores, trouble' \in BOOLEAN
  PROVE  TriggersInvariant'
<1> USE DEF TriggersInvariant, TypeOK
<1>1. ~ Settled(q) /\ job[q].op # "deactivate"
  BY NotDeactivating DEF At, Settled
<1>2. EndpointsBelong' /\ HeldExist' /\ UNCHANGED <<row, endpoint, held, schedule>>
  BY SameEndpoints DEF stores
<1>3. CASE GoTo(q, "status")
  BY <1>1, <1>2, <1>3, GoOn, Together DEF Places, history
<1>4. CASE Ends(q, TRUE)
  BY <1>1, <1>2, <1>4, AfterEnd, Finish, Together
<1> QED  BY <1>3, <1>4 DEF AfterSync

\* A deactivation that is alone leaves this place with no live endpoint.
LEMMA FlipPreserves ==
  ASSUME TriggersInvariant, NEW q \in Requests, FlipEndpoints(q), trouble' \in BOOLEAN
  PROVE  TriggersInvariant'
<1> USE DEF TriggersInvariant, TypeOK
<1>1. At(q, "flip") /\ GoTo(q, "status") /\ UNCHANGED <<row, held, schedule>>
  BY DEF FlipEndpoints
<1>2. ~ Settled(q)
  BY <1>1 DEF At, Settled
<1>3. endpoint' = [p \in Paths |-> IF endpoint[p] = "none" THEN "none" ELSE "off"]
  BY DEF FlipEndpoints
<1>4. endpoint' \in [Paths -> {"none", "on", "off"}] /\ Live' = {} /\ Rows' = Rows
  BY <1>3, SMT DEF Live, Rows
<1>5. EndpointsBelong' /\ HeldExist'
  BY <1>1, <1>4 DEF EndpointsBelong, HeldExist
<1>6. job[q].op = "deactivate" /\ q \in alone => schedule' = None
  BY <1>1 DEF OnCourse, CourseOf, At
<1> QED  BY <1>1, <1>2, <1>4, <1>5, <1>6, GoOn, Together DEF Places, history

-----------------------------------------------------------------------------
(* Failures: the request is not alone afterwards, or it ends. *)
LEMMA FailurePreserves ==
  ASSUME TriggersInvariant, NEW q \in Requests, ~ Settled(q),
         \/ Answered(q) /\ alone' \subseteq alone
         \/ /\ alone' = alone \ {q}
            /\ \E place \in {"read", "flip", "status"} :
                 /\ Moves(q, place)
                 /\ job[q].op = "deactivate" => place # "read",
         latest' = None, UNCHANGED stores, trouble' \in BOOLEAN
  PROVE  TriggersInvariant'
<1> USE DEF TriggersInvariant, TypeOK
<1>1. EndpointsBelong' /\ HeldExist' /\ UNCHANGED <<row, endpoint, held, schedule>>
  BY SameEndpoints DEF stores
<1>2. CASE Answered(q) /\ alone' \subseteq alone
  BY <1>1, <1>2, Finish, Together
<1>3. CASE /\ alone' = alone \ {q}
           /\ \E place \in {"read", "flip", "status"} :
                /\ Moves(q, place)
                /\ job[q].op = "deactivate" => place # "read"
  <2>1. PICK place \in {"read", "flip", "status"} :
          /\ Moves(q, place)
          /\ job[q].op = "deactivate" => place # "read"
    BY <1>3
  <2>2. place \in Places
    BY DEF Places
  <2>3. /\ job' \in [Requests -> Job]
        /\ job'[q] = [job[q] EXCEPT !.at = place]
        /\ \A o \in Requests \ {q} : job'[o] = job[o]
    BY <2>1, <2>2, MovesTypes
  <2>4. job'[q].op = job[q].op /\ job'[q].at = place /\ job'[q].flag = job[q].flag
    BY <2>3, SMT DEF Job
  <2>5. CourseOf(q)
    BY DEF OnCourse
  <2>6. CourseOf(q)'
    BY <1>3, <2>1, <2>4, <2>5 DEF CourseOf
  <2>7. AloneIsAlone' /\ OnCourse' /\ LatestIsLast' /\ DeactivationSilences'
    BY <1>3, <2>3, <2>6, OwnStep, NoneAssumption
  <2> QED  BY <1>1, <1>3, <2>3, <2>7, Together
<1> QED  BY <1>2, <1>3

LEMMA FailsQuietlyPreserves ==
  ASSUME TriggersInvariant, NEW q \in Requests, FailsQuietly(q), trouble' \in BOOLEAN
  PROVE  TriggersInvariant'
<1>1. ~ Settled(q) /\ alone' = alone \ {q} /\ latest' = None /\ UNCHANGED stores
  BY DEF FailsQuietly, At, Settled
<1>2. job[q].at \in {"upsert", "read", "prune", "upsertRows"} => job[q].op # "deactivate"
  BY NotDeactivating
<1>3. \/ Answered(q)
      \/ \E place \in {"read", "flip", "status"} :
           /\ Moves(q, place)
           /\ job[q].op = "deactivate" => place # "read"
  BY <1>2 DEF FailsQuietly, At, AfterSchedule
<1> QED  BY <1>1, <1>3, FailurePreserves

-----------------------------------------------------------------------------
LEMMA StepPreserves == TriggersInvariant /\ [Next]_vars => TriggersInvariant'
<1> SUFFICES ASSUME TriggersInvariant, [Next]_vars PROVE TriggersInvariant'
  OBVIOUS
<1>1. CASE Next
  <2>1. trouble' \in BOOLEAN
    BY <1>1, TroubleTypes DEF TriggersInvariant
  <2>2. PICK q \in Requests : Begin(q) \/ Step(q) \/ FailsQuietly(q) \/ Aborts(q)
    BY <1>1 DEF Next
  <2>3. CASE Begin(q)
    BY <2>1, <2>3, BeginPreserves
  <2>4. CASE \/ InsertRow(q) \/ WriteTemplate(q) \/ SetStatus(q) \/ DeleteRow(q)
             \/ UpsertSchedule(q) \/ UpdateSchedule(q) \/ DeleteSchedule(q)
    BY <2>1, <2>4, InsertPreserves, WritePreserves, StatusPreserves, DeletePreserves,
       UpsertSchedulePreserves, UpdateSchedulePreserves, DeleteSchedulePreserves
  <2>5. CASE ReadEndpoints(q) \/ PruneEndpoints(q) \/ UpsertEndpoint(q) \/ FlipEndpoints(q)
    BY <2>1, <2>5, ReadPreserves, PrunePreserves, UpsertPreserves, FlipPreserves
  <2>6. CASE UpsertGivesUp(q) \/ EndpointsDone(q)
    BY <2>1, <2>6, AfterSyncPreserves DEF UpsertGivesUp, EndpointsDone
  <2>7. CASE UpsertConflicts(q)
    <3>1. ~ Settled(q) /\ Answered(q) /\ alone' \subseteq alone
      BY <2>7 DEF UpsertConflicts, At, Settled
    <3>2. latest' = None /\ UNCHANGED stores
      BY <2>7 DEF UpsertConflicts
    <3> QED  BY <2>1, <3>1, <3>2, FailurePreserves
  <2>8. CASE FailsQuietly(q)
    BY <2>1, <2>8, FailsQuietlyPreserves
  <2>9. CASE Aborts(q)
    <3>1. /\ ~ Settled(q) /\ Answered(q) /\ alone' \subseteq alone
          /\ latest' = None /\ UNCHANGED stores
      BY <2>9 DEF Aborts
    <3> QED  BY <2>1, <3>1, FailurePreserves
  <2> QED  BY <2>2, <2>3, <2>4, <2>5, <2>6, <2>7, <2>8, <2>9 DEF Step
<1>2. CASE UNCHANGED vars
  <2>1. UNCHANGED <<row, endpoint, held, schedule, job, alone, latest, trouble>>
    BY <1>2 DEF vars, stores, rows, history
  <2> QED  BY <2>1 DEF TriggersInvariant, TypeOK, EndpointsBelong, HeldExist, Rows, AloneIsAlone,
             OnCourse, CourseOf, HasCron, Live, LatestIsLast, Rest, Settled,
             DeactivationSilences, Silent
<1> QED  BY <1>1, <1>2

-----------------------------------------------------------------------------
\* The inductive invariant of the three stores: for any number of concurrent
\* requests, what a deactivation that is alone has switched off stays off.
THEOREM TriggersInvariantHolds == Spec => []TriggersInvariant
BY InitEstablishes, StepPreserves, PTL DEF Spec

\* Type correctness of the workflow, its endpoints, its schedule and its
\* requests.
THEOREM TriggersTypes == Spec => []TypeOK
<1>1. TriggersInvariant => TypeOK
  BY DEF TriggersInvariant
<1> QED  BY <1>1, TriggersInvariantHolds, PTL

\* syncEndpointsForWorkflow never registers another workflow's path, and the
\* endpoints go with the workflow, whatever the requests and failures.
THEOREM EndpointsAreOwned == Spec => []EndpointsBelong
<1>1. TriggersInvariant => EndpointsBelong
  BY DEF TriggersInvariant
<1> QED  BY <1>1, TriggersInvariantHolds, PTL

\* deactivateWorkflow, run alone and without a failed call, leaves no schedule
\* and no live endpoint, whatever came before it.
THEOREM DeactivationIsSilent == Spec => []DeactivationSilences
<1>1. TriggersInvariant => DeactivationSilences
  BY DEF TriggersInvariant
<1> QED  BY <1>1, TriggersInvariantHolds, PTL

-----------------------------------------------------------------------------
(* The inductive invariant behind ActivationRepairs and StoresAgree. *)
Syncing == {"read", "prune", "upsertRows"}

\* The places of each request, from its first to its last.
PlacesOf(op) ==
  CASE op = "create"     -> {"insert"} \cup Syncing
    [] op = "activate"   -> {"upsert", "respec", "status"} \cup Syncing
    [] op = "deactivate" -> {"unschedule", "flip", "status"}
    [] op = "update"     -> {"write", "upsert", "respec", "unschedule"} \cup Syncing
    [] op = "delete"     -> {"delete"}

\* What a request knows of itself, whoever else is under way.
KnowsItself(q) ==
  ~ Settled(q) =>
    /\ job[q].at \in PlacesOf(job[q].op)
    /\ job[q].op = "create" => job[q].flag = "off"
    /\ job[q].op = "activate" => job[q].flag = "on"
    /\ job[q].op = "update" /\ job[q].at \in {"upsert", "respec", "unschedule"} =>
         job[q].flag = "on"
    /\ job[q].op = "update" /\ job[q].at = "unschedule" => ~ HasCron(q)

\* The workflow has the template that the request works with.
HasTemplate(q) == row # None /\ row.template = job[q].template

SpecSet(q) == schedule # None /\ schedule.cron = job[q].template.cron

\* What a request that is alone knows of the stores at each place: nobody else
\* has written them since it began.
FindsItsWork(q) ==
  /\ job[q].at \in {"upsert", "respec"} \cup Syncing => HasTemplate(q)
  /\ job[q].op = "update" /\ job[q].at = "unschedule" => HasTemplate(q)
  /\ job[q].at = "respec" => schedule # None
  /\ job[q].at \in Syncing /\ job[q].flag = "on" /\ HasCron(q) => SpecSet(q)
  /\ job[q].at = "prune" => held[q] = job[q].known /\ held[q] = Rows
  /\ job[q].at = "upsertRows" =>
       /\ job[q].left \subseteq job[q].template.paths
       /\ held[q] = job[q].known \cap job[q].template.paths
       /\ Rows = held[q] \cup (job[q].template.paths \ job[q].left)
       /\ \A p \in job[q].template.paths \ job[q].left : endpoint[p] = job[q].flag
  /\ job[q].op = "activate" /\ job[q].at = "status" =>
       /\ HasTemplate(q)
       /\ HasCron(q) => SpecSet(q)
       /\ Rows = job[q].template.paths /\ Live = Rows

\* What is more where no request has overlapped another or failed: it found the
\* stores in agreement.
FindsAgreement(q) ==
  /\ job[q].op = "create" =>
       IF job[q].at = "insert" THEN row = None /\ schedule = None
       ELSE row.status # "active" /\ schedule = None
  /\ job[q].op = "activate" /\ ~ HasCron(q) => schedule = None
  /\ job[q].op = "deactivate" => row # None /\ Rows = row.template.paths
  /\ job[q].op = "update" =>
       /\ row # None /\ (row.status = "active" <=> job[q].flag = "on")
       /\ job[q].at = "write" => Agreement
       /\ job[q].at \in Syncing /\ ~ (job[q].flag = "on" /\ HasCron(q)) => schedule = None

OneCreate ==
  (\A q \in Requests : job[q].op # "create") =>
    row = None /\ schedule = None /\ \A q \in Requests : At(q, "idle")

NoIdleCreate == \A q \in Requests : At(q, "idle") => job[q].op # "create"

\* Requests that are alone, and those of a history without trouble, find what
\* they left; the stores agree whenever such a request has ended.
RequestsInvariant ==
  /\ \A q \in Requests : KnowsItself(q)
  /\ \A q \in alone : ~ Settled(q) => FindsItsWork(q)
  /\ ~ trouble => \A q \in Requests : ~ Settled(q) => q \in alone /\ FindsAgreement(q)
  /\ OneCreate /\ NoIdleCreate
  /\ ActivationRepairs
  /\ StoresAgree

LEMMA RequestsInit == Init => RequestsInvariant
<1> SUFFICES ASSUME Init PROVE RequestsInvariant
  OBVIOUS
<1>1. \A q \in Requests : job[q].at = "idle" /\ job[q].op = "delete"
  BY SMT DEF Init, Fresh
<1>2. \A q \in Requests : Settled(q)
  BY <1>1 DEF Settled
<1>3. row = None /\ schedule = None /\ alone = {} /\ latest = None
  BY DEF Init
<1> QED  BY <1>1, <1>2, <1>3 DEF RequestsInvariant, KnowsItself, OneCreate, NoIdleCreate, At,
           ActivationRepairs, StoresAgree

\* What a request has read stays when it moves.
LEMMA MovesFields ==
  ASSUME job \in [Requests -> Job], NEW q \in Requests, NEW place \in Places, Moves(q, place)
  PROVE  /\ job'[q].at = place
         /\ job'[q].op = job[q].op /\ job'[q].template = job[q].template
         /\ job'[q].flag = job[q].flag /\ job'[q].known = job[q].known
         /\ job'[q].left = job[q].left
         /\ \A o \in Requests \ {q} : job'[o] = job[o]
<1>1. job'[q] = [job[q] EXCEPT !.at = place] /\ \A o \in Requests \ {q} : job'[o] = job[o]
  BY MovesTypes
<1>2. job[q] \in Job
  OBVIOUS
<1> QED  BY <1>1, <1>2, SMT DEF Job

\* A step of a request under way: others that are under way do not rely on
\* being alone.
LEMMA OwnRequest ==
  ASSUME TriggersInvariant, RequestsInvariant, alone' \subseteq Requests,
         NEW q \in Requests, ~ Settled(q),
         \A o \in Requests \ {q} : job'[o] = job[o],
         job'[q].op = job[q].op, job'[q].at # "idle",
         alone' \subseteq alone, trouble => trouble',
         KnowsItself(q)',
         q \in alone' /\ ~ Settled(q)' => FindsItsWork(q)',
         ~ trouble' /\ ~ Settled(q)' => q \in alone' /\ FindsAgreement(q)',
         ActivationRepairs', StoresAgree'
  PROVE  RequestsInvariant'
<1>1. \A o \in Requests \ {q} : (Settled(o)' = Settled(o)) /\ (o \in alone => Settled(o))
  BY DEF TriggersInvariant, AloneIsAlone, Settled
<1>2. \A o \in Requests : KnowsItself(o)'
  <2> SUFFICES ASSUME NEW o \in Requests, o # q PROVE KnowsItself(o)'
    OBVIOUS
  <2>1. job'[o] = job[o] /\ KnowsItself(o)
    BY DEF RequestsInvariant
  <2> QED  BY <2>1 DEF KnowsItself, Settled, HasCron
<1>3. \A o \in alone' : ~ Settled(o)' => FindsItsWork(o)'
  BY <1>1
<1>4. ASSUME ~ trouble', NEW o \in Requests, ~ Settled(o)'
      PROVE  o \in alone' /\ FindsAgreement(o)'
  <2>1. q \in alone
    BY <1>4 DEF RequestsInvariant
  <2>2. o = q
    BY <1>1, <1>4, <2>1 DEF TriggersInvariant, AloneIsAlone
  <2> QED  BY <1>4, <2>2
<1>5. OneCreate' /\ NoIdleCreate'
  <2>1. \A o \in Requests : job'[o].op = job[o].op
    OBVIOUS
  <2>2. ~ At(q, "idle")
    BY DEF At, Settled
  <2>3. \E o \in Requests : job'[o].op = "create"
    BY <2>1, <2>2 DEF RequestsInvariant, OneCreate
  <2> QED  BY <2>3 DEF RequestsInvariant, OneCreate, NoIdleCreate, At
<1> QED  BY <1>2, <1>3, <1>4, <1>5 DEF RequestsInvariant

\* It moves on with the history untouched.
LEMMA MovesOn ==
  ASSUME TriggersInvariant, RequestsInvariant, NEW q \in Requests, ~ Settled(q),
         \A o \in Requests \ {q} : job'[o] = job[o],
         job'[q].op = job[q].op, job'[q].at \notin {"idle", "done"},
         UNCHANGED history, KnowsItself(q)',
         q \in alone => FindsItsWork(q)',
         ~ trouble /\ q \in alone => FindsAgreement(q)'
  PROVE  RequestsInvariant'
<1>1. UNCHANGED <<alone, latest, trouble>> /\ alone \subseteq Requests
  BY DEF history, TriggersInvariant, TypeOK
<1>2. latest = None
  BY DEF TriggersInvariant, LatestIsLast, Rest
<1>3. ActivationRepairs'
  BY <1>1, <1>2 DEF ActivationRepairs
<1>4. StoresAgree'
  BY DEF StoresAgree, Rest, Settled
<1>5. ~ trouble => q \in alone
  BY DEF RequestsInvariant
<1> QED  BY <1>1, <1>3, <1>4, <1>5, OwnRequest

\* It ends.
LEMMA EndsWell ==
  ASSUME TriggersInvariant, RequestsInvariant, NEW q \in Requests, ~ Settled(q),
         Answered(q), alone' \subseteq alone, trouble => trouble',
         latest' = None \/ (latest' = q /\ (job[q].op = "activate" => ActivationRepairs')),
         ~ trouble' /\ q \in alone /\ row' # None => Agreement'
  PROVE  RequestsInvariant'
<1>1. job \in [Requests -> Job] /\ alone \subseteq Requests
  BY DEF TriggersInvariant, TypeOK
<1>2. /\ job'[q].at = "done" /\ job'[q].op = job[q].op
      /\ \A o \in Requests \ {q} : job'[o] = job[o]
  BY <1>1, AnsweredTypes
<1>3. Settled(q)' /\ KnowsItself(q)'
  BY <1>2 DEF Settled, KnowsItself
<1>4. ActivationRepairs'
  BY <1>2 DEF ActivationRepairs
<1>5. ~ trouble => q \in alone
  BY DEF RequestsInvariant
<1>6. StoresAgree'
  BY <1>5 DEF StoresAgree
<1> QED  BY <1>1, <1>2, <1>3, <1>4, <1>6, OwnRequest

-----------------------------------------------------------------------------
(* Its steps. *)
LEMMA BeginRequests ==
  ASSUME TriggersInvariant, TriggersInvariant', RequestsInvariant,
         NEW q \in Requests, Begin(q)
  PROVE  RequestsInvariant'
<1> USE DEF TriggersInvariant, TypeOK
<1> DEFINE others == {o \in Requests \ {q} : ~ Settled(o)}
<1>1. /\ UNCHANGED <<row, endpoint, held, schedule>> /\ At(q, "idle") /\ Settled(q)
      /\ Rows' = Rows /\ Live' = Live
  <2>1. UNCHANGED stores /\ At(q, "idle")
    BY Zenon DEF Begin, BeginCreate, BeginActivate, BeginDeactivate, BeginUpdate, BeginDelete
  <2> QED  BY <2>1 DEF stores, rows, At, Settled, Rows, Live
<1>2. PICK first \in Job :
        /\ Begins(q, first)
        /\ \/ first.op = "create" /\ first.at = "insert" /\ first.flag = "off"
              /\ \A o \in Requests : job[o].op # "create"
           \/ first.op = "activate" /\ row # None /\ first.template = row.template
              /\ first.at = (IF row.template.cron # None THEN "upsert" ELSE "read")
              /\ first.flag = "on"
           \/ first.op = "deactivate" /\ first.at = "unschedule" /\ row # None
           \/ first.op = "update" /\ first.at = "write" /\ row # None
              /\ first.flag = (IF row.status = "active" THEN "on" ELSE "off")
           \/ first.op = "delete" /\ first.at = "delete" /\ row # None
  <2>1. CASE BeginCreate(q)
    <3>1. PICK t \in Templates : Begins(q, Fresh("create", "insert", t, "off"))
      BY <2>1 DEF BeginCreate
    <3>2. Fresh("create", "insert", t, "off") \in Job
      BY FreshTypes, TemplatesAssumption DEF Ops, Places
    <3> QED  BY <2>1, <3>1, <3>2 DEF BeginCreate, Fresh
  <2>2. CASE BeginActivate(q)
    <3> DEFINE at == IF row.template.cron # None THEN "upsert" ELSE "read"
    <3>1. row.template \in Template /\ at \in Places
      BY <2>2 DEF BeginActivate, Row, Places
    <3>2. Fresh("activate", at, row.template, "on") \in Job
      BY <3>1, FreshTypes DEF Ops
    <3> QED  BY <2>2, <3>2 DEF BeginActivate, Fresh
  <2>3. CASE BeginDeactivate(q)
    <3>1. Fresh("deactivate", "unschedule", Blank, "off") \in Job
      BY FreshTypes, BlankType DEF Ops, Places
    <3> QED  BY <2>3, <3>1 DEF BeginDeactivate, Fresh
  <2>4. CASE BeginUpdate(q)
    <3> DEFINE flag == IF row.status = "active" THEN "on" ELSE "off"
    <3>1. PICK t \in Templates : Begins(q, Fresh("update", "write", t, flag))
      BY <2>4 DEF BeginUpdate
    <3>2. Fresh("update", "write", t, flag) \in Job
      BY FreshTypes, TemplatesAssumption DEF Ops, Places
    <3> QED  BY <2>4, <3>1, <3>2 DEF BeginUpdate, Fresh
  <2>5. CASE BeginDelete(q)
    <3>1. Fresh("delete", "delete", Blank, "off") \in Job
      BY FreshTypes, BlankType DEF Ops, Places
    <3> QED  BY <2>5, <3>1 DEF BeginDelete, Fresh
  <2> QED  BY <2>1, <2>2, <2>3, <2>4, <2>5 DEF Begin
<1>3. /\ job'[q] = first /\ \A o \in Requests \ {q} : job'[o] = job[o]
      /\ latest' = None /\ trouble' = (trouble \/ others # {})
      /\ alone' = IF others = {} THEN alone \cup {q} ELSE alone \ (others \cup {q})
  BY <1>2 DEF Begins
<1> HIDE DEF TriggersInvariant, TypeOK
<1>4. \A o \in Requests \ {q} : Settled(o)' = Settled(o)
  BY <1>3 DEF Settled
<1>5. /\ job'[q].at \in {"insert", "upsert", "read", "unschedule", "write", "delete"}
      /\ ~ Settled(q)'
  BY <1>2, <1>3 DEF Settled
<1>6. \A o \in Requests : KnowsItself(o)'
  <2> SUFFICES ASSUME NEW o \in Requests PROVE KnowsItself(o)'
    OBVIOUS
  <2>1. CASE o # q
    <3>1. job'[o] = job[o] /\ KnowsItself(o)
      BY <1>3, <2>1 DEF RequestsInvariant
    <3> QED  BY <3>1 DEF KnowsItself, Settled, HasCron
  <2>2. CASE o = q
    BY <1>2, <1>3, <2>2, SMT DEF KnowsItself, PlacesOf, Syncing
  <2> QED  BY <2>1, <2>2
<1>7. \A o \in alone' : ~ Settled(o)' => FindsItsWork(o)'
  <2>1. \A o \in alone' : ~ Settled(o)' => o = q
    <3>1. alone \subseteq Requests
      BY DEF TriggersInvariant, TypeOK
    <3> QED  BY <1>3, <1>4, <3>1
  <2>2. FindsItsWork(q)'
    BY <1>1, <1>2, <1>3, SMT DEF FindsItsWork, HasTemplate, HasCron, SpecSet, Syncing
  <2> QED  BY <2>1, <2>2
<1>8. ASSUME ~ trouble', NEW o \in Requests, ~ Settled(o)'
      PROVE  o \in alone' /\ FindsAgreement(o)'
  <2>1. o = q /\ q \in alone' /\ ~ trouble
    BY <1>3, <1>4, <1>8
  <2>2. Rest
    BY <1>1, <1>3, <1>8 DEF Rest
  <2>3. row # None => Agreement
    BY <2>1, <2>2 DEF RequestsInvariant, StoresAgree
  <2>4. (\A c \in Requests : job[c].op # "create") => row = None /\ schedule = None
    BY DEF RequestsInvariant, OneCreate
  <2>5. row # None => Agreement'
    BY <1>1, <2>3 DEF Agreement
  <2>6. row # None => row.status \in {"draft", "active", "inactive"}
    BY DEF TriggersInvariant, TypeOK, Row
  <2>7. FindsAgreement(q)'
    BY <1>1, <1>2, <1>3, <2>3, <2>4, <2>5, <2>6, SMT
       DEF FindsAgreement, HasCron, Agreement, Syncing
  <2> QED  BY <2>1, <2>7
<1>9. OneCreate' /\ NoIdleCreate'
  <2>1. CASE \A o \in Requests : job[o].op # "create"
    <3>1. job'[q].op = "create"
      BY <1>2, <1>3, <2>1 DEF RequestsInvariant, OneCreate
    <3> QED  BY <1>3, <1>5, <3>1, <2>1 DEF OneCreate, NoIdleCreate, At
  <2>2. CASE \E o \in Requests : job[o].op = "create"
    <3>1. PICK o \in Requests : job[o].op = "create"
      BY <2>2
    <3>2. o # q
      BY <1>1, <3>1 DEF RequestsInvariant, NoIdleCreate
    <3> QED  BY <1>3, <1>5, <3>1, <3>2 DEF RequestsInvariant, OneCreate, NoIdleCreate, At
  <2> QED  BY <2>1, <2>2
<1>10. ActivationRepairs' /\ StoresAgree'
  BY <1>3, <1>5 DEF ActivationRepairs, StoresAgree, Rest
<1> QED  BY <1>6, <1>7, <1>8, <1>9, <1>10 DEF RequestsInvariant

\* What a request under way knows, from the invariant.
LEMMA Knowing ==
  ASSUME TriggersInvariant, RequestsInvariant, NEW q \in Requests, ~ Settled(q)
  PROVE  /\ KnowsItself(q) /\ CourseOf(q)
         /\ q \in alone => FindsItsWork(q)
         /\ ~ trouble => q \in alone /\ FindsAgreement(q)
         /\ job[q] \in Job /\ job \in [Requests -> Job] /\ alone \subseteq Requests
         /\ latest = None
         /\ row # None => row \in Row
BY DEF RequestsInvariant, TriggersInvariant, TypeOK, OnCourse, LatestIsLast, Rest

LEMMA InsertRequests ==
  ASSUME TriggersInvariant, RequestsInvariant, NEW q \in Requests, InsertRow(q)
  PROVE  RequestsInvariant'
<1>1. /\ job[q].at = "insert" /\ ~ Settled(q) /\ GoTo(q, "read")
      /\ UNCHANGED <<rows, schedule, history>>
      /\ row' = [status |-> "draft", template |-> job[q].template]
  BY DEF InsertRow, At, Settled, GoTo
<1>2. row' # None
  <2>1. job[q].template \in Template
    BY <1>1, Knowing DEF Job
  <2>2. row' \in Row
    BY <1>1, <2>1 DEF Row
  <2> QED  BY <2>2, NoneAssumption
<1>3. /\ job'[q].at = "read"
      /\ job'[q].op = job[q].op /\ job'[q].template = job[q].template
      /\ job'[q].flag = job[q].flag
      /\ \A o \in Requests \ {q} : job'[o] = job[o]
  BY <1>1, MovesFields, Knowing DEF GoTo, Places
<1>4. job[q].op = "create" /\ job[q].flag = "off"
  BY <1>1, Knowing, SMT DEF KnowsItself, PlacesOf, Syncing, Job, Ops
<1>5. KnowsItself(q)'
  BY <1>3, <1>4, SMT DEF KnowsItself, PlacesOf, Syncing
<1>6. FindsItsWork(q)'
  BY <1>1, <1>2, <1>3, <1>4, SMT DEF FindsItsWork, HasTemplate, Syncing
<1>7. ~ trouble => FindsAgreement(q)'
  <2>1. ~ trouble => schedule = None
    BY <1>1, <1>4, Knowing DEF FindsAgreement
  <2> QED  BY <1>1, <1>3, <1>4, <2>1, SMT DEF FindsAgreement
<1> QED  BY <1>1, <1>3, <1>5, <1>6, <1>7, MovesOn

LEMMA WriteRequests ==
  ASSUME TriggersInvariant, RequestsInvariant, NEW q \in Requests, WriteTemplate(q)
  PROVE  RequestsInvariant'
<1>1. job[q].at = "write" /\ ~ Settled(q) /\ UNCHANGED <<endpoint, held, schedule>>
  BY DEF WriteTemplate, At, Settled, rows
<1>2. job[q].op = "update"
  BY <1>1, Knowing, SMT DEF KnowsItself, PlacesOf, Syncing, Job, Ops
<1>3. CASE row = None /\ UNCHANGED row /\ Ends(q, FALSE)
  BY <1>1, <1>3, EndsWell DEF Ends
<1>4. CASE /\ row # None
           /\ row' = [row EXCEPT !.template = job[q].template]
           /\ GoTo(q, IF job[q].flag = "off" THEN "read"
                      ELSE IF HasCron(q) THEN "upsert" ELSE "unschedule")
  <2>1. PICK place \in {"read", "upsert", "unschedule"} :
          /\ GoTo(q, place)
          /\ place = "read" <=> job[q].flag = "off"
          /\ place = "upsert" => HasCron(q)
          /\ place = "unschedule" => ~ HasCron(q)
    BY <1>4
  <2>2. row \in Row /\ job[q].template \in Template /\ job[q].flag \in {"on", "off"}
    BY <1>1, <1>4, Knowing DEF Job
  <2>3. /\ row' \in Row /\ row' # None /\ row'.status = row.status
        /\ row'.template = job[q].template
    BY <1>4, <2>2, NoneAssumption DEF Row
  <2>4. /\ job'[q].at = place
        /\ job'[q].op = job[q].op /\ job'[q].template = job[q].template
        /\ job'[q].flag = job[q].flag
        /\ \A o \in Requests \ {q} : job'[o] = job[o]
    BY <1>1, <2>1, MovesFields, Knowing DEF GoTo, Places
  <2>5. KnowsItself(q)'
    BY <1>2, <2>1, <2>2, <2>4, SMT DEF KnowsItself, PlacesOf, Syncing, HasCron
  <2>6. FindsItsWork(q)'
    BY <1>2, <2>1, <2>3, <2>4, SMT DEF FindsItsWork, HasTemplate, Syncing
  <2>7. ~ trouble => FindsAgreement(q)'
    <3>1. ~ trouble => (row.status = "active" <=> job[q].flag = "on") /\ Agreement
      BY <1>1, <1>2, Knowing DEF FindsAgreement
    <3> QED  BY <1>1, <1>2, <2>1, <2>2, <2>3, <2>4, <3>1, SMT
             DEF FindsAgreement, Agreement, Syncing
  <2> QED  BY <1>1, <2>1, <2>4, <2>5, <2>6, <2>7, MovesOn DEF GoTo
<1> QED  BY <1>3, <1>4 DEF WriteTemplate

\* An activation has repaired the stores when it writes the status; a
\* deactivation has silenced them.
LEMMA StatusRequests ==
  ASSUME TriggersInvariant, RequestsInvariant, NEW q \in Requests, SetStatus(q)
  PROVE  RequestsInvariant'
<1>1. job[q].at = "status" /\ ~ Settled(q) /\ UNCHANGED <<endpoint, held, schedule>>
  BY DEF SetStatus, At, Settled, rows
<1>2. /\ job[q].op \in {"activate", "deactivate"}
      /\ job[q].op = "activate" => job[q].flag = "on"
      /\ job[q].op = "deactivate" => job[q].flag = "off"
  BY <1>1, Knowing, SMT DEF KnowsItself, CourseOf, PlacesOf, Syncing, Job, Ops
<1>3. CASE row = None /\ UNCHANGED row /\ Ends(q, FALSE)
  BY <1>1, <1>3, EndsWell DEF Ends
<1>4. CASE /\ row # None
           /\ row' = [row EXCEPT !.status = IF job[q].flag = "on" THEN "active" ELSE "inactive"]
           /\ Ends(q, TRUE)
  <2>1. row \in Row
    BY <1>1, <1>4, Knowing
  <2>2. /\ row'.template = row.template
        /\ row'.status = IF job[q].flag = "on" THEN "active" ELSE "inactive"
    BY <1>4, <2>1 DEF Row
  <2>3. Rows' = Rows /\ Live' = Live
    BY <1>1 DEF Rows, Live
  <2>4. ASSUME job[q].op = "activate", q \in alone
        PROVE  /\ Rows = row.template.paths /\ Live = Rows
               /\ row.template.cron # None =>
                    schedule # None /\ schedule.cron = row.template.cron
    BY <1>1, <2>4, Knowing DEF FindsItsWork, HasTemplate, HasCron, SpecSet
  <2>6. /\ Answered(q) /\ UNCHANGED <<alone, trouble>>
        /\ (latest' = None \/ (latest' = q /\ q \in alone))
    BY <1>4, AfterEnd DEF Ends
  <2>7. q \in alone /\ job[q].op = "activate" => ActivationRepairs'
    BY <1>1, <1>2, <2>2, <2>3, <2>4 DEF ActivationRepairs
  <2>8. ~ trouble' /\ q \in alone => Agreement'
    <3>1. CASE job[q].op = "activate"
      <4>1. ~ trouble /\ row.template.cron = None => schedule = None
        BY <1>1, <3>1, <1>2, Knowing DEF FindsAgreement, FindsItsWork, HasTemplate, HasCron
      <4> QED  BY <1>1, <1>2, <2>2, <2>3, <2>4, <2>6, <3>1, <4>1 DEF Agreement
    <3>2. CASE job[q].op = "deactivate"
      <4>1. ~ trouble => Rows = row.template.paths
        BY <1>1, <3>2, Knowing DEF FindsAgreement
      <4>2. q \in alone => schedule = None /\ Live = {}
        BY <1>1, <3>2, Knowing DEF CourseOf
      <4> QED  BY <1>1, <1>2, <2>2, <2>3, <2>6, <3>2, <4>1, <4>2 DEF Agreement
    <3> QED  BY <1>2, <3>1, <3>2
  <2> QED  BY <1>1, <2>6, <2>7, <2>8, EndsWell
<1> QED  BY <1>3, <1>4 DEF SetStatus

LEMMA DeleteRequests ==
  ASSUME TriggersInvariant, RequestsInvariant, NEW q \in Requests, DeleteRow(q)
  PROVE  RequestsInvariant'
<1>1. job[q].at = "delete" /\ ~ Settled(q) /\ row' = None
  BY DEF DeleteRow, At, Settled
<1>2. job[q].op # "activate"
  BY <1>1, Knowing, SMT DEF KnowsItself, PlacesOf, Syncing
<1>3. PICK ok \in BOOLEAN : Ends(q, ok)
  BY DEF DeleteRow
<1>4. /\ Answered(q) /\ UNCHANGED <<alone, trouble>>
      /\ latest' = None \/ (latest' = q /\ q \in alone)
  BY <1>3, AfterEnd DEF Ends
<1> QED  BY <1>1, <1>2, <1>4, EndsWell

\* A request that is alone leaves the schedule with its template's expression.
LEMMA UpsertScheduleRequests ==
  ASSUME TriggersInvariant, RequestsInvariant, NEW q \in Requests, UpsertSchedule(q)
  PROVE  RequestsInvariant'
<1>1. job[q].at = "upsert" /\ ~ Settled(q) /\ UNCHANGED <<row, endpoint, held>>
  BY DEF UpsertSchedule, At, Settled, rows
<1>2. /\ job[q].op \in {"activate", "update"} /\ job[q].flag = "on" /\ HasCron(q)
  BY <1>1, Knowing, SMT DEF KnowsItself, CourseOf, PlacesOf, Syncing, Job, Ops
<1>3. PICK place \in {"read", "respec"} :
        /\ GoTo(q, place)
        /\ place = "respec" => schedule # None /\ schedule' = schedule
        /\ place = "read" =>
             schedule' = [cron |-> job[q].template.cron, template |-> job[q].template]
  BY DEF UpsertSchedule
<1>4. schedule' # None /\ (place = "read" => schedule'.cron = job[q].template.cron)
  <2>1. CASE place = "read"
    <3>1. job[q].template \in Template
      BY <1>1, Knowing DEF Job
    <3>2. schedule' \in Schedule
      BY <1>2, <1>3, <2>1, <3>1 DEF HasCron, Schedule, Template
    <3> QED  BY <1>3, <2>1, <3>2, NoneAssumption
  <2>2. CASE place = "respec"
    BY <1>3, <2>2
  <2> QED  BY <2>1, <2>2
<1>5. /\ job'[q].at = place
      /\ job'[q].op = job[q].op /\ job'[q].template = job[q].template
      /\ job'[q].flag = job[q].flag
      /\ \A o \in Requests \ {q} : job'[o] = job[o]
  BY <1>1, <1>3, MovesFields, Knowing DEF GoTo, Places
<1>6. KnowsItself(q)'
  BY <1>2, <1>3, <1>5, SMT DEF KnowsItself, PlacesOf, Syncing
<1>7. q \in alone => FindsItsWork(q)'
  <2>1. q \in alone => HasTemplate(q)
    BY <1>1, Knowing DEF FindsItsWork
  <2> QED  BY <1>1, <1>3, <1>4, <1>5, <2>1, SMT DEF FindsItsWork, HasTemplate, SpecSet, Syncing
<1>8. ~ trouble => FindsAgreement(q)'
  <2>1. ~ trouble => FindsAgreement(q)
    BY <1>1, Knowing
  <2> QED  BY <1>1, <1>2, <1>3, <1>5, <2>1, SMT DEF FindsAgreement, HasCron
<1> QED  BY <1>1, <1>3, <1>5, <1>6, <1>7, <1>8, MovesOn DEF GoTo

LEMMA UpdateScheduleRequests ==
  ASSUME TriggersInvariant, RequestsInvariant, NEW q \in Requests, UpdateSchedule(q)
  PROVE  RequestsInvariant'
<1>1. job[q].at = "respec" /\ ~ Settled(q) /\ UNCHANGED <<row, endpoint, held>>
  BY DEF UpdateSchedule, At, Settled, rows
<1>2. /\ job[q].op \in {"activate", "update"} /\ job[q].flag = "on" /\ HasCron(q)
  BY <1>1, Knowing, SMT DEF KnowsItself, CourseOf, PlacesOf, Syncing, Job, Ops
<1>3. CASE schedule = None /\ UNCHANGED schedule /\ Ends(q, FALSE)
  <2>1. q \notin alone
    BY <1>1, <1>3, Knowing DEF FindsItsWork
  <2> QED  BY <1>1, <1>3, <2>1, EndsWell DEF Ends
<1>4. CASE /\ schedule # None
           /\ schedule' = [schedule EXCEPT !.cron = job[q].template.cron]
           /\ GoTo(q, "read")
  <2>1. schedule' # None /\ schedule'.cron = job[q].template.cron
    <3>1. job[q].template \in Template /\ schedule \in Schedule
      BY <1>1, <1>4, Knowing DEF Job, TriggersInvariant, TypeOK
    <3>2. schedule' \in Schedule /\ schedule'.cron = job[q].template.cron
      BY <1>2, <1>4, <3>1 DEF HasCron, Schedule, Template
    <3> QED  BY <3>2, NoneAssumption
  <2>2. /\ job'[q].at = "read"
        /\ job'[q].op = job[q].op /\ job'[q].template = job[q].template
        /\ job'[q].flag = job[q].flag
        /\ \A o \in Requests \ {q} : job'[o] = job[o]
    BY <1>1, <1>4, MovesFields, Knowing DEF GoTo, Places
  <2>3. KnowsItself(q)'
    BY <1>2, <2>2, SMT DEF KnowsItself, PlacesOf, Syncing
  <2>4. q \in alone => FindsItsWork(q)'
    <3>1. q \in alone => HasTemplate(q)
      BY <1>1, Knowing DEF FindsItsWork
    <3> QED  BY <1>1, <2>1, <2>2, <3>1, SMT DEF FindsItsWork, HasTemplate, SpecSet, Syncing
  <2>5. ~ trouble => FindsAgreement(q)'
    <3>1. ~ trouble => FindsAgreement(q)
      BY <1>1, Knowing
    <3> QED  BY <1>1, <1>2, <2>2, <3>1, SMT DEF FindsAgreement, HasCron
  <2> QED  BY <1>1, <1>4, <2>2, <2>3, <2>4, <2>5, MovesOn DEF GoTo
<1> QED  BY <1>3, <1>4 DEF UpdateSchedule

LEMMA DeleteScheduleRequests ==
  ASSUME TriggersInvariant, RequestsInvariant, NEW q \in Requests, DeleteSchedule(q)
  PROVE  RequestsInvariant'
<1>1. /\ job[q].at = "unschedule" /\ ~ Settled(q) /\ UNCHANGED <<row, endpoint, held>>
      /\ schedule' = None /\ GoTo(q, AfterSchedule(q))
  BY DEF DeleteSchedule, At, Settled, rows
<1>2. /\ job[q].op \in {"deactivate", "update"}
      /\ job[q].op = "update" => job[q].flag = "on" /\ ~ HasCron(q)
  BY <1>1, Knowing, SMT DEF KnowsItself, PlacesOf, Syncing, Job, Ops
<1>3. PICK place \in {"flip", "read"} :
        GoTo(q, place) /\ (place = "flip" <=> job[q].op = "deactivate")
  BY <1>1 DEF AfterSchedule
<1>4. /\ job'[q].at = place
      /\ job'[q].op = job[q].op /\ job'[q].template = job[q].template
      /\ job'[q].flag = job[q].flag
      /\ \A o \in Requests \ {q} : job'[o] = job[o]
  BY <1>1, <1>3, MovesFields, Knowing DEF GoTo, Places
<1>5. KnowsItself(q)'
  BY <1>2, <1>3, <1>4, SMT DEF KnowsItself, PlacesOf, Syncing
<1>6. q \in alone => FindsItsWork(q)'
  <2>1. q \in alone /\ place = "read" => HasTemplate(q)
    BY <1>1, <1>2, <1>3, Knowing DEF FindsItsWork
  <2> QED  BY <1>1, <1>2, <1>3, <1>4, <2>1, SMT
           DEF FindsItsWork, HasTemplate, HasCron, SpecSet, Syncing
<1>7. ~ trouble => FindsAgreement(q)'
  <2>1. ~ trouble => FindsAgreement(q)
    BY <1>1, Knowing
  <2>2. Rows' = Rows
    BY <1>1 DEF Rows
  <2> QED  BY <1>1, <1>2, <1>3, <1>4, <2>1, <2>2, SMT DEF FindsAgreement, HasCron
<1> QED  BY <1>1, <1>3, <1>4, <1>5, <1>6, <1>7, MovesOn DEF GoTo

-----------------------------------------------------------------------------
(* Its steps at the endpoints. *)
\* Only requests with a template come here: an activation writes its endpoints
\* on, a creation off.
LEMMA Synchronising ==
  ASSUME TriggersInvariant, RequestsInvariant, NEW q \in Requests, job[q].at \in Syncing
  PROVE  /\ ~ Settled(q) /\ job[q].op \in {"create", "activate", "update"}
         /\ job[q].op = "create" => job[q].flag = "off"
         /\ job[q].op = "activate" => job[q].flag = "on"
         /\ job[q].template \in Template /\ job[q].template.paths \subseteq Paths
         /\ job[q].flag \in {"on", "off"} /\ job[q].left \subseteq Paths
<1>1. ~ Settled(q)
  BY DEF Settled, Syncing
<1>2. KnowsItself(q) /\ job[q] \in Job
  BY <1>1, Knowing
<1> QED  BY <1>1, <1>2, SMT DEF KnowsItself, PlacesOf, Syncing, Job, Ops, Template

\* A step inside the synchronisation leaves the row and the schedule.
LEMMA SyncRequests ==
  ASSUME TriggersInvariant, RequestsInvariant, NEW q \in Requests, job[q].at \in Syncing,
         job'[q].at \in Syncing, job'[q].op = job[q].op, job'[q].flag = job[q].flag,
         job'[q].template = job[q].template,
         \A o \in Requests \ {q} : job'[o] = job[o],
         UNCHANGED <<row, schedule, history>>,
         q \in alone =>
           /\ job'[q].at = "prune" => held'[q] = job'[q].known /\ held'[q] = Rows'
           /\ job'[q].at = "upsertRows" =>
                /\ job'[q].left \subseteq job[q].template.paths
                /\ held'[q] = job'[q].known \cap job[q].template.paths
                /\ Rows' = held'[q] \cup (job[q].template.paths \ job'[q].left)
                /\ \A p \in job[q].template.paths \ job'[q].left : endpoint'[p] = job[q].flag
  PROVE  RequestsInvariant'
<1>1. /\ ~ Settled(q) /\ job[q].op \in {"create", "activate", "update"}
      /\ job[q].op = "create" => job[q].flag = "off"
      /\ job[q].op = "activate" => job[q].flag = "on"
  BY Synchronising
<1>2. job'[q].at \notin {"idle", "done"}
  BY DEF Syncing
<1>3. KnowsItself(q)'
  BY <1>1, SMT DEF KnowsItself, PlacesOf, Syncing
<1>4. q \in alone => FindsItsWork(q)'
  <2>1. q \in alone =>
          HasTemplate(q) /\ (job[q].flag = "on" /\ HasCron(q) => SpecSet(q))
    BY <1>1, Knowing DEF FindsItsWork
  <2> QED  BY <1>1, <2>1, SMT DEF FindsItsWork, HasTemplate, HasCron, SpecSet, Syncing
<1>5. ~ trouble => FindsAgreement(q)'
  <2>1. ~ trouble => FindsAgreement(q)
    BY <1>1, Knowing
  <2> QED  BY <1>1, <2>1, SMT DEF FindsAgreement, HasCron, Syncing
<1> QED  BY <1>1, <1>2, <1>3, <1>4, <1>5, MovesOn

LEMMA ReadRequests ==
  ASSUME TriggersInvariant, RequestsInvariant, NEW q \in Requests, ReadEndpoints(q)
  PROVE  RequestsInvariant'
<1>1. /\ job[q].at = "read" /\ job[q].at \in Syncing
      /\ job' = [job EXCEPT ![q].at = "prune", ![q].known = Rows]
      /\ held' = [held EXCEPT ![q] = Rows] /\ Rows' = Rows
      /\ UNCHANGED <<row, schedule, history>>
  BY DEF ReadEndpoints, At, Rows, Syncing
<1>2. /\ job \in [Requests -> Job] /\ job[q] \in Job
      /\ held \in [Requests -> SUBSET Paths]
  BY DEF TriggersInvariant, TypeOK
<1>3. /\ job'[q] = [job[q] EXCEPT !.at = "prune", !.known = Rows]
      /\ \A o \in Requests \ {q} : job'[o] = job[o]
  BY <1>1, <1>2, Zenon
<1>4. /\ job'[q].at = "prune" /\ job'[q].known = Rows /\ job'[q].op = job[q].op
      /\ job'[q].flag = job[q].flag /\ job'[q].template = job[q].template
  BY <1>2, <1>3, SMT DEF Job
<1>5. held'[q] = Rows
  BY <1>1, <1>2
<1>6. job'[q].at \in Syncing
  BY <1>4 DEF Syncing
<1> QED  BY <1>1, <1>3, <1>4, <1>5, <1>6, SyncRequests

LEMMA PruneRequests ==
  ASSUME TriggersInvariant, RequestsInvariant, NEW q \in Requests, PruneEndpoints(q)
  PROVE  RequestsInvariant'
<1> DEFINE gone == held[q] \ job[q].template.paths
<1>1. /\ job[q].at = "prune" /\ job[q].at \in Syncing
      /\ job' = [job EXCEPT ![q].at = "upsertRows", ![q].left = job[q].template.paths]
      /\ endpoint' = [p \in Paths |-> IF p \in gone THEN "none" ELSE endpoint[p]]
      /\ held' = [o \in Requests |-> held[o] \ gone]
      /\ UNCHANGED <<row, schedule, history>>
  BY DEF PruneEndpoints, At, Syncing
<1>2. job \in [Requests -> Job] /\ job[q] \in Job
  BY DEF TriggersInvariant, TypeOK
<1>3. /\ job'[q] = [job[q] EXCEPT !.at = "upsertRows", !.left = job[q].template.paths]
      /\ \A o \in Requests \ {q} : job'[o] = job[o]
  BY <1>1, <1>2, Zenon
<1>4. /\ job'[q].at = "upsertRows" /\ job'[q].left = job[q].template.paths
      /\ job'[q].op = job[q].op /\ job'[q].known = job[q].known
      /\ job'[q].flag = job[q].flag /\ job'[q].template = job[q].template
  BY <1>2, <1>3, SMT DEF Job
<1>5. Rows' = Rows \ gone /\ held'[q] = held[q] \ gone
  <2>1. Rows' = Rows \ gone
    BY <1>1, SMT DEF Rows
  <2> QED  BY <1>1, <2>1
<1>6. q \in alone => held[q] = job[q].known /\ held[q] = Rows
  BY <1>1, Synchronising, Knowing DEF FindsItsWork
<1>7. job'[q].at \in Syncing
  BY <1>4 DEF Syncing
<1>8. q \in alone => /\ held'[q] = job'[q].known \cap job[q].template.paths
                     /\ Rows' = held'[q]
  BY <1>4, <1>5, <1>6
<1> QED  BY <1>1, <1>3, <1>4, <1>7, <1>8, SyncRequests

LEMMA UpsertRequests ==
  ASSUME TriggersInvariant, RequestsInvariant, NEW q \in Requests, UpsertEndpoint(q)
  PROVE  RequestsInvariant'
<1>1. /\ job[q].at = "upsertRows" /\ job[q].at \in Syncing
      /\ UNCHANGED <<row, held, schedule, history>>
  BY DEF UpsertEndpoint, At, Syncing
<1>2. PICK p \in job[q].left :
         /\ UpsertSetsFlag(q, p)
         /\ job' = [job EXCEPT ![q].left = @ \ {p}]
  BY DEF UpsertEndpoint
<1>3. /\ job \in [Requests -> Job] /\ job[q] \in Job
      /\ endpoint \in [Paths -> {"none", "on", "off"}]
  BY DEF TriggersInvariant, TypeOK
<1>4. /\ job'[q] = [job[q] EXCEPT !.left = job[q].left \ {p}]
      /\ \A o \in Requests \ {q} : job'[o] = job[o]
  BY <1>2, <1>3, Zenon
<1>5. /\ job'[q].at = "upsertRows" /\ job'[q].left = job[q].left \ {p}
      /\ job'[q].op = job[q].op /\ job'[q].known = job[q].known
      /\ job'[q].flag = job[q].flag /\ job'[q].template = job[q].template
  BY <1>1, <1>3, <1>4, SMT DEF Job
<1>6. p \in Paths /\ job[q].flag \in {"on", "off"}
  BY <1>1, Synchronising
<1>7. /\ endpoint'[p] = job[q].flag
      /\ \A o \in Paths \ {p} : endpoint'[o] = endpoint[o]
  BY <1>2, <1>3, <1>6 DEF UpsertSetsFlag
<1>8. Rows' = Rows \cup {p}
  BY <1>6, <1>7 DEF Rows
<1>9. q \in alone =>
        /\ job[q].left \subseteq job[q].template.paths
        /\ held[q] = job[q].known \cap job[q].template.paths
        /\ Rows = held[q] \cup (job[q].template.paths \ job[q].left)
        /\ \A o \in job[q].template.paths \ job[q].left : endpoint[o] = job[q].flag
  BY <1>1, Synchronising, Knowing DEF FindsItsWork
<1>10. q \in alone => Rows' = held[q] \cup (job[q].template.paths \ job'[q].left)
  BY <1>5, <1>8, <1>9
<1>11. q \in alone =>
         \A o \in job[q].template.paths \ job'[q].left : endpoint'[o] = job[q].flag
  BY <1>1, <1>5, <1>7, <1>9, Synchronising
<1>12. job'[q].at \in Syncing
  BY <1>5 DEF Syncing
<1> QED  BY <1>1, <1>4, <1>5, <1>9, <1>10, <1>11, <1>12, SyncRequests

\* Every path is written: an activation has repaired the endpoints, and the
\* stores agree if they did when a creation or an update began.
LEMMA DoneRequests ==
  ASSUME TriggersInvariant, RequestsInvariant, NEW q \in Requests, EndpointsDone(q)
  PROVE  RequestsInvariant'
<1>1. /\ job[q].at = "upsertRows" /\ job[q].at \in Syncing /\ job[q].left = {}
      /\ UNCHANGED <<row, endpoint, held, schedule>> /\ AfterSync(q)
      /\ Rows' = Rows /\ Live' = Live
  BY DEF EndpointsDone, At, Syncing, stores, rows, Rows, Live
<1>2. /\ ~ Settled(q) /\ job[q].op \in {"create", "activate", "update"}
      /\ job[q].op = "create" => job[q].flag = "off"
      /\ job[q].op = "activate" => job[q].flag = "on"
      /\ job[q].flag \in {"on", "off"} /\ job[q].template.paths \subseteq Paths
  BY <1>1, Synchronising
<1>3. q \in alone =>
        /\ HasTemplate(q)
        /\ job[q].flag = "on" /\ HasCron(q) => SpecSet(q)
        /\ Rows = job[q].template.paths
        /\ \A p \in Rows : endpoint[p] = job[q].flag
  BY <1>1, <1>2, Knowing DEF FindsItsWork
<1>4. q \in alone => Live = IF job[q].flag = "on" THEN Rows ELSE {}
  <2>1. Live \subseteq Rows /\ \A p \in Rows : p \in Live <=> endpoint[p] = "on"
    BY DEF Rows, Live
  <2> QED  BY <1>2, <1>3, <2>1
<1>5. CASE AfterEndpoints(q) = "status" /\ GoTo(q, "status")
  <2>1. job[q].op = "activate" /\ job[q].flag = "on"
    BY <1>2, <1>5 DEF AfterEndpoints
  <2>2. /\ job'[q].at = "status"
        /\ job'[q].op = job[q].op /\ job'[q].template = job[q].template
        /\ job'[q].flag = job[q].flag
        /\ \A o \in Requests \ {q} : job'[o] = job[o]
    BY <1>2, <1>5, MovesFields, Knowing DEF GoTo, Places
  <2>3. KnowsItself(q)'
    BY <2>1, <2>2, SMT DEF KnowsItself, PlacesOf
  <2>4. q \in alone => FindsItsWork(q)'
    BY <1>1, <1>3, <1>4, <2>1, <2>2, SMT
       DEF FindsItsWork, HasTemplate, HasCron, SpecSet, Syncing
  <2>5. ~ trouble => FindsAgreement(q)'
    <3>1. ~ trouble => FindsAgreement(q)
      BY <1>2, Knowing
    <3> QED  BY <1>1, <2>1, <2>2, <3>1, SMT DEF FindsAgreement, HasCron
  <2> QED  BY <1>2, <1>5, <2>2, <2>3, <2>4, <2>5, MovesOn DEF GoTo
<1>6. CASE AfterEndpoints(q) = "done" /\ Ends(q, TRUE)
  <2>1. job[q].op \in {"create", "update"}
    BY <1>2, <1>6 DEF AfterEndpoints
  <2>2. /\ Answered(q) /\ UNCHANGED <<alone, trouble>>
        /\ latest' = None \/ (latest' = q /\ q \in alone)
    BY <1>6, AfterEnd DEF Ends
  <2>3. ~ trouble /\ q \in alone => Agreement'
    <3>1. ~ trouble => FindsAgreement(q)
      BY <1>2, Knowing
    <3>2. ~ trouble /\ job[q].op = "create" => row.status # "active" /\ schedule = None
      BY <1>1, <3>1 DEF FindsAgreement
    <3>3. ~ trouble /\ job[q].op = "update" =>
            /\ row.status = "active" <=> job[q].flag = "on"
            /\ ~ (job[q].flag = "on" /\ HasCron(q)) => schedule = None
      BY <1>1, <3>1 DEF FindsAgreement
    <3> QED  BY <1>1, <1>2, <1>3, <1>4, <2>1, <3>2, <3>3, SMT
             DEF Agreement, HasTemplate, HasCron, SpecSet
  <2> QED  BY <1>2, <2>1, <2>2, <2>3, EndsWell
<1> QED  BY <1>1, <1>5, <1>6 DEF AfterSync

\* A request that is alone never finds a row that it read gone.
LEMMA GivesUpRequests ==
  ASSUME TriggersInvariant, RequestsInvariant, NEW q \in Requests, UpsertGivesUp(q)
  PROVE  RequestsInvariant'
<1>1. /\ job[q].at = "upsertRows" /\ job[q].at \in Syncing /\ AfterSync(q)
      /\ UNCHANGED <<row, endpoint, held, schedule>>
  BY DEF UpsertGivesUp, At, Syncing, stores, rows
<1>2. ~ Settled(q) /\ job[q].op \in {"create", "activate", "update"}
      /\ (job[q].op = "activate" => job[q].flag = "on")
  BY <1>1, Synchronising
<1>3. q \notin alone
  <2>1. q \in alone => /\ HasTemplate(q) /\ job[q].left \subseteq job[q].template.paths
                       /\ held[q] = job[q].known \cap job[q].template.paths
    BY <1>1, <1>2, Knowing DEF FindsItsWork
  <2> QED  BY <2>1 DEF UpsertGivesUp, HasTemplate
<1>4. trouble
  BY <1>2, <1>3, Knowing
<1>5. CASE AfterEndpoints(q) = "status" /\ GoTo(q, "status")
  <2>1. job[q].op = "activate" /\ job[q].flag = "on"
    BY <1>2, <1>5 DEF AfterEndpoints
  <2>2. /\ job'[q].at = "status" /\ job'[q].op = job[q].op /\ job'[q].flag = job[q].flag
        /\ \A o \in Requests \ {q} : job'[o] = job[o]
    BY <1>2, <1>5, MovesFields, Knowing DEF GoTo, Places
  <2>3. KnowsItself(q)'
    BY <2>1, <2>2, SMT DEF KnowsItself, PlacesOf
  <2> QED  BY <1>2, <1>3, <1>4, <1>5, <2>2, <2>3, MovesOn DEF GoTo
<1>6. CASE Ends(q, TRUE)
  <2>1. Answered(q) /\ UNCHANGED <<alone, trouble>> /\ latest' = None
    BY <1>3, <1>6, AfterEnd DEF Ends
  <2> QED  BY <1>2, <1>4, <2>1, EndsWell
<1> QED  BY <1>1, <1>5, <1>6 DEF AfterSync

LEMMA FlipRequests ==
  ASSUME TriggersInvariant, RequestsInvariant, NEW q \in Requests, FlipEndpoints(q)
  PROVE  RequestsInvariant'
<1>1. /\ job[q].at = "flip" /\ ~ Settled(q) /\ GoTo(q, "status")
      /\ UNCHANGED <<row, schedule>>
      /\ endpoint' = [p \in Paths |-> IF endpoint[p] = "none" THEN "none" ELSE "off"]
  BY DEF FlipEndpoints, At, Settled
<1>2. job[q].op = "deactivate"
  BY <1>1, Knowing, SMT DEF KnowsItself, PlacesOf, Syncing, Job, Ops
<1>3. /\ job'[q].at = "status" /\ job'[q].op = job[q].op
      /\ \A o \in Requests \ {q} : job'[o] = job[o]
  BY <1>1, MovesFields, Knowing DEF GoTo, Places
<1>4. Rows' = Rows
  BY <1>1, SMT DEF Rows
<1>5. KnowsItself(q)' /\ FindsItsWork(q)'
  BY <1>2, <1>3, SMT DEF KnowsItself, PlacesOf, FindsItsWork, Syncing
<1>6. ~ trouble => FindsAgreement(q)'
  <2>1. ~ trouble => row # None /\ Rows = row.template.paths
    BY <1>1, <1>2, Knowing DEF FindsAgreement
  <2> QED  BY <1>1, <1>2, <1>3, <1>4, <2>1, SMT DEF FindsAgreement
<1> QED  BY <1>1, <1>3, <1>5, <1>6, MovesOn DEF GoTo

-----------------------------------------------------------------------------
(* Its failures: the history is troubled, and a request that goes on is not    *)
(* alone any more.                                                           *)
LEMMA FailsQuietlyRequests ==
  ASSUME TriggersInvariant, RequestsInvariant, NEW q \in Requests, FailsQuietly(q)
  PROVE  RequestsInvariant'
<1>1. /\ ~ Settled(q) /\ alone' = alone \ {q} /\ latest' = None /\ trouble' = TRUE
      /\ job[q].at \in {"upsert", "unschedule", "flip"} \cup Syncing
  BY DEF FailsQuietly, At, Settled, Syncing
<1>2. /\ KnowsItself(q) /\ job[q] \in Job
  BY <1>1, Knowing
<1>3. ActivationRepairs' /\ StoresAgree'
  BY <1>1 DEF ActivationRepairs, StoresAgree
<1>4. CASE Answered(q)
  BY <1>1, <1>4, EndsWell
<1>5. ASSUME NEW place \in {"read", "flip", "status"}, Moves(q, place),
             \/ job[q].at = "upsert" /\ place = "read"
             \/ job[q].at = "unschedule" /\ place = AfterSchedule(q)
             \/ job[q].at = "flip" /\ place = "status"
             \/ job[q].at \in Syncing /\ AfterEndpoints(q) # "done" /\ place = "status"
      PROVE  RequestsInvariant'
  <2>1. /\ job'[q].at = place /\ job'[q].op = job[q].op /\ job'[q].flag = job[q].flag
        /\ \A o \in Requests \ {q} : job'[o] = job[o]
    BY <1>1, <1>5, MovesFields, Knowing DEF Places
  <2>2. place \in PlacesOf(job[q].op)
    BY <1>1, <1>2, <1>5, SMT
       DEF KnowsItself, PlacesOf, Syncing, AfterSchedule, AfterEndpoints, Job, Ops
  <2>3. KnowsItself(q)'
    BY <1>1, <1>2, <2>1, <2>2 DEF KnowsItself
  <2>4. q \notin alone' /\ alone' \subseteq Requests
    BY <1>1, Knowing
  <2> QED  BY <1>1, <1>3, <2>1, <2>3, <2>4, OwnRequest
<1> QED  BY <1>4, <1>5 DEF FailsQuietly, At, Syncing, AfterSchedule

LEMMA AbortRequests ==
  ASSUME TriggersInvariant, RequestsInvariant, NEW q \in Requests,
         UpsertConflicts(q) \/ Aborts(q)
  PROVE  RequestsInvariant'
<1>1. ~ Settled(q) /\ Answered(q) /\ UNCHANGED alone /\ latest' = None /\ trouble' = TRUE
  BY DEF UpsertConflicts, Aborts, At, Settled
<1> QED  BY <1>1, EndsWell

LEMMA RequestsStep ==
  TriggersInvariant /\ TriggersInvariant' /\ RequestsInvariant /\ [Next]_vars
    => RequestsInvariant'
<1> SUFFICES ASSUME TriggersInvariant, TriggersInvariant', RequestsInvariant, [Next]_vars
             PROVE  RequestsInvariant'
  OBVIOUS
<1>1. CASE Next
  <2>1. PICK q \in Requests : Begin(q) \/ Step(q) \/ FailsQuietly(q) \/ Aborts(q)
    BY <1>1 DEF Next
  <2>2. CASE Begin(q)
    BY <2>2, BeginRequests
  <2>3. CASE \/ InsertRow(q) \/ WriteTemplate(q) \/ SetStatus(q) \/ DeleteRow(q)
             \/ UpsertSchedule(q) \/ UpdateSchedule(q) \/ DeleteSchedule(q)
    BY <2>3, InsertRequests, WriteRequests, StatusRequests, DeleteRequests,
       UpsertScheduleRequests, UpdateScheduleRequests, DeleteScheduleRequests
  <2>4. CASE \/ ReadEndpoints(q) \/ PruneEndpoints(q) \/ UpsertEndpoint(q)
             \/ UpsertGivesUp(q) \/ EndpointsDone(q) \/ FlipEndpoints(q)
    BY <2>4, ReadRequests, PruneRequests, UpsertRequests, GivesUpRequests, DoneRequests,
       FlipRequests
  <2>5. CASE FailsQuietly(q) \/ UpsertConflicts(q) \/ Aborts(q)
    BY <2>5, FailsQuietlyRequests, AbortRequests
  <2> QED  BY <2>1, <2>2, <2>3, <2>4, <2>5 DEF Step
<1>2. CASE UNCHANGED vars
  <2>1. /\ UNCHANGED <<row, endpoint, held, schedule, job, alone, latest, trouble>>
        /\ Rows' = Rows /\ Live' = Live
    BY <1>2 DEF vars, stores, rows, history, Rows, Live
  <2>2. Agreement' = Agreement /\ ActivationRepairs' = ActivationRepairs
    BY <2>1 DEF Agreement, ActivationRepairs
  <2>3. Rest' = Rest /\ StoresAgree'
    BY <2>1, <2>2 DEF StoresAgree, Rest, Settled, RequestsInvariant
  <2>4. \A q : /\ Settled(q)' = Settled(q) /\ At(q, "idle")' = At(q, "idle")
               /\ KnowsItself(q)' = KnowsItself(q)
               /\ FindsItsWork(q)' = FindsItsWork(q)
               /\ FindsAgreement(q)' = FindsAgreement(q)
    BY <2>1, <2>2 DEF Settled, At, KnowsItself, FindsItsWork, FindsAgreement, HasTemplate,
                    HasCron, SpecSet
  <2>5. OneCreate' /\ NoIdleCreate'
    BY <2>1, <2>4 DEF RequestsInvariant, OneCreate, NoIdleCreate
  <2> QED  BY <2>1, <2>2, <2>3, <2>4, <2>5 DEF RequestsInvariant
<1> QED  BY <1>1, <1>2

-----------------------------------------------------------------------------
\* The inductive invariant of the requests themselves: one that is alone finds
\* the stores as it left them at its last call, and one of a history without
\* overlap or failure found them in agreement.
THEOREM RequestsInvariantHolds == Spec => []RequestsInvariant
<1>1. Init => RequestsInvariant
  BY RequestsInit
<1>2. TriggersInvariant /\ TriggersInvariant' /\ RequestsInvariant /\ [Next]_vars
        => RequestsInvariant'
  BY RequestsStep
<1>3. Spec => []TriggersInvariant
  BY TriggersInvariantHolds
<1> QED  BY <1>1, <1>2, <1>3, PTL DEF Spec

\* activateWorkflow, run alone and without a failed call, leaves the endpoints
\* of the template live and the schedule with its expression, whatever
\* interleavings and failures came before it.
THEOREM ActivationAlwaysRepairs == Spec => []ActivationRepairs
<1>1. RequestsInvariant => ActivationRepairs
  BY DEF RequestsInvariant
<1> QED  BY <1>1, RequestsInvariantHolds, PTL

\* The workflow's row, its endpoints and its schedule agree after every request
\* of a history in which none overlapped and no call failed.
THEOREM StoresAlwaysAgree == Spec => []StoresAgree
<1>1. RequestsInvariant => StoresAgree
  BY DEF RequestsInvariant
<1> QED  BY <1>1, RequestsInvariantHolds, PTL
=============================================================================
