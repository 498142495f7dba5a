------------------------ MODULE EditorDocumentProofs ------------------------
(***************************************************************************)
(* The inductive invariant of EditorDocument, for any workflows, places    *)
(* for calls and bounds: a document keeps to its row, what is shown as     *)
(* saved is stored, Run executes what is shown and the badge is right.     *)
(***************************************************************************)
EXTENDS EditorDocument, TLAPS

-----------------------------------------------------------------------------
(* The inductive invariants. *)
Ops == {"load", "save", "leave", "run", "activate", "deactivate", "stop"}

\* The requests of each button, in any order of their course.
RequestsOf(op) ==
  CASE op = "load"       -> {"get"}
    [] op = "save"       -> {"put", "post"}
    [] op = "leave"      -> {"put", "post"}
    [] op = "run"        -> {"put", "post", "activate", "start"}
    [] op = "activate"   -> {"put", "activate"}
    [] op = "deactivate" -> {"deactivate"}
    [] op = "stop"       -> {"cancel", "deactivate"}

Reqs == {"get", "put", "post", "activate", "deactivate", "start", "cancel"}

Call == [op : Ops, req : Reqs, id : Wf \cup {None}, content : Contents,
         page : 0 .. MaxOpens, at : {"sent", "answered"},
         got : Row \cup Statuses \cup {None}, ref : Statuses \cup {None}]

Exists(w) == w \in Wf /\ rows[w] # None

\* A call knows the row it is about, unless it is to insert it; an answer is
\* the row, or its status after the request.
CallOK(c) ==
  /\ call[c] \in Call /\ call[c].page <= page /\ call[c].req \in RequestsOf(call[c].op)
  /\ IF call[c].req = "post" /\ call[c].at = "sent" THEN call[c].id = None
     ELSE Exists(call[c].id) \/ (call[c].req = "cancel" /\ call[c].id = None)
  /\ call[c].at = "answered" =>
       /\ call[c].req = "get" => call[c].got \in Row
       /\ call[c].req \in {"put", "post", "activate", "deactivate"} => call[c].got \in Statuses
       /\ call[c].req = "deactivate" => call[c].got = "inactive"
  /\ call[c].op = "stop" /\ call[c].req = "deactivate" => call[c].ref \in {"draft", "inactive"}

\* The guard is open on a page that is shown, and has one call.
GuardsOnce ==
  /\ dialog # "closed" => InEditor
  /\ \A c \in Busy : call[c].op = "leave" => dialog = "saving" /\ Own(c)
  /\ \A c, d \in Busy : call[c].op = "leave" /\ call[d].op = "leave" => c = d

\* A page that loads has no call but its load.
LoadsFirst ==
  /\ \A c \in Busy : Own(c) /\ call[c].op = "load" =>
       loading = "yes" /\ \A d \in Busy : Own(d) => d = c
  /\ \A c \in Busy : Own(c) /\ call[c].op # "load" => loading = "no"

OneCall == ~ overlap => \A c, d \in Busy : Own(c) /\ Own(d) => c = d

Structure ==
  /\ TypeOK /\ call = [c \in Calls |-> call[c]]
  /\ \A c \in Calls : call[c] = Idle \/ CallOK(c)
  /\ \A w \in Old \cup {store.id} : w # None => Exists(w)
  /\ GuardsOnce /\ LoadsFirst /\ OneCall

\* The calls of the page that are about its document.
Working(c) == c \in Busy /\ Own(c) /\ call[c].op # "load"

\* Until a call of an earlier page goes on, rows, calls and the page keep to
\* their document.
KeepsToDocument ==
  /\ \A w \in Old : rows[w].content.doc = w
  /\ InEditor /\ store.id # None => store.content.doc = rows[store.id].content.doc
  /\ InEditor /\ route \in Wf => store.id = route
  /\ \A c \in Calls : Working(c) =>
       /\ call[c].content.doc = store.content.doc
       /\ call[c].id # None => rows[call[c].id].content.doc = store.content.doc
  /\ \A c \in Busy : Own(c) /\ route \in Wf => call[c].id = route
  /\ \A c \in Busy : Own(c) /\ call[c].op = "load" /\ call[c].at = "answered" =>
       call[c].got = rows[call[c].id]

\* The row has what the call sent.
Stored(c) == call[c].id # None /\ rows[call[c].id].content = call[c].content

\* As long as no change has raced a call, what each call carries is what is
\* shown, and what it has saved is what the row has.
SavesWhatIsShown ==
  /\ \A c \in Calls : Working(c) /\ ~ raced => call[c].content = store.content
  /\ \A c \in Calls :
       Working(c) /\ call[c].req \in {"put", "post"} /\ call[c].at = "answered"
         /\ (~ raced \/ ~ overlap) => Stored(c)
  /\ \A c \in Calls :
       Working(c) /\ call[c].op = "run" /\ call[c].req \in {"activate", "start"} /\ ~ raced
         => Stored(c)
  /\ CleanMeansStored

Decides(c) == call[c].req \in {"activate", "deactivate"} /\ call[c].at = "answered"

\* As long as calls neither overlap nor fail, each is about the row that is
\* shown, and the badge is right but for the answer that is on its way.
ShowsStatus ==
  /\ \A c \in Calls : Working(c) =>
       \/ call[c].id = store.id
       \/ call[c].req = "post" /\ call[c].at = "answered" /\ store.id = None
  /\ \A c \in Calls :
       Working(c) /\ call[c].at = "answered" /\ call[c].req \notin {"start", "cancel"}
         => call[c].got = rows[call[c].id].status
  /\ InEditor /\ store.id # None /\ (\A c \in Calls : Working(c) => ~ Decides(c))
       => (store.status = "active" <=> rows[store.id].status = "active")

Kept ==
  /\ KeepsToDocument /\ SavesWhatIsShown
  /\ failures = 0 /\ ~ overlap => ShowsStatus

EditorInvariant == Structure /\ (~ crossed => Kept)

-----------------------------------------------------------------------------
(* Calls. *)
\* A call that began: its record, and the others as they were.
LEMMA Begun ==
  ASSUME Structure, NEW op \in Ops, NEW req \in Reqs, NEW id \in Wf \cup {None},
         NEW on \in 0 .. MaxOpens, Begin(op, req, id, on)
  PROVE  /\ \E c \in Calls :
              /\ call[c] = Idle /\ call'[c] \in Call
              /\ call'[c].op = op /\ call'[c].req = req /\ call'[c].id = id
              /\ call'[c].content = store.content /\ call'[c].page = on
              /\ call'[c].at = "sent"
              /\ \A d \in Calls \ {c} : call'[d] = call[d]
         /\ call' = [c \in Calls |-> call'[c]]
         /\ clicks' \in 0 .. MaxClicks
         /\ overlap' = (overlap \/ \E c \in Busy : Own(c))
<1>1. PICK c \in Calls :
        /\ call[c] = Idle
        /\ call' = [call EXCEPT ![c] =
             [op |-> op, req |-> req, id |-> id, content |-> store.content,
              page |-> on, at |-> "sent", got |-> None, ref |-> prior]]
  BY DEF Begin
<1> DEFINE new == [op |-> op, req |-> req, id |-> id, content |-> store.content,
                   page |-> on, at |-> "sent", got |-> None, ref |-> prior]
<1>2. store.content \in Contents /\ prior \in Statuses \cup {None}
  BY DEF Structure, TypeOK, Store
<1>3. new \in Call
  BY <1>2 DEF Call
<1>4. call = [d \in Calls |-> call[d]]
  BY DEF Structure
<1>5. call' = [call EXCEPT ![c] = new]
  BY <1>1
<1>6. /\ new.op = op /\ new.req = req /\ new.id = id /\ new.content = store.content
      /\ new.page = on /\ new.at = "sent"
  OBVIOUS
<1> HIDE DEF new
<1>7. call'[c] = new /\ (\A d \in Calls \ {c} : call'[d] = call[d])
      /\ call' = [d \in Calls |-> call'[d]]
  BY <1>4, <1>5, Zenon
<1>8. clicks' \in 0 .. MaxClicks
  BY BoundsAssumption DEF Begin, Structure, TypeOK
<1>9. overlap' = (overlap \/ \E d \in Busy : Own(d))
  BY DEF Begin
<1> QED  BY <1>1, <1>3, <1>6, <1>7, <1>8, <1>9

LEMMA BusyCall ==
  ASSUME Structure, NEW c \in Calls, call[c] # Idle
  PROVE  CallOK(c) /\ call[c] \in Call /\ c \in Busy /\ call[c].op \in Ops
BY DEF Structure, CallOK, Busy, Call

\* No busy call is idle.
LEMMA CallsAreNotIdle == \A r \in Call : r # Idle
<1>1. \A r \in Call : r.op \in Ops
  BY DEF Call
<1>2. Idle.op = "none"
  BY DEF Idle
<1>3. "none" \notin Ops
  BY DEF Ops
<1> QED  BY <1>1, <1>2, <1>3

\* The server answers: only the answer, and the id of a new row, change.
LEMMA AnswersCall ==
  ASSUME Structure, NEW c \in Calls, call[c] # Idle, NEW got \in Row \cup Statuses \cup {None},
         Answered(c, got)
  PROVE  /\ call'[c] \in Call /\ call'[c].at = "answered" /\ call'[c].got = got
         /\ call'[c].op = call[c].op /\ call'[c].req = call[c].req /\ call'[c].id = call[c].id
         /\ call'[c].content = call[c].content /\ call'[c].page = call[c].page
         /\ call'[c].ref = call[c].ref
         /\ \A d \in Calls \ {c} : call'[d] = call[d]
         /\ call' = [d \in Calls |-> call'[d]]
<1> DEFINE new == [call[c] EXCEPT !.at = "answered", !.got = got]
<1>1. call[c] \in Call /\ call = [d \in Calls |-> call[d]]
  BY BusyCall DEF Structure
<1>2. call' = [call EXCEPT ![c] = new]
  BY DEF Answered
<1>3. /\ new \in Call /\ new.at = "answered" /\ new.got = got
      /\ new.op = call[c].op /\ new.req = call[c].req /\ new.id = call[c].id
      /\ new.content = call[c].content /\ new.page = call[c].page /\ new.ref = call[c].ref
  <2>1. new \in Call
    BY <1>1, Zenon DEF Call
  <2>2. DOMAIN call[c] = {"op", "req", "id", "content", "page", "at", "got", "ref"}
    BY <1>1, Zenon DEF Call
  <2> QED  BY <2>1, <2>2, Zenon
<1> HIDE DEF new
<1>4. call'[c] = new /\ (\A d \in Calls \ {c} : call'[d] = call[d])
      /\ call' = [d \in Calls |-> call'[d]]
  BY <1>1, <1>2, Zenon
<1> QED  BY <1>3, <1>4

\* A call goes on with its next request.
LEMMA GoesOn ==
  ASSUME Structure, NEW c \in Calls, call[c] # Idle, NEW req \in Reqs, Goes(c, req)
  PROVE  /\ call'[c] \in Call /\ call'[c].at = "sent" /\ call'[c].req = req
         /\ call'[c].op = call[c].op /\ call'[c].id = call[c].id
         /\ call'[c].content = call[c].content /\ call'[c].page = call[c].page
         /\ call'[c].ref = call[c].ref
         /\ \A d \in Calls \ {c} : call'[d] = call[d]
         /\ call' = [d \in Calls |-> call'[d]]
<1> DEFINE new == [call[c] EXCEPT !.req = req, !.at = "sent"]
<1>1. call[c] \in Call /\ call = [d \in Calls |-> call[d]]
  BY BusyCall DEF Structure
<1>2. call' = [call EXCEPT ![c] = new]
  BY DEF Goes
<1>3. /\ new \in Call /\ new.at = "sent" /\ new.req = req
      /\ new.op = call[c].op /\ new.id = call[c].id
      /\ new.content = call[c].content /\ new.page = call[c].page /\ new.ref = call[c].ref
  <2>1. new \in Call
    BY <1>1, Zenon DEF Call
  <2>2. DOMAIN call[c] = {"op", "req", "id", "content", "page", "at", "got", "ref"}
    BY <1>1, Zenon DEF Call
  <2> QED  BY <2>1, <2>2, Zenon
<1> HIDE DEF new
<1>4. call'[c] = new /\ (\A d \in Calls \ {c} : call'[d] = call[d])
      /\ call' = [d \in Calls |-> call'[d]]
  BY <1>1, <1>2, Zenon
<1> QED  BY <1>3, <1>4

LEMMA EndsCall ==
  ASSUME Structure, NEW c \in Calls, Ends(c)
  PROVE  /\ call'[c] = Idle
         /\ \A d \in Calls \ {c} : call'[d] = call[d]
         /\ call' = [d \in Calls |-> call'[d]]
<1>1. call = [d \in Calls |-> call[d]]
  BY DEF Structure
<1> HIDE DEF Idle
<1> QED  BY <1>1, Zenon DEF Ends

-----------------------------------------------------------------------------
(* What the steps keep of the calls. *)
\* A row that exists stays, and so do the calls about it.
LEMMA OthersOK ==
  ASSUME Structure, NEW d \in Calls, call'[d] = call[d], page <= page', page' \in Nat,
         \A w \in Wf : rows[w] # None => rows'[w] # None
  PROVE  (call[d] = Idle \/ CallOK(d))'
<1>1. CASE call[d] = Idle
  BY <1>1 DEF Idle
<1>2. CASE call[d] # Idle
  <2>1. CallOK(d) /\ call[d] \in Call
    BY <1>2, BusyCall
  <2>2. call[d].page <= page'
    <3>1. call[d].page \in Nat /\ call[d].page <= page /\ page \in Nat
      BY <2>1 DEF CallOK, Call, Structure, TypeOK
    <3> QED  BY <3>1
  <2> QED  BY <2>1, <2>2 DEF CallOK, Exists
<1> QED  BY <1>1, <1>2

\* A call goes on or ends: those that are left keep their order.
LEMMA Progress ==
  ASSUME Structure, NEW c \in Busy, \A d \in Calls \ {c} : call'[d] = call[d],
         \/ call'[c] = Idle
         \/ call'[c].op = call[c].op /\ call'[c].page = call[c].page,
         page' = page,
         \/ UNCHANGED <<dialog, route>>
         \/ call[c].op = "leave" /\ call'[c] = Idle /\ dialog' = "closed"
         \/ call[c].op = "leave" /\ call'[c] = Idle /\ UNCHANGED route,
         \/ UNCHANGED loading
         \/ /\ Own(c) /\ call[c].op = "load" /\ call'[c] = Idle
            /\ loading' \in {"no", "failed"},
         \/ overlap' = overlap
         \/ Own(c) /\ call[c].op = "load" /\ call'[c] = Idle
  PROVE  GuardsOnce' /\ LoadsFirst' /\ OneCall'
<1>1. c \in Calls /\ call[c] # Idle
  BY DEF Busy
<1>2. \A d \in Busy' : d \in Busy /\ call'[d].op = call[d].op /\ (Own(d)' <=> Own(d))
  BY <1>1 DEF Busy, Own
<1>3. \A d \in Busy' : d = c => call'[c] # Idle
  BY DEF Busy
<1>4. GuardsOnce /\ LoadsFirst /\ OneCall
  BY DEF Structure
<1>5. OneCall'
  BY <1>2, <1>3, <1>4 DEF OneCall, LoadsFirst
<1>6. LoadsFirst'
  BY <1>2, <1>3, <1>4 DEF LoadsFirst
<1>7. GuardsOnce'
  <2>1. call[c].op = "leave" => InEditor
    BY <1>4 DEF GuardsOnce
  <2>2. Own(c) /\ call[c].op = "load" => loading = "yes"
    BY <1>4 DEF LoadsFirst
  <2>3. dialog' # "closed" => InEditor'
    BY <1>4, <2>1, <2>2 DEF GuardsOnce, InEditor
  <2>4. \A d \in Busy' : call'[d].op = "leave" => dialog' = "saving" /\ Own(d)'
    BY <1>2, <1>3, <1>4 DEF GuardsOnce
  <2>5. \A d, e \in Busy' : call'[d].op = "leave" /\ call'[e].op = "leave" => d = e
    BY <1>2, <1>4 DEF GuardsOnce
  <2> QED  BY <2>3, <2>4, <2>5 DEF GuardsOnce
<1> QED  BY <1>5, <1>6, <1>7

-----------------------------------------------------------------------------
(* Structure. *)
LEMMA StructureInit == Init => Structure
<1> SUFFICES ASSUME Init PROVE Structure
  OBVIOUS
<1>1. PICK s \in {"draft", "active"} :
        rows = [w \in Wf |-> IF w \in Old THEN [content |-> Content(w, 0), status |-> s]
                                          ELSE None]
  BY DEF Init
<1>2. \A w \in Old : Content(w, 0) \in Contents
  BY BoundsAssumption DEF Content, Contents
<1>3. \A w \in Old : [content |-> Content(w, 0), status |-> s] \in Row
  BY <1>2 DEF Row, Statuses
<1>4. rows \in [Wf -> Row \cup {None}] /\ \A w \in Old : rows[w] \in Row
  BY <1>1, <1>3, IdsAssumption
<1>5. store \in Store
  <2>1. Content(0, 0) \in Contents
    BY BoundsAssumption DEF Content, Contents
  <2> QED  BY <2>1 DEF Init, Blank, Store
<1>6. TypeOK
  <2>1. /\ fresh \in BOOLEAN /\ raced \in BOOLEAN /\ overlap \in BOOLEAN
        /\ crossed \in BOOLEAN
    BY Zenon DEF Init
  <2>2. /\ page \in 0 .. MaxOpens /\ edits \in 0 .. MaxEdits
        /\ clicks \in 0 .. MaxClicks /\ failures \in 0 .. MaxFailures
    BY BoundsAssumption DEF Init
  <2>3. /\ route \in Wf \cup {"list", "new"} /\ loading \in {"no", "yes", "failed"}
        /\ dialog \in {"closed", "open", "saving"}
        /\ run \in {"none", "active", "ended", "stopped"} /\ prior \in Statuses \cup {None}
    BY DEF Init
  <2> QED  BY <1>4, <1>5, <2>1, <2>2, <2>3 DEF TypeOK
<1>7. \A c \in Calls : call[c] = Idle
  BY DEF Init
<1>8. Busy = {} /\ dialog = "closed" /\ call = [c \in Calls |-> call[c]]
  BY <1>7 DEF Busy, Init
<1>9. \A w \in Old \cup {store.id} : w # None => Exists(w)
  <2>1. store.id = None
    BY DEF Init, Blank
  <2> QED  BY <1>4, <2>1, IdsAssumption, NoneAssumption DEF Exists
<1> QED  BY <1>6, <1>7, <1>8, <1>9 DEF Structure, GuardsOnce, LoadsFirst, OneCall

\* Steps write Booleans to what is Boolean.
HistoryOK == fresh \in BOOLEAN /\ raced \in BOOLEAN /\ overlap \in BOOLEAN /\ crossed \in BOOLEAN

LEMMA HistoryTypes == HistoryOK /\ Next => HistoryOK'
<1> SUFFICES ASSUME HistoryOK, Next PROVE HistoryOK'
  OBVIOUS
<1> USE DEF HistoryOK, ui, history, Begin, Stale
<1>1. CASE OpenNew \/ (\E w \in Wf : OpenRow(w)) \/ Edit \/ Import \/ Leave
  BY <1>1, Zenon DEF OpenNew, OpenRow, Edit, Import, Leave
<1>2. CASE DialogLeave \/ DialogCancel \/ DialogSave \/ Save \/ Run \/ Activate
           \/ Deactivate \/ Stop
  BY <1>2, Zenon DEF DialogLeave, DialogCancel, DialogSave, Save, Run, Activate,
                     Deactivate, Stop
<1>3. CASE Measured \/ RunEnds
  BY <1>3, Zenon DEF Measured, RunEnds
<1>4. CASE \E c \in Calls : Server(c) \/ Fails(c)
  BY <1>4, Zenon DEF Server, Fails, Get, Put, Post, SetActive, SetInactive, Execution
<1>5. CASE \E c \in Calls : Answer(c)
  BY <1>5, Zenon DEF Answer, Loaded, Saved, StatusSet, Started, Cancelled
<1> QED  BY <1>1, <1>2, <1>3, <1>4, <1>5 DEF Next, User

\* Steps of the page that make no request.
LEMMA PageKeepsStructure ==
  ASSUME Structure, HistoryOK',
         OpenNew \/ Edit \/ Import \/ Measured \/ Leave \/ DialogLeave \/ DialogCancel
           \/ RunEnds
  PROVE  Structure'
<1> USE DEF ui, history, counts
<1>1. TypeOK /\ GuardsOnce /\ LoadsFirst /\ OneCall /\ call = [c \in Calls |-> call[c]]
  BY DEF Structure
<1>2. UNCHANGED <<rows, call, clicks, failures>> /\ Busy' = Busy
  BY DEF OpenNew, Edit, Import, Measured, Leave, DialogLeave, DialogCancel, RunEnds, Busy
<1>3. /\ page' \in 0 .. MaxOpens /\ page <= page' /\ edits' \in 0 .. MaxEdits
      /\ route' \in Wf \cup {"list", "new"} /\ loading' \in {"no", "yes", "failed"}
      /\ dialog' \in {"closed", "open", "saving"}
      /\ run' \in {"none", "active", "ended", "stopped"} /\ prior' \in Statuses \cup {None}
  BY <1>1, BoundsAssumption
     DEF TypeOK, OpenNew, Edit, Import, Measured, Leave, DialogLeave, DialogCancel, RunEnds
<1>4. store' \in Store /\ store'.id \in {store.id, None}
  <2>1. CASE OpenNew
    <3>1. Content(page', 0) \in Contents
      BY <1>3, BoundsAssumption DEF Content, Contents
    <3> QED  BY <2>1, <3>1 DEF OpenNew, Blank, Store
  <2>2. CASE Edit \/ Import
    <3>1. PICK n \in 0 .. MaxEdits, b \in BOOLEAN :
            store' = [store EXCEPT !.content.n = n, !.dirty = b]
      BY <1>3, <2>2 DEF Edit, Import
    <3>2. [store.content EXCEPT !.n = n] \in Contents
      BY <1>1 DEF TypeOK, Store, Contents
    <3> QED  BY <1>1, <3>1, <3>2 DEF TypeOK, Store
  <2>3. CASE Measured
    BY <1>1, <2>3 DEF Measured, TypeOK, Store
  <2>4. CASE Leave \/ DialogLeave \/ DialogCancel \/ RunEnds
    BY <1>1, <2>4 DEF Leave, DialogLeave, DialogCancel, RunEnds, TypeOK
  <2> QED  BY <2>1, <2>2, <2>3, <2>4
<1>5. TypeOK'
  BY <1>1, <1>2, <1>3, <1>4 DEF TypeOK, HistoryOK
<1>6. \A c \in Calls : (call[c] = Idle \/ CallOK(c))'
  <2>1. page' \in Nat
    BY <1>3
  <2> QED  BY <1>2, <1>3, <2>1, OthersOK
<1>7. \A w \in Old \cup {store'.id} : w # None => Exists(w)'
  BY <1>2, <1>4 DEF Structure, Exists
<1>8. GuardsOnce' /\ LoadsFirst' /\ OneCall'
  <2>1. CASE OpenNew
    <3>1. page' = page + 1 /\ route = "list" /\ dialog' = dialog
      BY <2>1 DEF OpenNew
    <3>2. \A c \in Busy : ~ Own(c)' /\ call[c].op # "leave" /\ dialog = "closed"
      <4> SUFFICES ASSUME NEW c \in Busy
                   PROVE  ~ Own(c)' /\ call[c].op # "leave"
        BY <1>1, <3>1 DEF GuardsOnce, InEditor
      <4>1. call[c].page \in Nat /\ call[c].page <= page
        BY DEF Structure, CallOK, Busy, Call
      <4>2. page \in Nat
        BY <1>1 DEF TypeOK
      <4>3. ~ Own(c)'
        BY <1>2, <3>1, <4>1, <4>2 DEF Own
      <4>4. call[c].op # "leave"
        BY <1>1, <3>1 DEF GuardsOnce, InEditor
      <4> QED  BY <4>3, <4>4
    <3>3. dialog' = "closed"
      BY <1>1, <3>1 DEF GuardsOnce, InEditor
    <3> QED  BY <1>2, <3>2, <3>3 DEF GuardsOnce, LoadsFirst, OneCall
  <2>2. CASE ~ OpenNew
    <3>1. UNCHANGED <<page, loading, overlap>>
      BY <2>2 DEF Edit, Import, Measured, Leave, DialogLeave, DialogCancel, RunEnds
    <3>2. \A c \in Busy : Own(c)' <=> Own(c)
      BY <1>2, <3>1 DEF Own
    <3>3. LoadsFirst' /\ OneCall'
      BY <1>1, <1>2, <3>1, <3>2 DEF LoadsFirst, OneCall
    <3>4. CASE UNCHANGED <<dialog, route>>
      <4>1. InEditor' <=> InEditor
        BY <3>1, <3>4 DEF InEditor
      <4> QED  BY <1>1, <1>2, <3>2, <3>3, <3>4, <4>1 DEF GuardsOnce
    <3>5. CASE Leave
      <4>1. /\ dialog = "closed" /\ dialog' \in {"open", "closed"}
            /\ dialog' = "open" => InEditor /\ UNCHANGED route
        BY <3>5 DEF Leave
      <4>2. dialog' # "closed" => InEditor'
        BY <3>1, <4>1 DEF InEditor
      <4>3. \A c \in Busy' : call'[c].op # "leave"
        BY <1>1, <1>2, <4>1 DEF GuardsOnce
      <4> QED  BY <3>3, <4>2, <4>3 DEF GuardsOnce
    <3>6. CASE DialogLeave \/ DialogCancel
      <4>1. dialog = "open" /\ dialog' = "closed"
        BY <3>6 DEF DialogLeave, DialogCancel
      <4>2. \A c \in Busy' : call'[c].op # "leave"
        BY <1>1, <1>2, <4>1 DEF GuardsOnce
      <4> QED  BY <3>3, <4>1, <4>2 DEF GuardsOnce
    <3>7. CASE Edit \/ Import \/ Measured \/ RunEnds
      BY <3>4, <3>7 DEF Edit, Import, Measured, RunEnds
    <3> QED  BY <2>2, <3>5, <3>6, <3>7
  <2> QED  BY <2>1, <2>2
<1>9. call' = [c \in Calls |-> call'[c]]
  BY <1>1, <1>2
<1> QED  BY <1>5, <1>6, <1>7, <1>8, <1>9 DEF Structure

\* A click begins a call of the page, or opens a row on a page of its own.
LEMMA BeginKeepsStructure ==
  ASSUME Structure, TypeOK', UNCHANGED <<rows, store>>,
         NEW op \in Ops, NEW req \in RequestsOf(op), NEW id \in Wf \cup {None},
         NEW on \in 0 .. MaxOpens, page' = on, Begin(op, req, id, on),
         IF req = "post" THEN id = None ELSE Exists(id) \/ (req = "cancel" /\ id = None),
         op = "stop" => req = "cancel",
         \/ /\ InEditor /\ op \notin {"load", "leave"}
            /\ UNCHANGED <<page, loading, route, dialog>>
         \/ /\ op = "leave" /\ dialog = "open" /\ dialog' = "saving"
            /\ UNCHANGED <<page, loading, route>>
         \/ /\ op = "load" /\ route = "list" /\ page' = page + 1 /\ loading' = "yes"
            /\ UNCHANGED dialog
  PROVE  Structure'
<1>1. TypeOK /\ GuardsOnce /\ LoadsFirst /\ OneCall
  BY DEF Structure
<1>2. req \in Reqs /\ page \in Nat /\ page' \in 0 .. MaxOpens /\ page <= page'
  BY <1>1 DEF Ops, RequestsOf, Reqs, TypeOK
<1>3. PICK c \in Calls :
        /\ call[c] = Idle /\ call'[c] \in Call
        /\ call'[c].op = op /\ call'[c].req = req /\ call'[c].id = id
        /\ call'[c].content = store.content /\ call'[c].page = on
        /\ call'[c].at = "sent"
        /\ \A d \in Calls \ {c} : call'[d] = call[d]
  BY <1>2, Begun
<1>4. call' = [d \in Calls |-> call'[d]] /\ overlap' = (overlap \/ \E d \in Busy : Own(d))
  BY <1>2, Begun
<1>5. \A d \in Calls : (call[d] = Idle \/ CallOK(d))'
  <2> SUFFICES ASSUME NEW d \in Calls PROVE (call[d] = Idle \/ CallOK(d))'
    OBVIOUS
  <2>1. CASE d = c
    <3>1. /\ call'[c].page <= page' /\ call'[c].req \in RequestsOf(call'[c].op)
          /\ call'[c].at # "answered"
          /\ ~ (call'[c].op = "stop" /\ call'[c].req = "deactivate")
      BY <1>2, <1>3
    <3>2. IF call'[c].req = "post" /\ call'[c].at = "sent" THEN call'[c].id = None
          ELSE Exists(call[c].id)' \/ (call'[c].req = "cancel" /\ call'[c].id = None)
      BY <1>3 DEF Exists
    <3> QED  BY <1>3, <2>1, <3>1, <3>2 DEF CallOK
  <2>2. CASE d # c
    <3>1. call'[d] = call[d]
      BY <1>3, <2>2
    <3> QED  BY <1>2, <3>1, OthersOK
  <2> QED  BY <2>1, <2>2
<1>6. \A d \in Busy' : d = c \/ (d \in Busy /\ call'[d] = call[d])
  BY <1>3 DEF Busy
<1>7. c \in Busy' /\ c \notin Busy
  BY <1>3, CallsAreNotIdle DEF Busy
<1>8. GuardsOnce' /\ LoadsFirst' /\ OneCall'
  <2>1. CASE /\ InEditor /\ op \notin {"load", "leave"}
             /\ UNCHANGED <<page, loading, route, dialog>>
    <3>1. Own(c)' /\ \A d \in Busy' : d # c => (Own(d)' <=> Own(d))
      BY <1>3, <1>6, <2>1 DEF Own
    <3>2. GuardsOnce'
      BY <1>1, <1>3, <1>6, <2>1, <3>1 DEF GuardsOnce, InEditor
    <3>3. LoadsFirst'
      BY <1>1, <1>3, <1>6, <2>1, <3>1 DEF LoadsFirst, InEditor
    <3>4. OneCall'
      BY <1>1, <1>3, <1>4, <1>6, <3>1 DEF OneCall
    <3> QED  BY <3>2, <3>3, <3>4
  <2>2. CASE /\ op = "leave" /\ dialog = "open" /\ dialog' = "saving"
             /\ UNCHANGED <<page, loading, route>>
    <3>1. Own(c)' /\ \A d \in Busy' : d # c => (Own(d)' <=> Own(d))
      BY <1>3, <1>6, <2>2 DEF Own
    <3>2. \A d \in Busy : call[d].op # "leave"
      BY <1>1, <2>2 DEF GuardsOnce
    <3>3. InEditor
      BY <1>1, <2>2 DEF GuardsOnce
    <3>4. GuardsOnce'
      BY <1>1, <1>3, <1>6, <2>2, <3>1, <3>2, <3>3 DEF GuardsOnce, InEditor
    <3>5. LoadsFirst'
      BY <1>1, <1>3, <1>6, <2>2, <3>1, <3>3 DEF LoadsFirst, InEditor
    <3>6. OneCall'
      BY <1>1, <1>3, <1>4, <1>6, <3>1 DEF OneCall
    <3> QED  BY <3>4, <3>5, <3>6
  <2>3. CASE /\ op = "load" /\ route = "list" /\ page' = page + 1 /\ loading' = "yes"
             /\ UNCHANGED dialog
    <3>1. \A d \in Busy' : d # c => ~ Own(d)'
      <4> SUFFICES ASSUME NEW d \in Busy', d # c PROVE ~ Own(d)'
        OBVIOUS
      <4>1. d \in Busy /\ call'[d] = call[d]
        BY <1>6
      <4>2. call[d].page \in Nat /\ call[d].page <= page
        BY <4>1 DEF Structure, CallOK, Busy, Call
      <4> QED  BY <1>2, <2>3, <4>1, <4>2 DEF Own
    <3>2. dialog' = "closed" /\ dialog = "closed"
      BY <1>1, <2>3 DEF GuardsOnce, InEditor
    <3>3. \A d \in Busy' : call'[d].op # "leave"
      BY <1>1, <1>3, <1>6, <2>3, <3>2 DEF GuardsOnce
    <3>4. GuardsOnce'
      BY <3>2, <3>3 DEF GuardsOnce
    <3>5. LoadsFirst'
      BY <1>3, <2>3, <3>1 DEF LoadsFirst
    <3>6. OneCall'
      BY <3>1 DEF OneCall
    <3> QED  BY <3>4, <3>5, <3>6
  <2> QED  BY <2>1, <2>2, <2>3
<1>9. \A w \in Old \cup {store'.id} : w # None => Exists(w)'
  BY DEF Structure, Exists
<1> QED  BY <1>4, <1>5, <1>8, <1>9 DEF Structure

\* The buttons, the guard's Save and opening a row.
LEMMA ClicksKeepStructure ==
  ASSUME Structure, HistoryOK',
         \/ \E w \in Wf : OpenRow(w)
         \/ DialogSave \/ Save \/ Run \/ Activate \/ Deactivate \/ Stop
  PROVE  Structure'
<1> USE DEF ui, history, counts
<1>1. TypeOK
  BY DEF Structure
<1>2. /\ store.id \in Wf \cup {None} /\ (store.id # None => Exists(store.id))
      /\ page \in 0 .. MaxOpens
  BY <1>1 DEF Structure, TypeOK, Store
<1>3. SaveRequest \in {"put", "post"} /\ (SaveRequest = "post" <=> store.id = None)
  BY DEF SaveRequest
<1>4. /\ FirstRequest \in {"put", "post", "activate"}
      /\ FirstRequest = "post" <=> store.id = None
  BY DEF FirstRequest
<1>5. TypeOK'
  <2>1. clicks' \in 0 .. MaxClicks
    BY <1>1, BoundsAssumption DEF TypeOK, Begin, OpenRow, DialogSave, Save, Run, Activate,
                                  Deactivate, Stop
  <2>2. UNCHANGED <<rows, store, edits, failures>>
    BY DEF OpenRow, DialogSave, Save, Run, Activate, Deactivate, Stop
  <2>3. page' \in 0 .. MaxOpens
    BY <1>1, BoundsAssumption DEF TypeOK, OpenRow, DialogSave, Save, Run, Activate,
                                  Deactivate, Stop
  <2>4. prior' \in Statuses \cup {None}
    BY <1>1 DEF TypeOK, Store, OpenRow, DialogSave, Save, Run, Activate, Deactivate, Stop
  <2>5. /\ route' \in Wf \cup {"list", "new"} /\ loading' \in {"no", "yes", "failed"}
        /\ dialog' \in {"closed", "open", "saving"}
        /\ run' \in {"none", "active", "ended", "stopped"}
    BY <1>1 DEF TypeOK, OpenRow, DialogSave, Save, Run, Activate, Deactivate, Stop
  <2> QED  BY <1>1, <2>1, <2>2, <2>3, <2>4, <2>5 DEF TypeOK, HistoryOK
<1>6. CASE \E w \in Wf : OpenRow(w)
  <2>1. PICK w \in Wf : OpenRow(w)
    BY <1>6
  <2>2. /\ UNCHANGED <<rows, store, dialog>> /\ Begin("load", "get", w, page + 1)
        /\ route = "list" /\ page' = page + 1 /\ loading' = "yes" /\ Exists(w)
        /\ page + 1 \in 0 .. MaxOpens
    BY <1>5, <2>1 DEF OpenRow, Exists, TypeOK
  <2>3. "load" \in Ops /\ "get" \in RequestsOf("load")
    BY DEF Ops, RequestsOf
  <2> QED  BY <1>5, <2>2, <2>3, BeginKeepsStructure
<1>7. CASE DialogSave
  <2>1. /\ UNCHANGED <<rows, store, page, loading, route>>
        /\ Begin("leave", SaveRequest, store.id, page)
        /\ dialog = "open" /\ dialog' = "saving"
    BY <1>7 DEF DialogSave
  <2>2. "leave" \in Ops /\ SaveRequest \in RequestsOf("leave")
    BY <1>3 DEF Ops, RequestsOf
  <2> QED  BY <1>2, <1>3, <1>5, <2>1, <2>2, BeginKeepsStructure
<1>8. CASE Save
  <2>1. /\ UNCHANGED <<rows, store, page, loading, route, dialog>> /\ InEditor
        /\ Begin("save", SaveRequest, store.id, page)
    BY <1>8 DEF Save, Clickable
  <2>2. "save" \in Ops /\ SaveRequest \in RequestsOf("save")
    BY <1>3 DEF Ops, RequestsOf
  <2> QED  BY <1>2, <1>3, <1>5, <2>1, <2>2, BeginKeepsStructure
<1>9. CASE Run
  <2>1. /\ UNCHANGED <<rows, store, page, loading, route, dialog>> /\ InEditor
        /\ Begin("run", FirstRequest, store.id, page)
    BY <1>9 DEF Run, Clickable
  <2>2. "run" \in Ops /\ FirstRequest \in RequestsOf("run")
    BY <1>4 DEF Ops, RequestsOf
  <2> QED  BY <1>2, <1>4, <1>5, <2>1, <2>2, BeginKeepsStructure
<1>10. CASE Activate
  <2>1. /\ UNCHANGED <<rows, store, page, loading, route, dialog>> /\ InEditor
        /\ Begin("activate", FirstRequest, store.id, page) /\ store.id # None
    BY <1>10 DEF Activate, Clickable
  <2>2. "activate" \in Ops /\ FirstRequest \in RequestsOf("activate")
    BY <1>4, <2>1 DEF Ops, RequestsOf
  <2> QED  BY <1>2, <1>4, <1>5, <2>1, <2>2, BeginKeepsStructure
<1>11. CASE Deactivate
  <2>1. /\ UNCHANGED <<rows, store, page, loading, route, dialog>> /\ InEditor
        /\ Begin("deactivate", "deactivate", store.id, page) /\ store.id # None
    BY <1>11 DEF Deactivate, Clickable
  <2>2. "deactivate" \in Ops /\ "deactivate" \in RequestsOf("deactivate")
    BY DEF Ops, RequestsOf
  <2> QED  BY <1>2, <1>5, <2>1, <2>2, BeginKeepsStructure
<1>12. CASE Stop
  <2>1. /\ UNCHANGED <<rows, store, page, loading, route, dialog>> /\ InEditor
        /\ Begin("stop", "cancel", store.id, page)
    BY <1>12 DEF Stop, Clickable
  <2>2. "stop" \in Ops /\ "cancel" \in RequestsOf("stop")
    BY DEF Ops, RequestsOf
  <2> QED  BY <1>2, <1>5, <2>1, <2>2, BeginKeepsStructure
<1> QED  BY <1>6, <1>7, <1>8, <1>9, <1>10, <1>11, <1>12

\* The server answers an insertion with the id of the new row.
LEMMA InsertsCall ==
  ASSUME Structure, NEW c \in Calls, call[c] # Idle, NEW w \in Wf,
         call' = [call EXCEPT ![c].at = "answered", ![c].id = w, ![c].got = "draft"]
  PROVE  /\ call'[c] \in Call /\ call'[c].at = "answered" /\ call'[c].got = "draft"
         /\ call'[c].op = call[c].op /\ call'[c].req = call[c].req /\ call'[c].id = w
         /\ call'[c].content = call[c].content /\ call'[c].page = call[c].page
         /\ call'[c].ref = call[c].ref
         /\ \A d \in Calls \ {c} : call'[d] = call[d]
         /\ call' = [d \in Calls |-> call'[d]]
<1> DEFINE new == [call[c] EXCEPT !.at = "answered", !.id = w, !.got = "draft"]
<1>1. call[c] \in Call /\ call = [d \in Calls |-> call[d]]
  BY BusyCall DEF Structure
<1>2. call' = [call EXCEPT ![c] = new]
  OBVIOUS
<1>3. /\ new \in Call /\ new.at = "answered" /\ new.got = "draft"
      /\ new.op = call[c].op /\ new.req = call[c].req /\ new.id = w
      /\ new.content = call[c].content /\ new.page = call[c].page /\ new.ref = call[c].ref
  <2>1. new \in Call
    BY <1>1, Zenon DEF Call, Statuses
  <2>2. DOMAIN call[c] = {"op", "req", "id", "content", "page", "at", "got", "ref"}
    BY <1>1, Zenon DEF Call
  <2> QED  BY <2>1, <2>2, Zenon
<1> HIDE DEF new
<1>4. call'[c] = new /\ (\A d \in Calls \ {c} : call'[d] = call[d])
      /\ call' = [d \in Calls |-> call'[d]]
  BY <1>1, <1>2, Zenon
<1> QED  BY <1>3, <1>4

\* A request, its answer or its failure: the call keeps its place, or is over.
LEMMA CourseKeepsStructure ==
  ASSUME Structure, TypeOK', NEW c \in Busy,
         \A d \in Calls \ {c} : call'[d] = call[d],
         call' = [d \in Calls |-> call'[d]],
         (call[c] = Idle \/ CallOK(c))',
         \/ call'[c] = Idle
         \/ call'[c].op = call[c].op /\ call'[c].page = call[c].page,
         \A w \in Wf : rows[w] # None => rows'[w] # None,
         store'.id # None => Exists(store.id)',
         page' = page,
         \/ UNCHANGED <<dialog, route>>
         \/ call[c].op = "leave" /\ call'[c] = Idle /\ dialog' = "closed"
         \/ call[c].op = "leave" /\ call'[c] = Idle /\ UNCHANGED route,
         \/ UNCHANGED loading
         \/ /\ Own(c) /\ call[c].op = "load" /\ call'[c] = Idle
            /\ loading' \in {"no", "failed"},
         \/ overlap' = overlap
         \/ Own(c) /\ call[c].op = "load" /\ call'[c] = Idle
  PROVE  Structure'
<1>1. GuardsOnce' /\ LoadsFirst' /\ OneCall'
  BY Progress
<1>2. page <= page' /\ page' \in Nat
  BY DEF Structure, TypeOK
<1>3. \A d \in Calls : (call[d] = Idle \/ CallOK(d))'
  <2> SUFFICES ASSUME NEW d \in Calls PROVE (call[d] = Idle \/ CallOK(d))'
    OBVIOUS
  <2>1. CASE d = c
    BY <2>1
  <2>2. CASE d # c
    <3>1. call'[d] = call[d]
      BY <2>2
    <3> QED  BY <1>2, <3>1, OthersOK
  <2> QED  BY <2>1, <2>2
<1>4. \A w \in Old \cup {store'.id} : w # None => Exists(w)'
  BY DEF Structure, Exists
<1> QED  BY <1>1, <1>3, <1>4 DEF Structure

\* What a request writes is a row, and no row goes.
LEMMA ServerRows ==
  ASSUME Structure, NEW c \in Calls, Server(c)
  PROVE  /\ rows' \in [Wf -> Row \cup {None}]
         /\ \A w \in Wf : rows[w] # None => rows'[w] # None
<1>1. TypeOK
  BY DEF Structure
<1>2. call[c] # Idle
  BY DEF Server, Get, Put, Post, SetActive, SetInactive, Execution, Sent
<1>3. CallOK(c) /\ call[c] \in Call
  BY <1>2, BusyCall
<1>4. call[c].content \in Contents
  BY <1>3 DEF Call
<1>5. ASSUME NEW w \in Wf, NEW row \in Row, rows' = [rows EXCEPT ![w] = row]
      PROVE  /\ rows' \in [Wf -> Row \cup {None}]
             /\ \A v \in Wf : rows[v] # None => rows'[v] # None
  BY <1>1, <1>5, NoneAssumption DEF TypeOK
<1>6. ASSUME Exists(call[c].id)
      PROVE  rows[call[c].id] \in Row /\ call[c].id \in Wf
  BY <1>1, <1>6 DEF TypeOK, Exists
<1>7. CASE Put(c)
  <2>1. Exists(call[c].id)
    BY <1>3, <1>7 DEF Put, Sent, CallOK
  <2>2. [rows[call[c].id] EXCEPT !.content = call[c].content] \in Row
    BY <1>4, <1>6, <2>1 DEF Row
  <2> QED  BY <1>5, <1>6, <1>7, <2>1, <2>2 DEF Put
<1>8. CASE Post(c)
  <2>1. [content |-> call[c].content, status |-> "draft"] \in Row
    BY <1>4 DEF Row, Statuses
  <2> QED  BY <1>5, <1>8, <2>1 DEF Post
<1>9. CASE SetActive(c) \/ SetInactive(c)
  <2>1. Exists(call[c].id)
    BY <1>3, <1>9 DEF SetActive, SetInactive, Sent, CallOK
  <2>2. \A s \in Statuses : [rows[call[c].id] EXCEPT !.status = s] \in Row
    BY <1>6, <2>1 DEF Row
  <2>3. PICK s \in Statuses : rows' = [rows EXCEPT ![call[c].id].status = s]
    BY <1>9 DEF SetActive, SetInactive, Statuses
  <2> QED  BY <1>5, <1>6, <2>1, <2>2, <2>3
<1>10. CASE Get(c) \/ Execution(c)
  BY <1>1, <1>10 DEF Get, Execution, TypeOK
<1> QED  BY <1>7, <1>8, <1>9, <1>10 DEF Server

\* The server keeps the calls in order, and the page as it was.
LEMMA ServerKeepsStructure ==
  ASSUME Structure, HistoryOK', NEW c \in Calls, Server(c)
  PROVE  Structure'
<1> USE DEF ui, history, counts
<1>1. TypeOK
  BY DEF Structure
<1>2. call[c] # Idle
  BY DEF Server, Get, Put, Post, SetActive, SetInactive, Execution, Sent
<1>3. CallOK(c) /\ call[c] \in Call /\ c \in Busy
  BY <1>2, BusyCall
<1>4. UNCHANGED <<store, ui, edits, counts, overlap>>
  BY DEF Server, Get, Put, Post, SetActive, SetInactive, Execution
<1>5. /\ rows' \in [Wf -> Row \cup {None}]
      /\ \A w \in Wf : rows[w] # None => rows'[w] # None
  BY ServerRows
<1>6. TypeOK'
  BY <1>1, <1>4, <1>5 DEF TypeOK, HistoryOK
<1>7. /\ call'[c] \in Call /\ call'[c].at = "answered" /\ call'[c].op = call[c].op
      /\ call'[c].req = call[c].req /\ call'[c].page = call[c].page
      /\ call'[c].ref = call[c].ref
      /\ \A d \in Calls \ {c} : call'[d] = call[d]
      /\ call' = [d \in Calls |-> call'[d]]
      /\ Exists(call[c].id)' \/ (call'[c].req = "cancel" /\ call'[c].id = None)
      /\ call[c].req = "get" => call'[c].got \in Row
      /\ call[c].req \in {"put", "post", "activate", "deactivate"} => call'[c].got \in Statuses
      /\ call[c].req = "deactivate" => call'[c].got = "inactive"
  <2>1. CASE Post(c)
    <3>1. PICK w \in Wf :
            /\ rows' = [rows EXCEPT ![w] = [content |-> call[c].content, status |-> "draft"]]
            /\ call' = [call EXCEPT ![c].at = "answered", ![c].id = w, ![c].got = "draft"]
      BY <2>1 DEF Post
    <3>2. call[c].req = "post"
      BY <2>1 DEF Post, Sent
    <3>3. rows'[w] # None
      <4>1. [content |-> call[c].content, status |-> "draft"] \in Row
        BY <1>3 DEF Row, Statuses, Call
      <4> QED  BY <1>1, <3>1, <4>1, NoneAssumption DEF TypeOK
    <3> QED  BY <1>2, <3>1, <3>2, <3>3, InsertsCall DEF Exists, Statuses
  <2>2. CASE Get(c) \/ Put(c) \/ SetActive(c) \/ SetInactive(c) \/ Execution(c)
    <3>1. PICK got \in Row \cup Statuses \cup {None} :
            /\ Answered(c, got)
            /\ call[c].req = "get" => got \in Row
            /\ call[c].req \in {"put", "post", "activate", "deactivate"} => got \in Statuses
            /\ call[c].req = "deactivate" => got = "inactive"
      <4>1. CASE Get(c)
        <5>1. call[c].req = "get" /\ rows[call[c].id] \in Row
          BY <1>1, <1>3, <4>1 DEF Get, Sent, CallOK, Exists, TypeOK
        <5> QED  BY <4>1, <5>1 DEF Get
      <4>2. CASE Put(c)
        <5>1. call[c].req = "put" /\ rows[call[c].id].status \in Statuses
          BY <1>1, <1>3, <4>2 DEF Put, Sent, CallOK, Exists, TypeOK, Row
        <5> QED  BY <4>2, <5>1 DEF Put
      <4>3. CASE SetActive(c)
        BY <4>3 DEF SetActive, Sent, Statuses
      <4>4. CASE SetInactive(c)
        BY <4>4 DEF SetInactive, Sent, Statuses
      <4>5. CASE Execution(c)
        BY <4>5 DEF Execution, Sent
      <4> QED  BY <2>2, <4>1, <4>2, <4>3, <4>4, <4>5
    <3>2. call[c].req # "post"
      BY <2>2 DEF Get, Put, SetActive, SetInactive, Execution, Sent
    <3>3. Exists(call[c].id) \/ (call[c].req = "cancel" /\ call[c].id = None)
      BY <1>3, <3>2 DEF CallOK
    <3>4. /\ call'[c] \in Call /\ call'[c].at = "answered" /\ call'[c].got = got
          /\ call'[c].op = call[c].op /\ call'[c].req = call[c].req
          /\ call'[c].id = call[c].id /\ call'[c].page = call[c].page
          /\ call'[c].ref = call[c].ref
          /\ \A d \in Calls \ {c} : call'[d] = call[d]
          /\ call' = [d \in Calls |-> call'[d]]
      BY <1>2, <3>1, AnswersCall
    <3>5. Exists(call[c].id)' \/ (call'[c].req = "cancel" /\ call'[c].id = None)
      BY <1>5, <3>3, <3>4 DEF Exists
    <3> QED  BY <3>1, <3>4, <3>5
  <2> QED  BY <2>1, <2>2 DEF Server
<1>8. CallOK(c)'
  BY <1>3, <1>4, <1>7 DEF CallOK
<1>9. store'.id # None => Exists(store.id)'
  BY <1>1, <1>4, <1>5 DEF Structure, Exists
<1> QED  BY <1>3, <1>4, <1>6, <1>7, <1>8, <1>9, <1>5, CourseKeepsStructure

\* Stop goes on to deactivate.
LEMMA RestoresCall ==
  ASSUME Structure, NEW c \in Calls, call[c] # Idle, NEW status \in Statuses,
         call' = [call EXCEPT ![c].req = "deactivate", ![c].at = "sent", ![c].ref = status]
  PROVE  /\ call'[c] \in Call /\ call'[c].at = "sent" /\ call'[c].req = "deactivate"
         /\ call'[c].op = call[c].op /\ call'[c].id = call[c].id
         /\ call'[c].content = call[c].content /\ call'[c].page = call[c].page
         /\ call'[c].ref = status
         /\ \A d \in Calls \ {c} : call'[d] = call[d]
         /\ call' = [d \in Calls |-> call'[d]]
<1> DEFINE new == [call[c] EXCEPT !.req = "deactivate", !.at = "sent", !.ref = status]
<1>1. call[c] \in Call /\ call = [d \in Calls |-> call[d]]
  BY BusyCall DEF Structure
<1>2. call' = [call EXCEPT ![c] = new]
  OBVIOUS
<1>3. /\ new \in Call /\ new.at = "sent" /\ new.req = "deactivate"
      /\ new.op = call[c].op /\ new.id = call[c].id
      /\ new.content = call[c].content /\ new.page = call[c].page /\ new.ref = status
  <2>1. new \in Call
    BY <1>1, Zenon DEF Call, Reqs
  <2>2. DOMAIN call[c] = {"op", "req", "id", "content", "page", "at", "got", "ref"}
    BY <1>1, Zenon DEF Call
  <2> QED  BY <2>1, <2>2, Zenon
<1> HIDE DEF new
<1>4. call'[c] = new /\ (\A d \in Calls \ {c} : call'[d] = call[d])
      /\ call' = [d \in Calls |-> call'[d]]
  BY <1>1, <1>2, Zenon
<1> QED  BY <1>3, <1>4

\* What the request of a call says of its button.
LEMMA RequestsButton ==
  ASSUME Structure, NEW c \in Calls, call[c] # Idle
  PROVE  /\ call[c].req = "get" => call[c].op = "load"
         /\ call[c].req = "post" => call[c].op \in {"save", "leave", "run"}
         /\ call[c].req = "put" => call[c].op \in {"save", "leave", "run", "activate"}
         /\ call[c].req = "activate" => call[c].op \in {"run", "activate"}
         /\ call[c].req = "start" => call[c].op = "run"
         /\ call[c].req = "cancel" => call[c].op = "stop"
         /\ call[c].req = "deactivate" => call[c].op \in {"stop", "deactivate"}
<1>1. call[c].req \in RequestsOf(call[c].op) /\ call[c].op \in Ops
  BY BusyCall DEF CallOK
<1> QED  BY <1>1 DEF RequestsOf, Ops

\* An answer that arrives shows a row, or the status of a row, that exists.
LEMMA AnswerKeepsStructure ==
  ASSUME Structure, HistoryOK', NEW c \in Calls, Answer(c)
  PROVE  Structure'
<1> USE DEF ui, history, counts
<1>1. TypeOK /\ HistoryOK
  BY DEF Structure, TypeOK, HistoryOK
<1>2. call[c] # Idle /\ call[c].at = "answered"
  BY DEF Answer, Loaded, Saved, StatusSet, Started, Cancelled, Ready
<1>3. CallOK(c) /\ call[c] \in Call /\ c \in Busy
  BY <1>2, BusyCall
<1>4. UNCHANGED <<rows, page, edits, counts>>
  BY DEF Answer, Loaded, Saved, StatusSet, Started, Cancelled
<1>5. \A w \in Wf : rows[w] # None => rows'[w] # None
  BY <1>4
<1>6. store.id # None => Exists(store.id)
  BY DEF Structure
<1>7. ASSUME Ends(c)
      PROVE  /\ call'[c] = Idle /\ (\A d \in Calls \ {c} : call'[d] = call[d])
             /\ call' = [d \in Calls |-> call'[d]]
             /\ (call[c] = Idle \/ CallOK(c))'
  <2>1. call'[c] = Idle /\ (\A d \in Calls \ {c} : call'[d] = call[d])
        /\ call' = [d \in Calls |-> call'[d]]
    BY <1>7, EndsCall
  <2> QED  BY <2>1 DEF Idle
<1>8. CASE Loaded(c)
  <2>1. call[c].req = "get" /\ call[c].op = "load" /\ Ends(c)
    BY <1>2, <1>8, RequestsButton DEF Loaded, Ready
  <2>2. call[c].got \in Row /\ call[c].id \in Wf /\ Exists(call[c].id)
    BY <1>2, <1>3, <2>1 DEF CallOK, Exists
  <2>3. store' \in Store /\ store'.id = call[c].id
    BY <1>8, <2>2 DEF Loaded, Store, Row
  <2>4. /\ UNCHANGED <<route, dialog, run, prior>>
        /\ loading' = IF Own(c) THEN "no" ELSE loading
        /\ overlap' = (overlap /\ ~ Own(c))
    BY <1>8 DEF Loaded
  <2>5. TypeOK'
    BY <1>1, <1>4, <2>3, <2>4 DEF TypeOK, HistoryOK
  <2>6. store'.id # None => Exists(store.id)'
    BY <1>4, <2>2, <2>3 DEF Exists
  <2>7. overlap' = overlap \/ Own(c)
    BY <1>1, <2>4, Zenon DEF HistoryOK
  <2> QED  BY <1>3, <1>4, <1>5, <1>7, <2>1, <2>4, <2>5, <2>6, <2>7, CourseKeepsStructure
<1>9. CASE Saved(c)
  <2>1. call[c].req \in {"put", "post"} /\ Exists(call[c].id) /\ call[c].got \in Statuses
    BY <1>2, <1>3, <1>9 DEF Saved, Ready, CallOK
  <2>2. StatusAfter(c) \in Statuses \cup {None}
    BY <1>1, <2>1 DEF StatusAfter, TypeOK, Store
  <2>3. store' \in Store /\ store'.id = call[c].id
    BY <1>1, <1>9, <2>1, <2>2 DEF Saved, MarkSaved, TypeOK, Store, Exists
  <2>4. UNCHANGED <<loading, run, prior, overlap>>
    BY <1>9 DEF Saved
  <2>5. route' \in {route, "list"} /\ dialog' \in {dialog, "closed"}
    BY <1>9 DEF Saved
  <2>6. TypeOK'
    BY <1>1, <1>4, <2>3, <2>4, <2>5 DEF TypeOK, HistoryOK
  <2>7. store'.id # None => Exists(store.id)'
    BY <1>4, <2>1, <2>3 DEF Exists
  <2>8. CASE call[c].op = "save" /\ Ends(c) /\ UNCHANGED <<route, dialog>>
    BY <1>3, <1>4, <1>5, <1>7, <2>4, <2>6, <2>7, <2>8, CourseKeepsStructure
  <2>9. CASE call[c].op = "leave" /\ Ends(c) /\ dialog' = "closed"
    BY <1>3, <1>4, <1>5, <1>7, <2>4, <2>6, <2>7, <2>9, CourseKeepsStructure
  <2>10. CASE /\ call[c].op \in {"run", "activate"} /\ Goes(c, "activate")
              /\ UNCHANGED <<route, dialog>>
    <3>1. /\ call'[c] \in Call /\ call'[c].at = "sent" /\ call'[c].req = "activate"
          /\ call'[c].op = call[c].op /\ call'[c].id = call[c].id
          /\ call'[c].page = call[c].page
          /\ \A d \in Calls \ {c} : call'[d] = call[d]
          /\ call' = [d \in Calls |-> call'[d]]
      BY <1>2, <2>10, GoesOn DEF Reqs
    <3>2. CallOK(c)'
      BY <1>3, <1>4, <2>1, <2>10, <3>1 DEF CallOK, RequestsOf, Exists
    <3> QED  BY <1>3, <1>4, <1>5, <2>4, <2>6, <2>7, <2>10, <3>1, <3>2, CourseKeepsStructure
  <2> QED  BY <1>9, <2>8, <2>9, <2>10 DEF Saved
<1>10. CASE StatusSet(c)
  <2>1. /\ call[c].req \in {"activate", "deactivate"} /\ Exists(call[c].id)
        /\ call[c].got \in Statuses /\ call[c].ref \in Statuses \cup {None}
    BY <1>2, <1>3, <1>10 DEF StatusSet, Ready, CallOK, Call
  <2>2. store' \in Store /\ store'.id = store.id
    BY <1>1, <1>10, <2>1 DEF StatusSet, TypeOK, Store
  <2>3. UNCHANGED <<ui, raced, overlap>>
    BY <1>10 DEF StatusSet
  <2>4. TypeOK'
    BY <1>1, <1>4, <2>2, <2>3 DEF TypeOK, HistoryOK
  <2>5. store'.id # None => Exists(store.id)'
    BY <1>4, <1>6, <2>2 DEF Exists
  <2>6. CASE Ends(c)
    BY <1>3, <1>4, <1>5, <1>7, <2>3, <2>4, <2>5, <2>6, CourseKeepsStructure
  <2>7. CASE call[c].op = "run" /\ Goes(c, "start")
    <3>1. /\ call'[c] \in Call /\ call'[c].at = "sent" /\ call'[c].req = "start"
          /\ call'[c].op = call[c].op /\ call'[c].id = call[c].id
          /\ call'[c].page = call[c].page
          /\ \A d \in Calls \ {c} : call'[d] = call[d]
          /\ call' = [d \in Calls |-> call'[d]]
      BY <1>2, <2>7, GoesOn DEF Reqs
    <3>2. CallOK(c)'
      BY <1>3, <1>4, <2>1, <2>7, <3>1 DEF CallOK, RequestsOf, Exists
    <3> QED  BY <1>3, <1>4, <1>5, <2>3, <2>4, <2>5, <2>7, <3>1, <3>2, CourseKeepsStructure
  <2> QED  BY <1>10, <2>6, <2>7 DEF StatusSet
<1>11. CASE Started(c)
  <2>1. Ends(c) /\ run' = "active"
        /\ UNCHANGED <<store, route, loading, dialog, prior, overlap>>
    BY <1>11 DEF Started
  <2>2. TypeOK'
    BY <1>1, <1>4, <2>1 DEF TypeOK, HistoryOK
  <2>3. store'.id # None => Exists(store.id)'
    BY <1>4, <1>6, <2>1 DEF Exists
  <2> QED  BY <1>3, <1>4, <1>5, <1>7, <2>1, <2>2, <2>3, CourseKeepsStructure
<1>12. CASE Cancelled(c)
  <2> DEFINE status == IF Own(c) THEN prior ELSE call[c].ref
  <2>1. /\ call[c].req = "cancel" /\ call[c].op = "stop"
        /\ UNCHANGED <<store, route, loading, dialog, run, overlap>>
        /\ prior' \in {prior, None}
    BY <1>2, <1>12, RequestsButton DEF Cancelled, Ready
  <2>2. status \in Statuses \cup {None}
    BY <1>1, <1>3 DEF TypeOK, Call
  <2>3. TypeOK'
    BY <1>1, <1>4, <2>1 DEF TypeOK, HistoryOK
  <2>4. store'.id # None => Exists(store.id)'
    BY <1>4, <1>6, <2>1 DEF Exists
  <2>5. CASE Ends(c)
    BY <1>3, <1>4, <1>5, <1>7, <2>1, <2>3, <2>4, <2>5, CourseKeepsStructure
  <2>6. CASE /\ Restores(c, status)
             /\ call' = [call EXCEPT ![c].req = "deactivate", ![c].at = "sent",
                                     ![c].ref = status]
    <3>1. call[c].id # None /\ status \in {"draft", "inactive"} /\ status \in Statuses
      BY <2>2, <2>6 DEF Restores, Statuses
    <3> HIDE DEF status
    <3>2. /\ call'[c] \in Call /\ call'[c].at = "sent" /\ call'[c].req = "deactivate"
          /\ call'[c].op = call[c].op /\ call'[c].id = call[c].id
          /\ call'[c].page = call[c].page /\ call'[c].ref = status
          /\ \A d \in Calls \ {c} : call'[d] = call[d]
          /\ call' = [d \in Calls |-> call'[d]]
      BY <1>2, <2>6, <3>1, RestoresCall
    <3>3. CallOK(c)'
      BY <1>3, <1>4, <2>1, <3>1, <3>2 DEF CallOK, RequestsOf, Exists
    <3> QED  BY <1>3, <1>4, <1>5, <2>1, <2>3, <2>4, <3>2, <3>3, CourseKeepsStructure
  <2> QED  BY <1>12, <2>5, <2>6 DEF Cancelled
<1> QED  BY <1>8, <1>9, <1>10, <1>11, <1>12 DEF Answer

\* A failure ends the call, and opens the guard or the error page.
LEMMA FailureKeepsStructure ==
  ASSUME Structure, HistoryOK', NEW c \in Calls, Fails(c)
  PROVE  Structure'
<1>1. TypeOK /\ c \in Busy /\ Ends(c) /\ call[c] # Idle
  BY DEF Structure, Fails, Busy
<1>2. /\ UNCHANGED <<rows, store, route, page, prior, edits, clicks, overlap>>
      /\ failures' \in 0 .. MaxFailures
  BY <1>1, BoundsAssumption DEF Fails, history, TypeOK
<1>3. /\ loading' = IF call[c].op = "load" /\ Own(c) THEN "failed" ELSE loading
      /\ dialog' = IF call[c].op = "leave" THEN "open" ELSE dialog
      /\ run' \in {run, "active"}
  BY DEF Fails
<1>4. TypeOK'
  BY <1>1, <1>2, <1>3 DEF TypeOK, HistoryOK
<1>5. /\ call'[c] = Idle /\ (\A d \in Calls \ {c} : call'[d] = call[d])
      /\ call' = [d \in Calls |-> call'[d]]
  BY <1>1, EndsCall
<1>6. (call[c] = Idle)'
  BY <1>5 DEF Idle
<1>7. /\ store'.id # None => Exists(store.id)'
      /\ \A w \in Wf : rows[w] # None => rows'[w] # None
  BY <1>2 DEF Structure, Exists
<1> QED  BY <1>1, <1>2, <1>3, <1>4, <1>5, <1>6, <1>7, CourseKeepsStructure

LEMMA StructureNext == Structure /\ [Next]_vars => Structure'
<1> SUFFICES ASSUME Structure, [Next]_vars PROVE Structure'
  OBVIOUS
<1>1. CASE UNCHANGED vars
  BY <1>1 DEF vars, ui, counts, history, Structure, TypeOK, CallOK, Exists, GuardsOnce,
              LoadsFirst, OneCall, Busy, Own, InEditor, Idle
<1>2. CASE Next
  <2>1. HistoryOK'
    BY <1>2, HistoryTypes DEF Structure, TypeOK, HistoryOK
  <2>2. CASE User \/ Measured \/ RunEnds
    BY <2>1, <2>2, PageKeepsStructure, ClicksKeepStructure DEF User
  <2>3. CASE \E c \in Calls : Server(c) \/ Answer(c) \/ Fails(c)
    BY <2>1, <2>3, ServerKeepsStructure, AnswerKeepsStructure, FailureKeepsStructure
  <2> QED  BY <1>2, <2>2, <2>3 DEF Next
<1> QED  BY <1>1, <1>2

-----------------------------------------------------------------------------
(* What is kept until a call of an earlier page goes on: the page's steps. *)
LEMMA KeptInit == Init => Kept
<1> SUFFICES ASSUME Init PROVE Kept
  OBVIOUS
<1>1. Busy = {} /\ ~ InEditor /\ route = "list"
  BY DEF Init, Busy, InEditor
<1>2. \A c \in Calls : ~ Working(c)
  BY <1>1 DEF Working
<1>3. \A w \in Old : rows[w].content.doc = w
  BY IdsAssumption DEF Init, Content
<1>4. KeepsToDocument
  BY <1>1, <1>2, <1>3 DEF KeepsToDocument
<1>5. SavesWhatIsShown
  BY <1>1, <1>2 DEF SavesWhatIsShown, CleanMeansStored
<1>6. ShowsStatus
  BY <1>1, <1>2 DEF ShowsStatus
<1> QED  BY <1>4, <1>5, <1>6 DEF Kept

\* What the steps on an open page change.
LEMMA PageChanges ==
  ASSUME Structure,
         Edit \/ Import \/ Measured \/ Leave \/ DialogLeave \/ DialogCancel \/ RunEnds
  PROVE  /\ UNCHANGED <<rows, call, page, overlap, crossed, failures>>
         /\ store'.id = store.id /\ store'.status = store.status
         /\ store'.content.doc = store.content.doc
         /\ InEditor' => InEditor /\ route' = route
         /\ route' \in Wf => route' = route
         /\ raced => raced'
         /\ \/ UNCHANGED <<store, fresh, raced>>
            \/ UNCHANGED raced /\ store'.content = store.content /\ store'.dirty
            \/ (store'.dirty \/ fresh') /\ (raced' \/ \A c \in Busy : ~ Own(c))
<1> USE DEF ui, history, counts
<1>1. /\ store \in Store
      /\ DOMAIN store = {"id", "content", "status", "dirty"}
      /\ DOMAIN store.content = {"doc", "n"}
  BY DEF Structure, TypeOK, Store, Contents
<1>2. "list" \notin Wf
  BY IdsAssumption
<1>3. CASE Edit
  <2>1. store' = [store EXCEPT !.content.n = edits', !.dirty = TRUE]
    BY <1>3 DEF Edit
  <2>2. /\ store'.id = store.id /\ store'.status = store.status /\ store'.dirty
        /\ store'.content.doc = store.content.doc
    BY <1>1, <2>1
  <2> QED  BY <1>3, <2>2 DEF Edit, InEditor
<1>4. CASE Import
  <2>1. store' = [store EXCEPT !.content.n = edits', !.dirty = FALSE]
    BY <1>4 DEF Import
  <2>2. /\ store'.id = store.id /\ store'.status = store.status
        /\ store'.content.doc = store.content.doc
    BY <1>1, <2>1
  <2> QED  BY <1>4, <2>2 DEF Import, InEditor
<1>5. CASE Measured
  <2>1. /\ store'.id = store.id /\ store'.status = store.status /\ store'.dirty
        /\ store'.content = store.content
    BY <1>1, <1>5 DEF Measured
  <2> QED  BY <1>5, <2>1 DEF Measured, InEditor
<1>6. CASE Leave \/ DialogLeave \/ DialogCancel \/ RunEnds
  BY <1>2, <1>6 DEF Leave, DialogLeave, DialogCancel, RunEnds, InEditor
<1> QED  BY <1>3, <1>4, <1>5, <1>6

LEMMA PageKeeps ==
  ASSUME Structure, Kept,
         Edit \/ Import \/ Measured \/ Leave \/ DialogLeave \/ DialogCancel \/ RunEnds
  PROVE  Kept'
<1>1. /\ UNCHANGED <<rows, call, page, overlap, crossed, failures>>
      /\ store'.id = store.id /\ store'.status = store.status
      /\ store'.content.doc = store.content.doc
      /\ InEditor' => InEditor /\ route' = route
      /\ route' \in Wf => route' = route
      /\ raced => raced'
  BY PageChanges
<1>2. \/ UNCHANGED <<store, fresh, raced>>
      \/ UNCHANGED raced /\ store'.content = store.content /\ store'.dirty
      \/ (store'.dirty \/ fresh') /\ (raced' \/ \A c \in Busy : ~ Own(c))
  BY PageChanges
<1>3. Busy' = Busy /\ \A c \in Calls : /\ Own(c)' <=> Own(c)
                                       /\ Working(c)' <=> Working(c)
                                       /\ Stored(c)' <=> Stored(c)
  BY <1>1 DEF Busy, Own, Working, Idle, Stored
<1>4. KeepsToDocument'
  <2>1. KeepsToDocument
    BY DEF Kept
  <2>2. \A c \in Calls : (Working(c) =>
          /\ call[c].content.doc = store.content.doc
          /\ call[c].id # None => rows[call[c].id].content.doc = store.content.doc)'
    BY <1>1, <1>3, <2>1 DEF KeepsToDocument
  <2>3. /\ \A c \in Busy' : (Own(c) /\ route \in Wf => call[c].id = route)'
        /\ \A c \in Busy' : (Own(c) /\ call[c].op = "load" /\ call[c].at = "answered" =>
                              call[c].got = rows[call[c].id])'
    BY <1>1, <1>3, <2>1 DEF KeepsToDocument, Busy
  <2>4. /\ \A w \in Old : rows'[w].content.doc = w
        /\ (InEditor /\ store.id # None => store.content.doc = rows[store.id].content.doc)'
        /\ (InEditor /\ route \in Wf => store.id = route)'
    BY <1>1, <2>1 DEF KeepsToDocument
  <2> QED  BY <2>2, <2>3, <2>4 DEF KeepsToDocument
<1>5. SavesWhatIsShown'
  <2>1. \A c \in Calls : (Working(c) /\ ~ raced => call[c].content = store.content)'
    BY <1>1, <1>2, <1>3 DEF Kept, SavesWhatIsShown, Working
  <2>2. CleanMeansStored'
    BY <1>1, <1>2 DEF Kept, SavesWhatIsShown, CleanMeansStored, StoredContent
  <2> QED  BY <1>1, <1>3, <2>1, <2>2 DEF Kept, SavesWhatIsShown
<1>6. failures' = 0 /\ ~ overlap' => ShowsStatus'
  BY <1>1, <1>3 DEF Kept, ShowsStatus, Decides
<1> QED  BY <1>4, <1>5, <1>6 DEF Kept

\* A new page has no call, and shows a document that has no row.
LEMMA NewPageKeeps ==
  ASSUME Structure, Kept, OpenNew
  PROVE  Kept'
<1>1. /\ UNCHANGED <<rows, call>> /\ page' = page + 1 /\ store' = Blank(page')
      /\ route' = "new"
  BY DEF OpenNew
<1>2. \A c \in Calls : ~ (c \in Busy' /\ Own(c)') /\ ~ Working(c)'
  <2> SUFFICES ASSUME NEW c \in Busy' PROVE ~ Own(c)'
    BY DEF Working
  <2>1. call[c].page \in Nat /\ call[c].page <= page /\ page \in Nat
    BY <1>1 DEF Structure, CallOK, Busy, Call, TypeOK
  <2> QED  BY <1>1, <2>1 DEF Own
<1>3. store'.id = None /\ store'.content = Content(page', 0) /\ store'.content.doc = page'
  BY <1>1 DEF Blank, Content
<1>4. route' \notin Wf
  BY <1>1, IdsAssumption
<1>5. KeepsToDocument'
  BY <1>1, <1>2, <1>3, <1>4 DEF Kept, KeepsToDocument, Busy
<1>6. SavesWhatIsShown'
  BY <1>2, <1>3 DEF SavesWhatIsShown, CleanMeansStored, StoredContent
<1>7. ShowsStatus'
  BY <1>2, <1>3 DEF ShowsStatus
<1> QED  BY <1>5, <1>6, <1>7 DEF Kept

\* Opening a row starts a page whose only call is its load.
LEMMA LoadingPageKeeps ==
  ASSUME Structure, Structure', Kept, NEW w \in Wf, OpenRow(w)
  PROVE  Kept'
<1>1. UNCHANGED <<rows, store>> /\ page' = page + 1 /\ route' = w /\ loading' = "yes"
  BY DEF OpenRow
<1>2. PICK c \in Calls :
        /\ call'[c].op = "load" /\ call'[c].id = w /\ call'[c].page = page + 1
        /\ call'[c].at = "sent"
        /\ \A d \in Calls \ {c} : call'[d] = call[d]
  <2>1. "load" \in Ops /\ "get" \in Reqs /\ Begin("load", "get", w, page + 1)
        /\ page + 1 \in 0 .. MaxOpens
    BY <1>1 DEF OpenRow, Ops, Reqs, Structure, TypeOK
  <2> QED  BY <2>1, Begun
<1>3. \A d \in Calls : d \in Busy' /\ Own(d)' => d = c
  <2> SUFFICES ASSUME NEW d \in Calls, d \in Busy', d # c PROVE ~ Own(d)'
    OBVIOUS
  <2>1. call'[d] = call[d] /\ d \in Busy
    BY <1>2 DEF Busy, Idle
  <2>2. call[d].page \in Nat /\ call[d].page <= page /\ page \in Nat
    BY <2>1 DEF Structure, CallOK, Busy, Call, TypeOK
  <2> QED  BY <1>1, <2>1, <2>2 DEF Own
<1>4. ~ InEditor' /\ \A d \in Calls : ~ Working(d)'
  BY <1>1, <1>2, <1>3 DEF InEditor, Working
<1>5. KeepsToDocument'
  BY <1>1, <1>2, <1>3, <1>4 DEF Kept, KeepsToDocument, Busy
<1>6. SavesWhatIsShown' /\ ShowsStatus'
  BY <1>4 DEF SavesWhatIsShown, CleanMeansStored, ShowsStatus
<1> QED  BY <1>5, <1>6 DEF Kept

-----------------------------------------------------------------------------
(* What is kept: the buttons. *)
LEMMA BeginKeeps ==
  ASSUME Structure, Structure', Kept, ~ crossed, InEditor,
         UNCHANGED <<rows, store, fresh, route, page, loading, failures>>,
         NEW op \in Ops \ {"load"}, NEW req \in Reqs, Begin(op, req, store.id, page),
         raced => raced', op = "run" /\ fresh => raced',
         op = "run" /\ req \in {"activate", "start"} => store.id # None /\ ~ store.dirty
  PROVE  Kept'
<1>1. KeepsToDocument /\ SavesWhatIsShown /\ TypeOK
  BY DEF Kept, Structure
<1>2. store.id \in Wf \cup {None} /\ page \in 0 .. MaxOpens
  BY <1>1 DEF TypeOK, Store
<1>3. PICK c \in Calls :
        /\ call[c] = Idle /\ call'[c] \in Call
        /\ call'[c].op = op /\ call'[c].req = req /\ call'[c].id = store.id
        /\ call'[c].content = store.content /\ call'[c].page = page
        /\ call'[c].at = "sent"
        /\ \A d \in Calls \ {c} : call'[d] = call[d]
  BY <1>2, Begun
<1>4. overlap' = (overlap \/ \E d \in Busy : Own(d))
  BY <1>2, Begun
<1>5. InEditor'
  BY DEF InEditor
<1>6. c \notin Busy /\ \A d \in Calls \ {c} : /\ d \in Busy' <=> d \in Busy
                                              /\ Own(d)' <=> Own(d)
                                              /\ Working(d)' <=> Working(d)
                                              /\ Stored(d)' <=> Stored(d)
  BY <1>3 DEF Busy, Own, Working, Idle, Stored
<1>7. KeepsToDocument'
  <2>1. \A d \in Calls : (Working(d) =>
          /\ call[d].content.doc = store.content.doc
          /\ call[d].id # None => rows[call[d].id].content.doc = store.content.doc)'
    BY <1>1, <1>3, <1>6 DEF KeepsToDocument
  <2>2. /\ \A d \in Busy' : (Own(d) /\ route \in Wf => call[d].id = route)'
        /\ \A d \in Busy' : (Own(d) /\ call[d].op = "load" /\ call[d].at = "answered" =>
                              call[d].got = rows[call[d].id])'
    BY <1>1, <1>3, <1>6 DEF KeepsToDocument, Busy
  <2>3. /\ \A w \in Old : rows'[w].content.doc = w
        /\ (InEditor /\ store.id # None => store.content.doc = rows[store.id].content.doc)'
        /\ (InEditor /\ route \in Wf => store.id = route)'
    BY <1>1, <1>5 DEF KeepsToDocument
  <2> QED  BY <2>1, <2>2, <2>3 DEF KeepsToDocument
<1>8. SavesWhatIsShown'
  <2>1. \A d \in Calls : (Working(d) /\ ~ raced => call[d].content = store.content)'
    BY <1>1, <1>3, <1>6 DEF SavesWhatIsShown
  <2>2. \A d \in Calls :
          (Working(d) /\ call[d].req \in {"put", "post"} /\ call[d].at = "answered"
             /\ (~ raced \/ ~ overlap) => Stored(d))'
    BY <1>1, <1>3, <1>4, <1>6 DEF SavesWhatIsShown
  <2>3. \A d \in Calls :
          (Working(d) /\ call[d].op = "run" /\ call[d].req \in {"activate", "start"} /\ ~ raced
             => Stored(d))'
    <3> SUFFICES ASSUME NEW d \in Calls, Working(d)', call'[d].op = "run",
                        call'[d].req \in {"activate", "start"}, ~ raced'
                 PROVE  Stored(d)'
      OBVIOUS
    <3>1. CASE d = c
      <4>1. store.id # None /\ ~ store.dirty /\ ~ fresh /\ ~ raced
        BY <1>3, <3>1
      <4>2. store.content = rows[store.id].content
        BY <1>1, <4>1 DEF SavesWhatIsShown, Kept, CleanMeansStored, StoredContent, InEditor
      <4> QED  BY <1>3, <3>1, <4>1, <4>2 DEF Stored
    <3>2. CASE d # c
      BY <1>1, <1>3, <1>6, <3>2 DEF SavesWhatIsShown
    <3> QED  BY <3>1, <3>2
  <2>4. CleanMeansStored'
    BY <1>1, <1>5 DEF SavesWhatIsShown, CleanMeansStored, StoredContent
  <2> QED  BY <2>1, <2>2, <2>3, <2>4 DEF SavesWhatIsShown
<1>9. ASSUME failures' = 0, ~ overlap' PROVE ShowsStatus'
  <2>1. ShowsStatus /\ \A d \in Calls \ {c} : ~ Working(d)'
    BY <1>4, <1>6, <1>9 DEF Kept, Working, Busy
  <2>2. \A d \in Calls : ~ Working(d)
    BY <1>4, <1>9 DEF Working, Busy
  <2> QED  BY <1>3, <1>5, <2>1, <2>2 DEF ShowsStatus, Decides
<1> QED  BY <1>7, <1>8, <1>9 DEF Kept

LEMMA ClicksKeep ==
  ASSUME Structure, Structure', Kept, ~ crossed,
         DialogSave \/ Save \/ Run \/ Activate \/ Deactivate \/ Stop
  PROVE  Kept'
<1> USE DEF ui
<1>1. InEditor
  BY DEF Structure, GuardsOnce, DialogSave, Save, Run, Activate, Deactivate, Stop, Clickable
<1>2. /\ SaveRequest \in Reqs /\ FirstRequest \in Reqs
      /\ FirstRequest \notin {"post", "put"} => store.id # None /\ ~ store.dirty
  BY DEF SaveRequest, FirstRequest, Reqs
<1>3. UNCHANGED <<rows, store, fresh, route, page, loading, failures>> /\ (raced => raced')
  <2>1. UNCHANGED <<rows, store, fresh, route, page, loading, failures>>
    BY DEF DialogSave, Save, Run, Activate, Deactivate, Stop
  <2>2. raced => raced'
    BY Zenon DEF DialogSave, Save, Run, Activate, Deactivate, Stop
  <2> QED  BY <2>1, <2>2
<1>4. CASE Run
  <2>1. Begin("run", FirstRequest, store.id, page) /\ (fresh => raced')
    BY <1>4 DEF Run
  <2>2. "run" \in Ops \ {"load"}
    BY DEF Ops
  <2> QED  BY <1>1, <1>2, <1>3, <2>1, <2>2, BeginKeeps
<1>5. CASE DialogSave \/ Save \/ Activate \/ Deactivate \/ Stop
  <2>1. PICK op \in Ops \ {"load", "run"}, req \in Reqs : Begin(op, req, store.id, page)
    <3>1. {"leave", "save", "activate", "deactivate", "stop"} \subseteq Ops \ {"load", "run"}
      BY DEF Ops
    <3>2. "deactivate" \in Reqs /\ "cancel" \in Reqs
      BY DEF Reqs
    <3> QED  BY <1>2, <1>5, <3>1, <3>2 DEF DialogSave, Save, Activate, Deactivate, Stop
  <2> QED  BY <1>1, <1>3, <2>1, BeginKeeps
<1> QED  BY <1>4, <1>5

-----------------------------------------------------------------------------
(* What is kept: the server. *)
\* The call of a request that the server has handled.
LEMMA ServerAnswers ==
  ASSUME Structure, NEW c \in Calls, Server(c)
  PROVE  /\ c \in Busy /\ call[c].at = "sent" /\ call'[c] \in Call /\ call'[c].at = "answered"
         /\ call'[c].op = call[c].op /\ call'[c].req = call[c].req
         /\ call'[c].page = call[c].page /\ call'[c].content = call[c].content
         /\ call[c].req # "post" => call'[c].id = call[c].id
         /\ call[c].req = "get" => call'[c].got = rows[call[c].id]
         /\ call[c].req = "put" => call'[c].got = rows[call[c].id].status
         /\ call[c].req = "post" => call'[c].got = "draft"
         /\ call[c].req = "activate" => call'[c].got = "active"
         /\ call[c].req = "deactivate" => call'[c].got = "inactive"
         /\ \A d \in Calls \ {c} : call'[d] = call[d]
<1>1. call[c] # Idle /\ c \in Busy /\ CallOK(c) /\ TypeOK /\ call[c].at = "sent"
  BY BusyCall DEF Server, Get, Put, Post, SetActive, SetInactive, Execution, Sent, Structure
<1>2. ASSUME NEW got \in Row \cup Statuses \cup {None}, Answered(c, got),
             call[c].req # "post",
             call[c].req = "get" => got = rows[call[c].id],
             call[c].req = "put" => got = rows[call[c].id].status,
             call[c].req = "activate" => got = "active",
             call[c].req = "deactivate" => got = "inactive"
      PROVE  /\ call'[c] \in Call /\ call'[c].at = "answered"
             /\ call'[c].op = call[c].op /\ call'[c].req = call[c].req
             /\ call'[c].page = call[c].page /\ call'[c].content = call[c].content
             /\ call'[c].id = call[c].id
             /\ call[c].req = "get" => call'[c].got = rows[call[c].id]
             /\ call[c].req = "put" => call'[c].got = rows[call[c].id].status
             /\ call[c].req = "activate" => call'[c].got = "active"
             /\ call[c].req = "deactivate" => call'[c].got = "inactive"
             /\ \A d \in Calls \ {c} : call'[d] = call[d]
  BY <1>1, <1>2, AnswersCall
<1>3. CASE Get(c)
  <2>1. call[c].req = "get" /\ rows[call[c].id] \in Row
    BY <1>1, <1>3 DEF Get, Sent, CallOK, Exists, TypeOK
  <2> QED  BY <1>1, <1>2, <1>3, <2>1 DEF Get
<1>4. CASE Put(c)
  <2>1. call[c].req = "put" /\ rows[call[c].id].status \in Statuses
    BY <1>1, <1>4 DEF Put, Sent, CallOK, Exists, TypeOK, Row
  <2> QED  BY <1>1, <1>2, <1>4, <2>1 DEF Put
<1>5. CASE Post(c)
  <2>1. PICK w \in Wf :
          call' = [call EXCEPT ![c].at = "answered", ![c].id = w, ![c].got = "draft"]
    BY <1>5 DEF Post
  <2>2. call[c].req = "post"
    BY <1>5 DEF Post, Sent
  <2> QED  BY <1>1, <2>1, <2>2, InsertsCall
<1>6. CASE SetActive(c)
  BY <1>1, <1>2, <1>6 DEF SetActive, Sent, Statuses
<1>7. CASE SetInactive(c)
  BY <1>1, <1>2, <1>7 DEF SetInactive, Sent, Statuses
<1>8. CASE Execution(c)
  BY <1>1, <1>2, <1>8 DEF Execution, Sent
<1> QED  BY <1>3, <1>4, <1>5, <1>6, <1>7, <1>8 DEF Server

\* What a request writes: its own row, one column of it, or a row of its own.
LEMMA ServerWrites ==
  ASSUME Structure, NEW c \in Calls, Server(c)
  PROVE  /\ \A w \in Wf : rows[w] # None =>
              /\ rows'[w].status = IF w = call[c].id /\ call[c].req = "activate" THEN "active"
                                   ELSE IF w = call[c].id /\ call[c].req = "deactivate"
                                        THEN "inactive" ELSE rows[w].status
              /\ rows'[w].content = IF w = call[c].id /\ call[c].req = "put"
                                    THEN call[c].content ELSE rows[w].content
              /\ call[c].req \in {"get", "post", "start", "cancel"} => rows'[w] = rows[w]
         /\ call[c].req = "post" =>
              rows'[call'[c].id] = [content |-> call[c].content, status |-> "draft"]
<1>1. call[c] # Idle /\ CallOK(c) /\ TypeOK
  BY BusyCall DEF Server, Get, Put, Post, SetActive, SetInactive, Execution, Sent, Structure
<1>2. \A w \in Wf : rows[w] # None =>
        rows[w] \in Row /\ DOMAIN rows[w] = {"content", "status"}
  BY <1>1 DEF TypeOK, Row
<1>3. DOMAIN rows = Wf
  BY <1>1 DEF TypeOK
<1>4. CASE Put(c)
  <2>1. call[c].req = "put" /\ rows' = [rows EXCEPT ![call[c].id].content = call[c].content]
    BY <1>4 DEF Put, Sent
  <2> QED  BY <1>2, <1>3, <2>1
<1>5. CASE SetActive(c)
  <2>1. call[c].req = "activate" /\ rows' = [rows EXCEPT ![call[c].id].status = "active"]
    BY <1>5 DEF SetActive, Sent
  <2> QED  BY <1>2, <1>3, <2>1
<1>6. CASE SetInactive(c)
  <2>1. call[c].req = "deactivate" /\ rows' = [rows EXCEPT ![call[c].id].status = "inactive"]
    BY <1>6 DEF SetInactive, Sent
  <2> QED  BY <1>2, <1>3, <2>1
<1>7. CASE Post(c)
  <2>1. PICK w \in Wf :
          /\ rows[w] = None
          /\ rows' = [rows EXCEPT ![w] = [content |-> call[c].content, status |-> "draft"]]
          /\ call' = [call EXCEPT ![c].at = "answered", ![c].id = w, ![c].got = "draft"]
    BY <1>7 DEF Post
  <2>2. call'[c].id = w /\ call[c].req = "post"
    BY <1>1, <1>7, <2>1, InsertsCall DEF Post, Sent
  <2> QED  BY <1>3, <2>1, <2>2
<1>8. CASE Get(c) \/ Execution(c)
  <2>1. call[c].req \in {"get", "start", "cancel"} /\ rows' = rows
    BY <1>8 DEF Get, Execution, Sent
  <2> QED  BY <2>1
<1> QED  BY <1>4, <1>5, <1>6, <1>7, <1>8 DEF Server

\* A request that writes for an earlier page crosses; reading and inserting do not.
LEMMA ServerCrosses ==
  ASSUME NEW c \in Calls, Server(c), ~ crossed'
  PROVE  /\ ~ crossed /\ (Own(c) \/ call[c].req \in {"get", "post"})
         /\ UNCHANGED <<store, fresh, route, page, loading, failures, raced, overlap>>
<1> USE DEF ui, counts, history
<1>1. CASE Get(c) \/ Post(c)
  <2>1. call[c].req \in {"get", "post"}
    BY <1>1 DEF Get, Post, Sent
  <2>2. crossed' = crossed
    BY <1>1 DEF Get, Post
  <2>3. ~ crossed
    BY <2>2, Zenon
  <2> QED  BY <1>1, <2>1, <2>3 DEF Get, Post
<1>2. CASE Put(c) \/ SetActive(c) \/ SetInactive(c) \/ Execution(c)
  <2>1. Stale(c)
    BY <1>2 DEF Put, SetActive, SetInactive, Execution
  <2>2. ~ crossed /\ Own(c)
    BY <2>1, Zenon DEF Stale
  <2> QED  BY <1>2, <2>2 DEF Put, SetActive, SetInactive, Execution
<1> QED  BY <1>1, <1>2 DEF Server

LEMMA ServerKeeps ==
  ASSUME Structure, Structure', Kept, NEW c \in Calls, Server(c), ~ crossed'
  PROVE  Kept'
<1>1. /\ ~ crossed /\ (Own(c) \/ call[c].req \in {"get", "post"})
      /\ UNCHANGED <<store, fresh, route, page, loading, failures, raced, overlap>>
  BY ServerCrosses
<1>2. /\ c \in Busy /\ call[c].at = "sent" /\ call'[c] \in Call /\ call'[c].at = "answered"
      /\ call'[c].op = call[c].op /\ call'[c].req = call[c].req
      /\ call'[c].page = call[c].page /\ call'[c].content = call[c].content
      /\ call[c].req # "post" => call'[c].id = call[c].id
      /\ \A d \in Calls \ {c} : call'[d] = call[d]
  BY ServerAnswers
<1>3. /\ call[c].req = "get" => call'[c].got = rows[call[c].id]
      /\ call[c].req = "put" => call'[c].got = rows[call[c].id].status
      /\ call[c].req = "post" => call'[c].got = "draft"
      /\ call[c].req = "activate" => call'[c].got = "active"
      /\ call[c].req = "deactivate" => call'[c].got = "inactive"
  BY ServerAnswers
<1>4. \A w \in Wf : rows[w] # None =>
        /\ rows'[w].status = IF w = call[c].id /\ call[c].req = "activate" THEN "active"
                             ELSE IF w = call[c].id /\ call[c].req = "deactivate"
                                  THEN "inactive" ELSE rows[w].status
        /\ rows'[w].content = IF w = call[c].id /\ call[c].req = "put"
                              THEN call[c].content ELSE rows[w].content
        /\ call[c].req \in {"get", "post", "start", "cancel"} => rows'[w] = rows[w]
  BY ServerWrites
<1>5. call[c].req = "post" =>
        rows'[call'[c].id] = [content |-> call[c].content, status |-> "draft"]
  BY ServerWrites
<1>6. KeepsToDocument /\ SavesWhatIsShown /\ LoadsFirst /\ OneCall
  BY DEF Kept, Structure
<1>7. \A d \in Calls : /\ d \in Busy' <=> d \in Busy
                       /\ Own(d)' <=> Own(d)
                       /\ Working(d)' <=> Working(d)
  BY <1>1, <1>2, CallsAreNotIdle DEF Busy, Own, Working, Idle
<1>8. \A d \in Busy : /\ call[d].id \in Wf \cup {None}
                      /\ call[d].id # None => rows[call[d].id] # None
                      /\ call[d].req = "get" => call[d].id # None
                      /\ call[d].op = "load" => call[d].req = "get"
                      /\ call[d].req = "post" /\ call[d].at = "sent" => call[d].id = None
                      /\ call[d].req \notin {"post", "cancel"} => call[d].id # None
  <2> SUFFICES ASSUME NEW d \in Busy
               PROVE  /\ call[d].id \in Wf \cup {None}
                      /\ call[d].id # None => rows[call[d].id] # None
                      /\ call[d].req = "get" => call[d].id # None
                      /\ call[d].op = "load" => call[d].req = "get"
                      /\ call[d].req = "post" /\ call[d].at = "sent" => call[d].id = None
                      /\ call[d].req \notin {"post", "cancel"} => call[d].id # None
    OBVIOUS
  <2>1. CallOK(d) /\ call[d] \in Call
    BY BusyCall DEF Busy
  <2>2. call[d].id \in Wf \cup {None} /\ call[d].op \in Ops
    BY <2>1 DEF Call
  <2>3. call[d].op = "load" => call[d].req = "get"
    BY <2>1 DEF CallOK, RequestsOf
  <2> QED  BY <2>1, <2>2, <2>3, NoneAssumption DEF CallOK, Exists
<1>9. store.id \in Wf \cup {None} /\ (store.id # None => rows[store.id] # None)
  BY DEF Structure, TypeOK, Store, Exists
<1>10. call[c].req # "get" /\ Own(c) => Working(c)
  <2>1. call[c].op = "load" => call[c].req = "get"
    BY <1>2, <1>8
  <2> QED  BY <1>2, <2>1 DEF Working
<1>11. \A w \in Wf : rows[w] # None => rows'[w].content.doc = rows[w].content.doc
  <2> SUFFICES ASSUME NEW w \in Wf, rows[w] # None, w = call[c].id, call[c].req = "put"
               PROVE  call[c].content.doc = rows[w].content.doc
    BY <1>4
  <2>1. Working(c) /\ call[c].id # None
    BY <1>1, <1>2, <1>8, <1>10
  <2> QED  BY <1>6, <2>1 DEF KeepsToDocument
<1>12. KeepsToDocument'
  <2>1. \A w \in Old : rows'[w].content.doc = w
    BY <1>6, <1>11, IdsAssumption, NoneAssumption DEF KeepsToDocument, Structure, Exists
  <2>2. /\ (InEditor /\ store.id # None => store.content.doc = rows[store.id].content.doc)'
        /\ (InEditor /\ route \in Wf => store.id = route)'
    BY <1>1, <1>6, <1>9, <1>11 DEF KeepsToDocument, InEditor
  <2>3. ASSUME NEW d \in Calls, Working(d)'
        PROVE  /\ call'[d].content.doc = store'.content.doc
               /\ call'[d].id # None => rows'[call'[d].id].content.doc = store'.content.doc
    <3>1. Working(d) /\ d \in Busy
      BY <1>7, <2>3 DEF Working
    <3>2. /\ call[d].content.doc = store.content.doc
          /\ call[d].id # None => rows[call[d].id].content.doc = store.content.doc
      BY <1>6, <3>1 DEF KeepsToDocument
    <3>3. CASE d = c /\ call[c].req = "post"
      <4>1. rows'[call'[d].id].content = call[c].content
        BY <1>5, <3>3
      <4> QED  BY <1>1, <1>2, <3>2, <3>3, <4>1
    <3>4. CASE d # c \/ call[c].req # "post"
      <4>1. call'[d].id = call[d].id /\ call'[d].content = call[d].content
        BY <1>2, <3>4
      <4> QED  BY <1>1, <1>8, <1>11, <3>1, <3>2, <4>1
    <3> QED  BY <3>3, <3>4
  <2>4. ASSUME NEW d \in Busy', Own(d)', route' \in Wf
        PROVE  call'[d].id = route'
    <3>1. d \in Busy /\ Own(d)
      BY <1>7, <2>4 DEF Busy
    <3>2. call[d].id = route /\ call[d].id # None
      BY <1>1, <1>6, <2>4, <3>1, NoneAssumption DEF KeepsToDocument
    <3>3. d = c => call[c].req # "post"
      BY <1>2, <1>8, <3>2
    <3>4. d \in Calls
      BY <3>1 DEF Busy
    <3>5. call'[d].id = call[d].id
      BY <1>2, <3>3, <3>4
    <3> QED  BY <1>1, <3>2, <3>5
  <2>5. ASSUME NEW d \in Busy', Own(d)', call'[d].op = "load", call'[d].at = "answered"
        PROVE  call'[d].got = rows'[call'[d].id]
    <3>1. d \in Busy /\ Own(d) /\ call[d].op = "load" /\ d \in Calls
      BY <1>2, <1>7, <2>5 DEF Busy
    <3>2. call[d].req = "get" /\ call[d].id # None /\ rows[call[d].id] # None
          /\ call[d].id \in Wf
      BY <1>8, <3>1
    <3>3. CASE d = c
      BY <1>2, <1>3, <1>4, <3>2, <3>3
    <3>4. CASE d # c
      <4>1. ~ Own(c)
        BY <1>2, <1>6, <3>1, <3>4 DEF LoadsFirst
      <4>2. rows'[call[d].id] = rows[call[d].id]
        BY <1>1, <1>4, <3>2, <4>1
      <4> QED  BY <1>2, <1>6, <2>5, <3>1, <3>4, <4>2 DEF KeepsToDocument
    <3> QED  BY <3>3, <3>4
  <2> QED  BY <2>1, <2>2, <2>3, <2>4, <2>5 DEF KeepsToDocument
<1>13. ASSUME NEW d \in Calls \ {c}, Working(d), Stored(d),
              Working(c) => d = c \/ call[c].content = call[d].content
       PROVE  Stored(d)'
  <2>1. call[d].id \in Wf /\ rows[call[d].id] # None /\ call'[d] = call[d]
    BY <1>2, <1>8, <1>13 DEF Stored, Working
  <2>2. call[c].req = "put" => Working(c)
    BY <1>1, <1>10
  <2> QED  BY <1>4, <1>13, <2>1, <2>2 DEF Stored
<1>14. Working(c) /\ call[c].req \in {"put", "post"} => Stored(c)'
  <2>1. CASE call[c].req = "post"
    <3>1. (CallOK(c) \/ call[c] = Idle)' /\ call'[c] # Idle
      BY <1>2, CallsAreNotIdle DEF Structure
    <3>2. call'[c].id # None
      BY <1>2, <2>1, <3>1, NoneAssumption DEF CallOK, Exists, Idle
    <3> QED  BY <1>2, <1>5, <2>1, <3>2 DEF Stored
  <2>2. CASE call[c].req = "put"
    <3>1. call[c].id \in Wf /\ rows[call[c].id] # None /\ call[c].id # None
      BY <1>2, <1>8, <2>2
    <3> QED  BY <1>2, <1>4, <2>2, <3>1 DEF Stored
  <2> QED  BY <2>1, <2>2
<1>15. SavesWhatIsShown'
  <2>1. \A d \in Calls : (Working(d) /\ ~ raced => call[d].content = store.content)'
    BY <1>1, <1>2, <1>6, <1>7 DEF SavesWhatIsShown
  <2>2. ASSUME NEW d \in Calls, Working(d)', call'[d].req \in {"put", "post"},
               call'[d].at = "answered", ~ raced' \/ ~ overlap'
        PROVE  Stored(d)'
    <3>1. CASE d = c
      BY <1>2, <1>7, <1>14, <2>2, <3>1
    <3>2. CASE d # c
      <4>1. Working(d) /\ Stored(d)
        BY <1>1, <1>2, <1>6, <1>7, <2>2, <3>2 DEF SavesWhatIsShown
      <4>2. Working(c) => call[c].content = call[d].content
        BY <1>1, <1>6, <2>2, <3>2, <4>1 DEF SavesWhatIsShown, OneCall, Working
      <4> QED  BY <1>13, <3>2, <4>1, <4>2
    <3> QED  BY <3>1, <3>2
  <2>3. ASSUME NEW d \in Calls, Working(d)', call'[d].op = "run",
               call'[d].req \in {"activate", "start"}, ~ raced'
        PROVE  Stored(d)'
    <3>1. Working(d) /\ call[d].op = "run" /\ call[d].req \in {"activate", "start"}
          /\ Stored(d) /\ d \in Busy
      BY <1>1, <1>2, <1>6, <1>7, <2>3 DEF SavesWhatIsShown, Working
    <3>2. CASE d = c
      <4>1. call[c].id \in Wf /\ rows[call[c].id] # None /\ call'[c].id = call[c].id
        BY <1>2, <1>8, <3>1, <3>2
      <4> QED  BY <1>2, <1>4, <3>1, <3>2, <4>1 DEF Stored
    <3>3. CASE d # c
      <4>1. Working(c) => call[c].content = call[d].content
        BY <1>1, <1>6, <2>3, <3>1 DEF SavesWhatIsShown
      <4> QED  BY <1>13, <3>1, <3>3, <4>1
    <3> QED  BY <3>2, <3>3
  <2>4. ASSUME (InEditor /\ ~ store.dirty /\ ~ fresh /\ ~ raced)'
        PROVE  store'.content = StoredContent'
    <3>1. store.content = StoredContent
      BY <1>1, <1>6, <2>4 DEF SavesWhatIsShown, CleanMeansStored, InEditor
    <3>2. CASE store.id = None
      BY <1>1, <3>1, <3>2 DEF StoredContent
    <3>3. CASE store.id # None
      <4>1. store.id \in Wf /\ rows[store.id] # None
        BY <1>9, <3>3
      <4>2. call[c].req = "put" => call[c].content = store.content
        BY <1>1, <1>6, <1>10, <2>4 DEF SavesWhatIsShown
      <4>3. rows'[store.id].content = store.content
        BY <1>4, <3>1, <3>3, <4>1, <4>2 DEF StoredContent
      <4> QED  BY <1>1, <3>3, <4>3 DEF StoredContent
    <3> QED  BY <3>2, <3>3
  <2> QED  BY <2>1, <2>2, <2>3, <2>4 DEF SavesWhatIsShown, CleanMeansStored
<1>16. ASSUME failures' = 0, ~ overlap' PROVE ShowsStatus'
  <2>1. ShowsStatus
    BY <1>1, <1>16 DEF Kept
  <2>2. ASSUME NEW d \in Calls \ {c}, Working(d)
        PROVE  ~ Own(c)
    BY <1>1, <1>2, <1>6, <1>16, <2>2 DEF OneCall, Working
  <2>3. ASSUME NEW d \in Calls, Working(d)'
        PROVE  \/ call'[d].id = store'.id
               \/ call'[d].req = "post" /\ call'[d].at = "answered" /\ store'.id = None
    <3>1. Working(d) /\ d \in Busy
      BY <1>7, <2>3 DEF Working
    <3>2. CASE d = c /\ call[c].req = "post"
      <4>1. call[c].id = store.id /\ call[c].id = None
        BY <1>2, <1>8, <2>1, <3>1, <3>2 DEF ShowsStatus
      <4> QED  BY <1>1, <1>2, <3>2, <4>1
    <3>3. CASE d # c \/ call[c].req # "post"
      BY <1>1, <1>2, <2>1, <3>1, <3>3 DEF ShowsStatus
    <3> QED  BY <3>2, <3>3
  <2>4. ASSUME NEW d \in Calls, Working(d)', call'[d].at = "answered",
               call'[d].req \notin {"start", "cancel"}
        PROVE  call'[d].got = rows'[call'[d].id].status
    <3>1. Working(d) /\ d \in Busy /\ call[d].op # "load"
      BY <1>7, <2>4 DEF Working
    <3>2. CASE d = c /\ call[c].req = "post"
      BY <1>3, <1>5, <3>2
    <3>3. CASE d = c /\ call[c].req # "post"
      <4>1. call[c].req # "get" /\ call[c].id \in Wf /\ rows[call[c].id] # None
            /\ call'[c].id = call[c].id /\ call'[c].req = call[c].req
        <5>1. call[c].req = "get" => call[c].op = "load"
          BY <1>2, RequestsButton DEF Busy
        <5> QED  BY <1>2, <1>8, <2>4, <3>1, <3>3, <5>1
      <4>2. call[c].req \in {"put", "activate", "deactivate"}
        <5>1. call[c].req \in Reqs
          BY <1>2, BusyCall DEF Busy, Call
        <5> QED  BY <1>2, <2>4, <3>3, <4>1, <5>1 DEF Reqs
      <4> QED  BY <1>3, <1>4, <3>3, <4>1, <4>2
    <3>4. CASE d # c
      <4>1. call'[d] = call[d] /\ call[d].got = rows[call[d].id].status
        BY <1>2, <2>1, <2>4, <3>1, <3>4 DEF ShowsStatus
      <4>2. call[d].id \in Wf /\ rows[call[d].id] # None
        <5>1. CallOK(d) /\ call[d].req \notin {"start", "cancel"}
          BY <1>2, <2>4, <3>1, <3>4, BusyCall DEF Busy
        <5> QED  BY <1>2, <2>4, <3>4, <4>1, <5>1 DEF CallOK, Exists
      <4>3. rows'[call[d].id] = rows[call[d].id]
        BY <1>1, <1>4, <2>2, <3>1, <3>4, <4>2
      <4> QED  BY <4>1, <4>3
    <3> QED  BY <3>2, <3>3, <3>4
  <2>5. ASSUME InEditor', store'.id # None, \A d \in Calls : Working(d)' => ~ Decides(d)'
        PROVE  store'.status = "active" <=> rows'[store'.id].status = "active"
    <3>1. InEditor /\ store.id \in Wf /\ rows[store.id] # None
      BY <1>1, <1>9, <2>5 DEF InEditor
    <3>2. call[c].req \notin {"activate", "deactivate"}
      <4>1. call[c].req \in {"activate", "deactivate"} => Working(c) /\ Decides(c)'
        BY <1>1, <1>2, <1>10 DEF Decides
      <4> QED  BY <1>7, <2>5, <4>1
    <3>3. \A d \in Calls : Working(d) => ~ Decides(d)
      BY <1>2, <1>7, <2>5, <3>2 DEF Decides
    <3>4. rows'[store.id].status = rows[store.id].status
      BY <1>4, <3>1, <3>2
    <3> QED  BY <1>1, <2>1, <2>5, <3>1, <3>3, <3>4 DEF ShowsStatus
  <2> QED  BY <2>3, <2>4, <2>5 DEF ShowsStatus
<1> QED  BY <1>12, <1>15, <1>16 DEF Kept

-----------------------------------------------------------------------------
(* What is kept: the answers. *)
\* The load of a page is its only call: what it shows is the row.
LEMMA LoadedKeeps ==
  ASSUME Structure, Structure', Kept, NEW c \in Calls, Loaded(c), ~ crossed'
  PROVE  Kept'
<1>1. KeepsToDocument /\ LoadsFirst /\ TypeOK
  BY DEF Kept, Structure
<1>2. /\ c \in Busy /\ call[c].at = "answered" /\ call[c].req = "get" /\ call[c].op = "load"
      /\ Exists(call[c].id)
  BY RequestsButton, BusyCall DEF Loaded, Ready, CallOK, Busy
<1>3. Own(c)
  <2>1. Stale(c)
    BY DEF Loaded
  <2> QED  BY <2>1, Zenon DEF Stale
<1>4. /\ UNCHANGED <<rows, page, route>> /\ fresh'
      /\ store'.id = call[c].id /\ store'.content = call[c].got.content
      /\ store'.status = call[c].got.status
  BY DEF Loaded
<1>5. call'[c] = Idle /\ \A d \in Calls \ {c} : call'[d] = call[d]
  BY EndsCall DEF Loaded
<1>6. call[c].got = rows[call[c].id]
  BY <1>1, <1>2, <1>3 DEF KeepsToDocument
<1>7. \A d \in Busy' : ~ Own(d)'
  BY <1>1, <1>2, <1>3, <1>4, <1>5 DEF LoadsFirst, Busy, Own, Idle
<1>8. \A d \in Calls : ~ Working(d)'
  BY <1>7 DEF Working
<1>9. route \in Wf => call[c].id = route
  BY <1>1, <1>2, <1>3 DEF KeepsToDocument
<1>10. KeepsToDocument'
  BY <1>1, <1>4, <1>6, <1>7, <1>8, <1>9 DEF KeepsToDocument
<1>11. SavesWhatIsShown'
  BY <1>4, <1>8 DEF SavesWhatIsShown, CleanMeansStored
<1>12. ShowsStatus'
  BY <1>4, <1>6, <1>8 DEF ShowsStatus
<1> QED  BY <1>10, <1>11, <1>12 DEF Kept

\* The call of an answer ends, or goes on as its button does.
LEMMA AnswerGoes ==
  ASSUME Structure, NEW c \in Calls, Saved(c) \/ StatusSet(c) \/ Started(c) \/ Cancelled(c)
  PROVE  /\ c \in Busy /\ call[c].at = "answered"
         /\ \A d \in Calls \ {c} : call'[d] = call[d]
         /\ \/ call'[c] = Idle
            \/ /\ call'[c].op = call[c].op /\ call'[c].id = call[c].id
               /\ call'[c].content = call[c].content /\ call'[c].page = call[c].page
               /\ call'[c].at = "sent"
               /\ \/ call'[c].req = "activate" /\ Saved(c)
                  \/ call'[c].req = "start" /\ StatusSet(c) /\ call[c].op = "run"
                  \/ call'[c].req = "deactivate" /\ Cancelled(c)
<1>1. call[c] # Idle /\ c \in Busy /\ call[c].at = "answered"
  BY DEF Saved, StatusSet, Started, Cancelled, Ready, Busy
<1>2. CASE Ends(c)
  BY <1>1, <1>2, EndsCall
<1>3. CASE Saved(c) /\ Goes(c, "activate")
  <2>1. "activate" \in Reqs
    BY DEF Reqs
  <2> QED  BY <1>1, <1>3, <2>1, GoesOn
<1>4. CASE StatusSet(c) /\ call[c].op = "run" /\ Goes(c, "start")
  <2>1. "start" \in Reqs
    BY DEF Reqs
  <2> QED  BY <1>1, <1>4, <2>1, GoesOn
<1>5. CASE Cancelled(c) /\ ~ Ends(c)
  <2>1. PICK status \in Statuses :
          call' = [call EXCEPT ![c].req = "deactivate", ![c].at = "sent", ![c].ref = status]
    <3>1. prior \in Statuses \cup {None} /\ call[c].ref \in Statuses \cup {None}
      BY <1>1, BusyCall DEF Structure, TypeOK, Call
    <3> QED  BY <1>5, <3>1 DEF Cancelled, Restores
  <2> QED  BY <1>1, <1>5, <2>1, RestoresCall
<1> QED  BY <1>2, <1>3, <1>4, <1>5 DEF Saved, StatusSet, Started

\* What an answer changes of the page.
LEMMA AnswerChanges ==
  ASSUME Structure, NEW c \in Calls, ~ crossed',
         Saved(c) \/ StatusSet(c) \/ Started(c) \/ Cancelled(c)
  PROVE  /\ ~ crossed /\ Own(c) /\ UNCHANGED <<rows, page, failures, fresh, loading, overlap>>
         /\ store'.content = store.content
         /\ InEditor' => InEditor /\ route' = route
         /\ route' \in Wf => route' = route
         /\ ~ Saved(c) => UNCHANGED raced /\ store'.id = store.id /\ store'.dirty = store.dirty
         /\ Started(c) \/ Cancelled(c) => store' = store
         /\ Saved(c) => store'.id = call[c].id
         /\ raced' => raced
         /\ ~ raced' => ~ raced \/ (~ overlap /\ call[c].content = store.content)
<1> USE DEF ui, counts
<1>1. Stale(c)
  BY DEF Saved, StatusSet, Started, Cancelled
<1>2. ~ crossed /\ Own(c)
  BY <1>1, Zenon DEF Stale
<1>3. store \in Store /\ "list" \notin Wf
  BY IdsAssumption DEF Structure, TypeOK
<1>4. UNCHANGED <<rows, page, failures, fresh, loading, overlap>>
  BY DEF Saved, StatusSet, Started, Cancelled
<1>5. CASE Saved(c)
  <2>1. route' \in {route, "list"}
    BY <1>5 DEF Saved
  <2>2. store'.id = call[c].id /\ store'.content = store.content
    BY <1>3, <1>5 DEF Saved, MarkSaved, Store
  <2>3. /\ raced' => raced
        /\ ~ raced' => ~ raced \/ (~ overlap /\ call[c].content = store.content)
    <3>1. raced' = (raced /\ (overlap \/ call[c].content # store.content))
      BY <1>5 DEF Saved
    <3> QED  BY <3>1, Zenon
  <2>4. ~ Started(c) /\ ~ Cancelled(c)
    BY <1>5 DEF Saved, Started, Cancelled, Ready
  <2> QED  BY <1>2, <1>3, <1>4, <1>5, <2>1, <2>2, <2>3, <2>4 DEF InEditor
<1>6. CASE StatusSet(c)
  <2>1. store'.id = store.id /\ store'.content = store.content /\ store'.dirty = store.dirty
    BY <1>3, <1>6 DEF StatusSet, Store
  <2>2. ~ Started(c) /\ ~ Cancelled(c) /\ ~ Saved(c)
    BY <1>6 DEF Saved, Started, Cancelled, StatusSet, Ready
  <2>3. UNCHANGED <<route, raced>>
    BY <1>6 DEF StatusSet
  <2> QED  BY <1>2, <1>4, <2>1, <2>2, <2>3 DEF InEditor
<1>7. CASE Started(c) \/ Cancelled(c)
  <2>1. ~ Saved(c)
    BY <1>7 DEF Saved, Started, Cancelled, Ready
  <2>2. UNCHANGED <<store, route, raced>>
    BY <1>7 DEF Started, Cancelled
  <2> QED  BY <1>2, <1>4, <2>1, <2>2 DEF InEditor
<1> QED  BY <1>5, <1>6, <1>7

LEMMA AnswerKeeps ==
  ASSUME Structure, Structure', Kept, NEW c \in Calls, ~ crossed',
         Saved(c) \/ StatusSet(c) \/ Started(c) \/ Cancelled(c)
  PROVE  Kept'
<1>1. /\ c \in Busy /\ call[c].at = "answered"
      /\ \A d \in Calls \ {c} : call'[d] = call[d]
      /\ \/ call'[c] = Idle
         \/ /\ call'[c].op = call[c].op /\ call'[c].id = call[c].id
            /\ call'[c].content = call[c].content /\ call'[c].page = call[c].page
            /\ call'[c].at = "sent"
            /\ \/ call'[c].req = "activate" /\ Saved(c)
               \/ call'[c].req = "start" /\ StatusSet(c) /\ call[c].op = "run"
               \/ call'[c].req = "deactivate" /\ Cancelled(c)
  BY AnswerGoes
<1>2. /\ ~ crossed /\ Own(c) /\ UNCHANGED <<rows, page, failures, fresh, loading, overlap>>
      /\ store'.content = store.content
      /\ InEditor' => InEditor /\ route' = route
      /\ route' \in Wf => route' = route
      /\ ~ Saved(c) => UNCHANGED raced /\ store'.id = store.id /\ store'.dirty = store.dirty
      /\ Started(c) \/ Cancelled(c) => store' = store
      /\ Saved(c) => store'.id = call[c].id
      /\ raced' => raced
      /\ ~ raced' => ~ raced \/ (~ overlap /\ call[c].content = store.content)
  BY AnswerChanges
<1>3. KeepsToDocument /\ SavesWhatIsShown /\ OneCall
  BY DEF Kept, Structure
<1>4. CallOK(c) /\ call[c].req # "get" /\ call[c].op # "load" /\ Working(c)
  <2>1. CallOK(c) /\ call[c].req # "get"
    BY <1>1, BusyCall DEF Busy, Saved, StatusSet, Started, Cancelled, Ready
  <2>2. call[c].op # "load"
    BY <2>1 DEF CallOK, RequestsOf
  <2> QED  BY <1>1, <1>2, <2>1, <2>2 DEF Working
<1>5. \A d \in Busy' : /\ d \in Busy /\ d \in Calls /\ call'[d].op = call[d].op
                       /\ call'[d].id = call[d].id /\ call'[d].content = call[d].content
                       /\ Own(d)' <=> Own(d)
                       /\ Working(d)' <=> Working(d)
                       /\ Stored(d)' <=> Stored(d)
                       /\ d = c => call'[d].at = "sent"
  BY <1>1, <1>2 DEF Busy, Own, Working, Stored, Idle
<1>6. \A d \in Calls : Working(d)' => d \in Busy'
  BY DEF Working
<1>7. Saved(c) => call[c].req \in {"put", "post"} /\ call[c].id # None
  <2>1. Saved(c) => call[c].req \in {"put", "post"}
    BY DEF Saved, Ready
  <2> QED  BY <1>1, <1>4, <2>1, NoneAssumption DEF CallOK, Exists
<1>8. ~ raced' => ~ raced \/ \A d \in Busy : Own(d) => d = c
  BY <1>1, <1>2, <1>3 DEF OneCall
<1>9. KeepsToDocument'
  <2>1. \A w \in Old : rows'[w].content.doc = w
    BY <1>2, <1>3 DEF KeepsToDocument
  <2>2. (InEditor /\ store.id # None => store.content.doc = rows[store.id].content.doc)'
    BY <1>2, <1>3, <1>4 DEF KeepsToDocument
  <2>3. (InEditor /\ route \in Wf => store.id = route)'
    BY <1>1, <1>2, <1>3 DEF KeepsToDocument
  <2>4. \A d \in Calls : (Working(d) =>
          /\ call[d].content.doc = store.content.doc
          /\ call[d].id # None => rows[call[d].id].content.doc = store.content.doc)'
    BY <1>2, <1>3, <1>5, <1>6 DEF KeepsToDocument
  <2>5. \A d \in Busy' : (Own(d) /\ route \in Wf => call[d].id = route)'
    BY <1>2, <1>3, <1>5 DEF KeepsToDocument
  <2>6. \A d \in Busy' : (Own(d) /\ call[d].op = "load" /\ call[d].at = "answered" =>
                           call[d].got = rows[call[d].id])'
    BY <1>1, <1>2, <1>3, <1>5 DEF KeepsToDocument
  <2> QED  BY <2>1, <2>2, <2>3, <2>4, <2>5, <2>6 DEF KeepsToDocument
<1>10. (~ raced \/ ~ overlap) /\ Saved(c) => Stored(c)
  BY <1>1, <1>3, <1>4, <1>7 DEF SavesWhatIsShown
<1>11. SavesWhatIsShown'
  <2>1. \A d \in Calls : (Working(d) /\ ~ raced => call[d].content = store.content)'
    BY <1>2, <1>3, <1>5, <1>6, <1>8 DEF SavesWhatIsShown, Working
  <2>2. ASSUME NEW d \in Calls, Working(d)', call'[d].req \in {"put", "post"},
               call'[d].at = "answered", ~ raced' \/ ~ overlap'
        PROVE  Stored(d)'
    <3>1. Working(d) /\ d # c /\ call'[d] = call[d] /\ (Stored(d)' <=> Stored(d))
      BY <1>1, <1>5, <1>6, <2>2
    <3>2. ~ raced \/ ~ overlap
      BY <1>2, <2>2
    <3> QED  BY <1>3, <2>2, <3>1, <3>2 DEF SavesWhatIsShown
  <2>3. ASSUME NEW d \in Calls, Working(d)', call'[d].op = "run",
               call'[d].req \in {"activate", "start"}, ~ raced'
        PROVE  Stored(d)'
    <3>1. Working(d) /\ call[d].op = "run" /\ d \in Busy' /\ (Stored(d)' <=> Stored(d))
      BY <1>5, <1>6, <2>3
    <3>2. CASE d = c
      <4>1. call'[c] # Idle
        BY <3>1, <3>2 DEF Busy
      <4>2. CASE Saved(c)
        BY <1>2, <1>10, <2>3, <3>1, <3>2, <4>2
      <4>3. CASE StatusSet(c) /\ ~ Saved(c)
        <5>1. call[c].req = "activate"
          BY <1>1, <3>1, <3>2, <4>3, RequestsButton DEF StatusSet, Ready, Busy
        <5> QED  BY <1>2, <1>3, <2>3, <3>1, <3>2, <4>3, <5>1 DEF SavesWhatIsShown
      <4>4. Saved(c) \/ StatusSet(c)
        BY <1>1, <2>3, <3>2, <4>1
      <4> QED  BY <4>2, <4>3, <4>4
    <3>3. CASE d # c
      <4>1. call'[d] = call[d] /\ ~ raced
        BY <1>1, <1>8, <2>3, <3>1, <3>3 DEF Working
      <4> QED  BY <1>3, <2>3, <3>1, <4>1 DEF SavesWhatIsShown
    <3> QED  BY <3>2, <3>3
  <2>4. ASSUME (InEditor /\ ~ store.dirty /\ ~ fresh /\ ~ raced)'
        PROVE  store'.content = StoredContent'
    <3>1. CASE Saved(c)
      <4>1. Stored(c) /\ call[c].content = store.content
        BY <1>2, <1>3, <1>4, <1>10, <2>4, <3>1 DEF SavesWhatIsShown
      <4> QED  BY <1>2, <3>1, <4>1 DEF Stored, StoredContent
    <3>2. CASE ~ Saved(c)
      <4>1. store.content = StoredContent
        BY <1>2, <1>3, <2>4, <3>2 DEF SavesWhatIsShown, CleanMeansStored
      <4> QED  BY <1>2, <3>2, <4>1 DEF StoredContent
    <3> QED  BY <3>1, <3>2
  <2> QED  BY <2>1, <2>2, <2>3, <2>4 DEF SavesWhatIsShown, CleanMeansStored
<1>12. ASSUME failures' = 0, ~ overlap' PROVE ShowsStatus'
  <2>1. ShowsStatus
    BY <1>2, <1>12 DEF Kept
  <2>2. \A d \in Busy : Own(d) => d = c
    BY <1>1, <1>2, <1>3, <1>12 DEF OneCall
  <2>3. \A d \in Calls : Working(d)' => d = c /\ call'[c] # Idle /\ call'[c].at = "sent"
    BY <1>5, <1>6, <2>2 DEF Working, Busy
  <2>4. ~ Saved(c) => call[c].id = store.id
    <3>1. ~ Saved(c) => call[c].req # "post"
      BY DEF StatusSet, Started, Cancelled, Ready
    <3> QED  BY <1>4, <2>1, <3>1 DEF ShowsStatus
  <2>5. \A d \in Calls : Working(d)' => call'[d].id = store'.id
    BY <1>1, <1>2, <2>3, <2>4
  <2>6. ASSUME NEW w \in Wf, store'.id = w, InEditor'
        PROVE  store'.status = "active" <=> rows'[w].status = "active"
    <3>1. store \in Store
      BY DEF Structure, TypeOK
    <3>2. call[c].req \notin {"start", "cancel"} => call[c].got = rows[call[c].id].status
      BY <1>1, <1>4, <2>1 DEF ShowsStatus
    <3>3. ASSUME store.id # None, call[c].req \notin {"activate", "deactivate"}
          PROVE  store.status = "active" <=> rows[store.id].status = "active"
      <4>1. \A d \in Calls : Working(d) => ~ Decides(d)
        BY <2>2, <3>3 DEF Working, Decides
      <4> QED  BY <1>2, <2>1, <2>6, <3>3, <4>1 DEF ShowsStatus
    <3>4. CASE Saved(c)
      <4>1. store'.status = StatusAfter(c) /\ store'.id = call[c].id
        BY <3>1, <3>4 DEF Saved, MarkSaved, Store
      <4>2. CASE call[c].req = "put" /\ call[c].op \in {"run", "activate"}
        <5>1. call[c].id = store.id /\ call[c].id # None
          BY <1>4, <1>7, <2>1, <3>4, <4>2 DEF ShowsStatus
        <5> QED  BY <1>2, <2>6, <3>3, <4>1, <4>2, <5>1 DEF StatusAfter
      <4>3. CASE ~ (call[c].req = "put" /\ call[c].op \in {"run", "activate"})
        <5>1. store'.status = call[c].got
          BY <4>1, <4>3 DEF StatusAfter
        <5> QED  BY <1>2, <1>7, <2>6, <3>2, <3>4, <4>1, <5>1
      <4> QED  BY <4>2, <4>3
    <3>5. CASE StatusSet(c)
      <4>1. /\ call[c].req \in {"activate", "deactivate"} /\ store'.id = store.id
            /\ store'.status = IF call[c].op = "stop" THEN call[c].ref ELSE call[c].got
        BY <3>1, <3>5 DEF StatusSet, Ready, Store
      <4>2. ~ Saved(c)
        BY <3>5 DEF Saved, StatusSet, Ready
      <4>3. rows'[w].status = call[c].got
        BY <1>2, <2>4, <2>6, <3>2, <4>1, <4>2
      <4>4. CASE call[c].op = "stop"
        <5>1. call[c].req = "deactivate"
          BY <1>1, <4>1, <4>4, RequestsButton DEF Busy
        <5>2. call[c].got = "inactive" /\ call[c].ref \in {"draft", "inactive"}
          BY <1>1, <1>4, <4>4, <5>1 DEF CallOK
        <5> QED  BY <4>1, <4>3, <4>4, <5>2
      <4>5. CASE call[c].op # "stop"
        BY <4>1, <4>3, <4>5
      <4> QED  BY <4>4, <4>5
    <3>6. CASE Started(c) \/ Cancelled(c)
      <4>1. store' = store /\ call[c].req \notin {"activate", "deactivate"} /\ store.id # None
        BY <1>2, <2>6, <3>6, NoneAssumption DEF Started, Cancelled, Ready
      <4> QED  BY <1>2, <2>6, <3>3, <4>1
    <3> QED  BY <3>4, <3>5, <3>6
  <2>7. (InEditor /\ store.id # None /\ (\A d \in Calls : Working(d) => ~ Decides(d))
           => (store.status = "active" <=> rows[store.id].status = "active"))'
    <3>1. store'.id \in Wf \cup {None}
      BY DEF Structure, TypeOK, Store
    <3> QED  BY <2>6, <3>1
  <2> QED  BY <2>3, <2>5, <2>7 DEF ShowsStatus
<1> QED  BY <1>9, <1>11, <1>12 DEF Kept

LEMMA FailureKeeps ==
  ASSUME Structure, Structure', Kept, NEW c \in Calls, Fails(c)
  PROVE  Kept'
<1>1. /\ UNCHANGED <<rows, store, fresh, route, page, raced, overlap, crossed>>
      /\ failures' = failures + 1 /\ failures \in Nat
      /\ loading' \in {loading, "failed"}
  BY DEF Fails, history, Structure, TypeOK
<1>2. call'[c] = Idle /\ \A d \in Calls \ {c} : call'[d] = call[d]
  BY EndsCall DEF Fails
<1>3. \A d \in Busy' : /\ d \in Busy /\ d \in Calls /\ call'[d] = call[d]
                       /\ Own(d)' <=> Own(d)
                       /\ Working(d)' <=> Working(d)
                       /\ Stored(d)' <=> Stored(d)
  BY <1>1, <1>2 DEF Busy, Own, Working, Stored, Idle
<1>4. InEditor' => InEditor
  BY <1>1 DEF InEditor
<1>5. \A d \in Calls : Working(d)' => d \in Busy'
  BY DEF Working
<1>6. KeepsToDocument'
  <2>1. KeepsToDocument
    BY DEF Kept
  <2>2. \A d \in Calls : (Working(d) =>
          /\ call[d].content.doc = store.content.doc
          /\ call[d].id # None => rows[call[d].id].content.doc = store.content.doc)'
    BY <1>1, <1>3, <1>5, <2>1 DEF KeepsToDocument
  <2>3. /\ \A d \in Busy' : (Own(d) /\ route \in Wf => call[d].id = route)'
        /\ \A d \in Busy' : (Own(d) /\ call[d].op = "load" /\ call[d].at = "answered" =>
                              call[d].got = rows[call[d].id])'
    BY <1>1, <1>3, <2>1 DEF KeepsToDocument
  <2>4. /\ \A w \in Old : rows'[w].content.doc = w
        /\ (InEditor /\ store.id # None => store.content.doc = rows[store.id].content.doc)'
        /\ (InEditor /\ route \in Wf => store.id = route)'
    BY <1>1, <1>4, <2>1 DEF KeepsToDocument
  <2> QED  BY <2>2, <2>3, <2>4 DEF KeepsToDocument
<1>7. SavesWhatIsShown'
  BY <1>1, <1>3, <1>4, <1>5 DEF Kept, SavesWhatIsShown, CleanMeansStored, StoredContent
<1>8. failures' # 0
  BY <1>1
<1> QED  BY <1>6, <1>7, <1>8 DEF Kept

-----------------------------------------------------------------------------
(* The theorems. *)
\* The invariant holds at first.
LEMMA EditorInvariantInit == Init => EditorInvariant
BY StructureInit, KeptInit DEF EditorInvariant

\* And every step keeps it.
LEMMA EditorInvariantNext == EditorInvariant /\ [Next]_vars => EditorInvariant'
<1> SUFFICES ASSUME EditorInvariant, [Next]_vars PROVE EditorInvariant'
  OBVIOUS
<1>1. Structure /\ Structure' /\ (~ crossed => Kept)
  BY StructureNext DEF EditorInvariant
<1> SUFFICES ASSUME ~ crossed' PROVE Kept'
  BY <1>1 DEF EditorInvariant
<1>2. CASE UNCHANGED vars
  <2>1. UNCHANGED <<rows, store, fresh, route, page, loading, call, failures, raced,
                    overlap, crossed>>
    BY <1>2 DEF vars, ui, counts, history
  <2>2. Kept
    BY <1>1, <2>1, Zenon
  <2> QED  BY <2>1, <2>2
           DEF Kept, KeepsToDocument, SavesWhatIsShown, ShowsStatus, CleanMeansStored,
               StoredContent, Stored, Decides, Working, Busy, Own, InEditor, Idle
<1>3. CASE User \/ Measured \/ RunEnds
  <2>1. UNCHANGED crossed
    BY <1>3 DEF User, OpenNew, OpenRow, Edit, Import, Leave, DialogLeave, DialogCancel,
                DialogSave, Save, Run, Activate, Deactivate, Stop, Measured, RunEnds, history
  <2>2. ~ crossed /\ Kept
    BY <1>1, <2>1, Zenon
  <2> QED  BY <1>1, <1>3, <2>2, PageKeeps, NewPageKeeps, LoadingPageKeeps, ClicksKeep DEF User
<1>4. ASSUME NEW c \in Calls, Server(c) PROVE Kept'
  <2>1. ~ crossed
    BY <1>4, ServerCrosses
  <2> QED  BY <1>1, <1>4, <2>1, ServerKeeps
<1>5. ASSUME NEW c \in Calls, Answer(c) PROVE Kept'
  <2>1. Stale(c)
    BY <1>5 DEF Answer, Loaded, Saved, StatusSet, Started, Cancelled
  <2>2. ~ crossed
    BY <2>1, Zenon DEF Stale
  <2> QED  BY <1>1, <1>5, <2>2, LoadedKeeps, AnswerKeeps DEF Answer
<1>6. ASSUME NEW c \in Calls, Fails(c) PROVE Kept'
  <2>1. UNCHANGED crossed
    BY <1>6 DEF Fails, history
  <2>2. ~ crossed
    BY <2>1, Zenon
  <2> QED  BY <1>1, <1>6, <2>2, FailureKeeps
<1> QED  BY <1>2, <1>3, <1>4, <1>5, <1>6 DEF Next

\* The inductive invariant, in every state the editor reaches.
THEOREM EditorInvariantHolds == Spec => []EditorInvariant
BY EditorInvariantInit, EditorInvariantNext, PTL DEF Spec

\* What the editor shows as saved is what the server has, for any number of
\* workflows, calls, edits and failures (stores/workflow.ts and the saves of
\* EditorToolbar and WorkflowEditor).
THEOREM CleanIsStored == Spec => []CleanMeansStored
<1>1. EditorInvariant => CleanMeansStored
  BY DEF EditorInvariant, Kept, SavesWhatIsShown, CleanMeansStored
<1> QED  BY <1>1, EditorInvariantHolds, PTL

\* Every variable keeps its type, and a document is saved to its own row.
THEOREM DocumentKeepsItsRow == Spec => []DocumentInvariant
<1>1. EditorInvariant => DocumentInvariant
  BY DEF EditorInvariant, Structure, Kept, KeepsToDocument, DocumentInvariant
<1> QED  BY <1>1, EditorInvariantHolds, PTL

\* Once the calls are answered, the badge says what the row's status is.
THEOREM BadgeIsRight == Spec => []ActiveShown
<1>1. EditorInvariant => ActiveShown
  BY DEF EditorInvariant, Kept, ShowsStatus, Working, ActiveShown
<1> QED  BY <1>1, EditorInvariantHolds, PTL

\* Run executes the template that was on the canvas when it was pressed.
THEOREM RunIsOfWhatIsShown == Spec => RunsWhatIsShown
<1> DEFINE Runs == \A c \in Calls :
       (Sent(c, "start") /\ Own(c) /\ call'[c] # Idle /\ call'[c].at = "answered")
         => rows[call[c].id].content = call[c].content \/ raced \/ crossed
<1>1. EditorInvariant /\ [Next]_vars => [Runs]_vars
  <2> SUFFICES ASSUME EditorInvariant, NEW c \in Calls, Sent(c, "start"), Own(c),
                      ~ raced, ~ crossed
               PROVE  rows[call[c].id].content = call[c].content
    OBVIOUS
  <2>1. call[c] # Idle /\ call[c].req = "start" /\ c \in Busy
    BY DEF Sent, Busy
  <2>2. call[c].op = "run"
    BY <2>1, RequestsButton DEF EditorInvariant
  <2>3. SavesWhatIsShown
    BY DEF EditorInvariant, Kept
  <2> QED  BY <2>1, <2>2, <2>3 DEF SavesWhatIsShown, Working, Stored
<1>2. Spec => [][Runs]_vars
  BY <1>1, EditorInvariantHolds, PTL DEF Spec
<1> QED  BY <1>2 DEF RunsWhatIsShown
=============================================================================
