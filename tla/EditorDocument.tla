--------------------------- MODULE EditorDocument ---------------------------
(***************************************************************************)
(* The document in the editor and the rows of its workflows: opening,      *)
(* editing, Save, Run, Stop, Activate, Deactivate and the guard before     *)
(* leaving.  A button starts a call, a course of requests whose answers    *)
(* are applied to the store of the page that is open when they arrive.     *)
(*                                                                         *)
(* A template is told apart by the document it belongs to and the edit     *)
(* that made it.  Name, tags, key and validation are left out, and so is   *)
(* everyone else who writes rows.  A host's veto is a failure before the   *)
(* request.  Reloading the page is left out.                               *)
(***************************************************************************)
EXTENDS Naturals, FiniteSets

CONSTANTS
  Wf,           \* ids of workflows
  Old,          \* those that have a row at first
  Calls,        \* places for calls under way
  MaxOpens,     \* bound: openings of the editor
  MaxEdits,     \* bound: edits and imports
  MaxClicks,    \* bound: buttons pressed
  MaxFailures,  \* bound: failing requests
  None

ASSUME IdsAssumption == Old \subseteq Wf /\ Wf \cap {"list", "new"} = {}
ASSUME BoundsAssumption ==
  MaxOpens \in Nat /\ MaxEdits \in Nat /\ MaxClicks \in Nat /\ MaxFailures \in Nat

Contents == [doc : Old \cup 0 .. MaxOpens, n : 0 .. MaxEdits]
Statuses == {"draft", "active", "inactive"}
Row      == [content : Contents, status : Statuses]
Store    == [id : Wf \cup {None}, content : Contents, status : Statuses \cup {None},
             dirty : BOOLEAN]

ASSUME NoneAssumption == None \notin Wf \cup Statuses \cup Row

VARIABLES
  rows,      \* per id: None, or its template and status
  store,     \* useWorkflowStore: id, content, status, dirty
  fresh,     \* the canvas has not measured the nodes loaded last
  route,     \* "list", "new" or an id
  page,      \* openings so far; the page that is open
  loading,   \* the editor's spinner: "no", "yes" or "failed"
  dialog,    \* the guard: "closed", "open" or "saving"
  run,       \* useExecutionStore: "none", "active", "ended" or "stopped"
  prior,     \* preRunStatusRef of the toolbar
  call,      \* calls under way
  edits, clicks, failures,
  \* history:
  raced,     \* edited while a call was under way, or run before measured
  overlap,   \* two calls of the page at a time
  crossed    \* a call of an earlier page went on

ui == <<fresh, route, page, loading, dialog, run, prior>>
counts == <<clicks, failures>>
history == <<raced, overlap, crossed>>
vars == <<rows, store, ui, call, edits, counts, history>>

Content(doc, n) == [doc |-> doc, n |-> n]
Blank(doc) == [id |-> None, content |-> Content(doc, 0), status |-> None, dirty |-> FALSE]
Idle == [op |-> "none"]
Busy == {c \in Calls : call[c] # Idle}

Init ==
  /\ \E s \in {"draft", "active"} :
       rows = [w \in Wf |-> IF w \in Old THEN [content |-> Content(w, 0), status |-> s]
                                         ELSE None]
  /\ store = Blank(0)
  /\ fresh = FALSE /\ route = "list" /\ page = 0
  /\ loading = "no" /\ dialog = "closed" /\ run = "none" /\ prior = None
  /\ call = [c \in Calls |-> Idle]
  /\ edits = 0 /\ clicks = 0 /\ failures = 0
  /\ raced = FALSE /\ overlap = FALSE /\ crossed = FALSE

InEditor == route # "list" /\ loading = "no"
Clickable == InEditor /\ dialog = "closed"
UnderWay(op) == \E c \in Busy : call[c].op = op /\ call[c].page = page
Own(c) == call[c].page = page

\* A call begins with its first request; it keeps what the click saw.
Begin(op, req, id, on) ==
  /\ \E c \in Calls :
       /\ call[c] = Idle
       /\ call' = [call EXCEPT ![c] =
            [op |-> op, req |-> req, id |-> id, content |-> store.content,
             page |-> on, at |-> "sent", got |-> None, ref |-> prior]]
  /\ clicks' = IF op = "load" THEN clicks ELSE clicks + 1
  /\ clicks' <= MaxClicks
  /\ overlap' = (overlap \/ \E c \in Busy : Own(c))

-----------------------------------------------------------------------------
(* The page. *)

\* Mutant of OpenNew: the reset forgets the id.
OpenNewKeepsId ==
  /\ route = "list" /\ page < MaxOpens
  /\ page' = page + 1 /\ route' = "new" /\ loading' = "no"
  /\ store' = [Blank(page') EXCEPT !.id = store.id]
  /\ fresh' = FALSE /\ run' = "none" /\ prior' = None
  /\ raced' = FALSE /\ overlap' = FALSE
  /\ UNCHANGED <<rows, dialog, call, edits, counts, crossed>>

OpenNew ==
  /\ route = "list" /\ page < MaxOpens
  /\ page' = page + 1 /\ route' = "new" /\ loading' = "no"
  /\ store' = Blank(page')
  /\ fresh' = FALSE /\ run' = "none" /\ prior' = None
  /\ raced' = FALSE /\ overlap' = FALSE
  /\ UNCHANGED <<rows, dialog, call, edits, counts, crossed>>

OpenRow(w) ==
  /\ route = "list" /\ page < MaxOpens /\ rows[w] # None
  /\ page' = page + 1 /\ route' = w /\ loading' = "yes"
  /\ Begin("load", "get", w, page')
  /\ run' = "none" /\ prior' = None
  /\ UNCHANGED <<rows, store, fresh, dialog, edits, failures, raced, crossed>>

\* Mutant of Edit: the change does not reach the flag.
EditClean ==
  /\ Clickable /\ edits < MaxEdits
  /\ edits' = edits + 1
  /\ store' = [store EXCEPT !.content.n = edits']
  /\ raced' = (raced \/ \E c \in Busy : Own(c))
  /\ UNCHANGED <<rows, ui, call, counts, overlap, crossed>>

\* Any of the store's mutations.
Edit ==
  /\ Clickable /\ edits < MaxEdits
  /\ edits' = edits + 1
  /\ store' = [store EXCEPT !.content.n = edits', !.dirty = TRUE]
  /\ raced' = (raced \/ \E c \in Busy : Own(c))
  /\ UNCHANGED <<rows, ui, call, counts, overlap, crossed>>

\* A file, or the AI builder's update: loadTemplate keeps the id.
Import ==
  /\ Clickable /\ edits < MaxEdits
  /\ edits' = edits + 1
  /\ store' = [store EXCEPT !.content.n = edits', !.dirty = FALSE]
  /\ fresh' = TRUE
  /\ raced' = (raced \/ \E c \in Busy : Own(c))
  /\ UNCHANGED <<rows, route, page, loading, dialog, run, prior, call, counts,
                 overlap, crossed>>

\* The canvas reports the sizes of new nodes as changes (onNodesChange).
Measured ==
  /\ InEditor /\ fresh
  /\ fresh' = FALSE
  /\ store' = [store EXCEPT !.dirty = TRUE]
  /\ UNCHANGED <<rows, route, page, loading, dialog, run, prior, call, edits, counts,
                 history>>

Leave ==
  /\ route # "list" /\ dialog = "closed"
  /\ IF InEditor /\ store.dirty
       THEN dialog' = "open" /\ UNCHANGED route
       ELSE route' = "list" /\ UNCHANGED dialog
  /\ UNCHANGED <<rows, store, fresh, page, loading, run, prior, call, edits, counts,
                 history>>

DialogLeave ==
  /\ dialog = "open"
  /\ dialog' = "closed" /\ route' = "list"
  /\ UNCHANGED <<rows, store, fresh, page, loading, run, prior, call, edits, counts,
                 history>>

DialogCancel ==
  /\ dialog = "open"
  /\ dialog' = "closed"
  /\ UNCHANGED <<rows, store, fresh, route, page, loading, run, prior, call, edits,
                 counts, history>>

-----------------------------------------------------------------------------
(* The buttons. *)

SaveRequest == IF store.id = None THEN "post" ELSE "put"

DialogSave ==
  /\ dialog = "open"
  /\ dialog' = "saving"
  /\ Begin("leave", SaveRequest, store.id, page)
  /\ UNCHANGED <<rows, store, fresh, route, page, loading, run, prior, edits, failures,
                 raced, crossed>>

Save ==
  /\ Clickable /\ ~UnderWay("save")
  /\ Begin("save", SaveRequest, store.id, page)
  /\ UNCHANGED <<rows, store, ui, edits, failures, raced, crossed>>

\* Mutant of FirstRequest: Run and Activate never save a row that exists.
FirstRequestUnsaved == IF store.id = None THEN "post" ELSE "activate"

FirstRequest ==
  IF store.id = None THEN "post" ELSE IF store.dirty THEN "put" ELSE "activate"

Run ==
  /\ Clickable /\ ~UnderWay("run") /\ run # "active"
  /\ prior' = store.status /\ run' = "none"
  /\ Begin("run", FirstRequest, store.id, page)
  /\ raced' = (raced \/ fresh)
  /\ UNCHANGED <<rows, store, fresh, route, page, loading, dialog, edits, failures,
                 crossed>>

Activate ==
  /\ Clickable /\ ~UnderWay("activate")
  /\ store.id # None /\ store.status # "active"
  /\ Begin("activate", FirstRequest, store.id, page)
  /\ UNCHANGED <<rows, store, ui, edits, failures, raced, crossed>>

Deactivate ==
  /\ Clickable /\ ~UnderWay("deactivate")
  /\ store.id # None /\ store.status = "active"
  /\ Begin("deactivate", "deactivate", store.id, page)
  /\ UNCHANGED <<rows, store, ui, edits, failures, raced, crossed>>

Stop ==
  /\ Clickable /\ run = "active"
  /\ run' = "stopped"
  /\ Begin("stop", "cancel", store.id, page)
  /\ UNCHANGED <<rows, store, fresh, route, page, loading, dialog, prior, edits,
                 failures, raced, crossed>>

\* The execution ends (EditorView).
RunEnds ==
  /\ run = "active" /\ run' = "ended"
  /\ UNCHANGED <<rows, store, fresh, route, page, loading, dialog, prior, call, edits,
                 counts, history>>

-----------------------------------------------------------------------------
(* The server handles a request. *)

Answered(c, got) == call' = [call EXCEPT ![c].at = "answered", ![c].got = got]
Stale(c) == crossed' = (crossed \/ ~Own(c))

Sent(c, req) == call[c] # Idle /\ call[c].at = "sent" /\ call[c].req = req

Get(c) ==
  /\ Sent(c, "get")
  /\ Answered(c, rows[call[c].id])
  /\ UNCHANGED <<rows, store, ui, edits, counts, history>>

Put(c) ==
  /\ Sent(c, "put")
  /\ rows' = [rows EXCEPT ![call[c].id].content = call[c].content]
  /\ Answered(c, rows[call[c].id].status)
  /\ Stale(c)
  /\ UNCHANGED <<store, ui, edits, counts, raced, overlap>>

Post(c) ==
  /\ Sent(c, "post")
  /\ \E w \in {v \in Wf : rows[v] = None} :
       /\ rows' = [rows EXCEPT ![w] = [content |-> call[c].content, status |-> "draft"]]
       /\ call' = [call EXCEPT ![c].at = "answered", ![c].id = w, ![c].got = "draft"]
  /\ UNCHANGED <<store, ui, edits, counts, history>>

SetActive(c) ==
  LET w == call[c].id IN
  /\ Sent(c, "activate")
  /\ rows' = [rows EXCEPT ![w].status = "active"]
  /\ Answered(c, "active")
  /\ Stale(c)
  /\ UNCHANGED <<store, ui, edits, counts, raced, overlap>>

SetInactive(c) ==
  /\ Sent(c, "deactivate")
  /\ rows' = [rows EXCEPT ![call[c].id].status = "inactive"]
  /\ Answered(c, "inactive")
  /\ Stale(c)
  /\ UNCHANGED <<store, ui, edits, counts, raced, overlap>>

\* The execution starts with the row's template, or is cancelled.
Execution(c) ==
  /\ Sent(c, "start") \/ Sent(c, "cancel")
  /\ Answered(c, None)
  /\ Stale(c)
  /\ UNCHANGED <<rows, store, ui, edits, counts, raced, overlap>>

-----------------------------------------------------------------------------
(* An answer arrives. *)

Ready(c, reqs) == call[c] # Idle /\ call[c].at = "answered" /\ call[c].req \in reqs
Ends(c) == call' = [call EXCEPT ![c] = Idle]
Goes(c, req) == call' = [call EXCEPT ![c].req = req, ![c].at = "sent"]

Loaded(c) ==
  /\ Ready(c, {"get"})
  /\ store' = [id |-> call[c].id, content |-> call[c].got.content,
               status |-> call[c].got.status, dirty |-> FALSE]
  /\ fresh' = TRUE
  /\ loading' = IF Own(c) THEN "no" ELSE loading
  /\ raced' = (raced /\ ~Own(c))
  /\ overlap' = (overlap /\ ~Own(c))
  /\ Stale(c)
  /\ Ends(c)
  /\ UNCHANGED <<rows, route, page, dialog, run, prior, edits, counts>>

\* Run and Activate do not take the status of a row that they have updated.
StatusAfter(c) ==
  IF call[c].req = "put" /\ call[c].op \in {"run", "activate"} THEN store.status
                                                            ELSE call[c].got

MarkSaved(c) ==
  store' = [store EXCEPT !.id = call[c].id, !.dirty = FALSE, !.status = StatusAfter(c)]

\* A save that carried what is shown ends the race, if no two calls overlapped.
Saved(c) ==
  /\ Ready(c, {"put", "post"})
  /\ MarkSaved(c)
  /\ raced' = (raced /\ (overlap \/ call[c].content # store.content))
  /\ Stale(c)
  /\ UNCHANGED <<rows, fresh, page, loading, run, prior, edits, counts, overlap>>
  /\ \/ /\ call[c].op = "save"
        /\ Ends(c)
        /\ UNCHANGED <<route, dialog>>
     \/ /\ call[c].op = "leave"
        /\ Ends(c)
        /\ dialog' = "closed" /\ route' = "list"
     \/ /\ call[c].op \in {"run", "activate"}
        /\ Goes(c, "activate")
        /\ UNCHANGED <<route, dialog>>

StatusSet(c) ==
  /\ Ready(c, {"activate", "deactivate"})
  /\ store' = [store EXCEPT !.status =
                 IF call[c].op = "stop" THEN call[c].ref ELSE call[c].got]
  /\ IF call[c].op = "run" THEN Goes(c, "start") ELSE Ends(c)
  /\ Stale(c)
  /\ UNCHANGED <<rows, ui, edits, counts, raced, overlap>>

Started(c) ==
  /\ Ready(c, {"start"})
  /\ run' = "active"
  /\ Ends(c)
  /\ Stale(c)
  /\ UNCHANGED <<rows, store, fresh, route, page, loading, dialog, prior, edits,
                 counts, raced, overlap>>

\* Mutant of Restores: an active workflow is deactivated, too.
RestoresAlways(c, status) == status # None

Restores(c, status) == call[c].id # None /\ status \notin {None, "active"}

\* Stop goes on with the status that Run found, or a later Run by now.
Cancelled(c) ==
  LET status == IF Own(c) THEN prior ELSE call[c].ref IN
  /\ Ready(c, {"cancel"})
  /\ prior' = IF Own(c) THEN None ELSE prior
  /\ IF Restores(c, status)
       THEN call' = [call EXCEPT ![c].req = "deactivate", ![c].at = "sent", ![c].ref = status]
       ELSE Ends(c)
  /\ Stale(c)
  /\ UNCHANGED <<rows, store, fresh, route, page, loading, dialog, run, edits, counts,
                 raced, overlap>>

\* A request fails before or after the server has handled it.
Fails(c) ==
  /\ call[c] # Idle /\ failures < MaxFailures
  /\ failures' = failures + 1
  /\ Ends(c)
  /\ loading' = IF call[c].op = "load" /\ Own(c) THEN "failed" ELSE loading
  /\ dialog' = IF call[c].op = "leave" THEN "open" ELSE dialog
  /\ run' = IF call[c].req = "cancel" THEN "active" ELSE run
  /\ UNCHANGED <<rows, store, fresh, route, page, prior, edits, clicks, history>>

Server(c) ==
  Get(c) \/ Put(c) \/ Post(c) \/ SetActive(c) \/ SetInactive(c) \/ Execution(c)

Answer(c) == Loaded(c) \/ Saved(c) \/ StatusSet(c) \/ Started(c) \/ Cancelled(c)

User ==
  \/ OpenNew \/ (\E w \in Wf : OpenRow(w)) \/ Edit \/ Import \/ Leave
  \/ DialogLeave \/ DialogCancel \/ DialogSave
  \/ Save \/ Run \/ Activate \/ Deactivate \/ Stop

Next == User \/ Measured \/ RunEnds \/ \E c \in Calls : Server(c) \/ Answer(c) \/ Fails(c)

Spec == Init /\ [][Next]_vars

-----------------------------------------------------------------------------
(* Properties. *)

TypeOK ==
  /\ rows \in [Wf -> Row \cup {None}] /\ store \in Store
  /\ route \in Wf \cup {"list", "new"} /\ loading \in {"no", "yes", "failed"}
  /\ dialog \in {"closed", "open", "saving"}
  /\ run \in {"none", "active", "ended", "stopped"}
  /\ prior \in Statuses \cup {None}
  /\ page \in 0 .. MaxOpens /\ edits \in 0 .. MaxEdits
  /\ clicks \in 0 .. MaxClicks /\ failures \in 0 .. MaxFailures
  /\ fresh \in BOOLEAN /\ raced \in BOOLEAN /\ overlap \in BOOLEAN /\ crossed \in BOOLEAN

\* The template that the row of the document holds; of none, the empty one.
StoredContent ==
  IF store.id = None THEN Content(store.content.doc, 0) ELSE rows[store.id].content

\* When the editor shows no unsaved changes, what it shows is what the server
\* has: with saves by Save, Run, Activate and the guard under way in any order,
\* failing before or after they were stored, unless the template was changed
\* while one was under way or a call of an earlier page went on.
CleanMeansStored ==
  (InEditor /\ ~store.dirty /\ ~fresh /\ ~raced /\ ~crossed)
    => store.content = StoredContent

\* Each variable holds a value of its kind, and the editor saves a document to
\* its own row: the store's id is that of the template shown and of the page's
\* address, and each row keeps to its document, until a call of an earlier page
\* goes on.
DocumentInvariant ==
  /\ TypeOK
  /\ ~crossed =>
       /\ \A w \in Old : rows[w].content.doc = w
       /\ InEditor /\ store.id # None => store.content.doc = rows[store.id].content.doc
       /\ InEditor /\ route \in Wf => store.id = route

\* Run executes the template that was on the canvas when it was pressed,
\* under the same exceptions.
RunsWhatIsShown ==
  [][\A c \in Calls :
       (Sent(c, "start") /\ Own(c) /\ call'[c] # Idle /\ call'[c].at = "answered")
         => rows[call[c].id].content = call[c].content \/ raced \/ crossed]_vars

\* The badge and the buttons say active when the row is, also after Run
\* activated a draft and Stop took it back, once the calls have been answered.
ActiveShown ==
  (/\ InEditor /\ store.id # None
   /\ Busy = {} /\ failures = 0 /\ ~overlap /\ ~crossed)
    => (store.status = "active" <=> rows[store.id].status = "active")

=============================================================================
