----------------------------- MODULE EditorView -----------------------------
(***************************************************************************)
(* What the editor shows of an execution: executionStore, kept up to date  *)
(* by useExecutionSocket over a socket of executionBroadcaster and a read  *)
(* over REST, and the Run, Stop and Clear buttons.                         *)
(*                                                                         *)
(* A socket delivers in order; when it is lost so is the end of what was   *)
(* sent.  A socket that cleanup closes has no handlers any more.  React    *)
(* runs the effect of a cleared store before the answer of the POST.  The  *)
(* sockets of child executions and the node statuses are left out.  Lost   *)
(* sockets, failing requests and cancellations by others count as faults.  *)
(***************************************************************************)
EXTENDS ExecutionFeed, Sequences

CONSTANT None

ASSUME NoneAssumption == None \notin Executions /\ None \notin Status

VARIABLES
  view,       \* the store: executionId, status, logs
  posting,    \* the execution whose POST is under way
  stopping,   \* the execution whose Stop is under way
  hook,       \* the execution the hook's effect has run for
  conn,       \* sockets opened so far
  sock,       \* the latest of them
  timer,      \* the execution to reconnect to
  fetch,      \* the backfill of each socket
  \* history of the view:
  crossed,    \* an answer for another execution was applied to it
  overtaken,  \* a backfill put a live status over a final one
  missed      \* a backfill failed when the execution had ended

store   == <<view, posting, stopping>>
link    == <<conn, sock, timer>>
history == <<crossed, overtaken, missed>>
vars    == <<feed, store, hook, link, fetch, bounds, history>>

Live == {"pending", "running"}
Ids  == Executions \cup {None}
Conns == 1 .. MaxExecutions + MaxFaults  \* one for each execution and each fault

View(id, status, lines) == [id |-> id, status |-> status, lines |-> lines]
Line(e, n, at)          == [exec |-> e, conn |-> n, at |-> at]
Sock(e, at, net)        == [exec |-> e, at |-> at, net |-> net]
Read(e, at, status, k)  == [exec |-> e, at |-> at, status |-> status, logs |-> k]

Empty   == View(None, None, <<>>)
NoSock  == Sock(None, "none", <<>>)
NoFetch == Read(None, "none", None, 0)

Init ==
  /\ FeedInit
  /\ view = Empty
  /\ posting = None /\ stopping = None /\ hook = None
  /\ conn = 0 /\ sock = NoSock /\ timer = None
  /\ fetch = [n \in Conns |-> NoFetch]
  /\ crossed = FALSE /\ overtaken = FALSE /\ missed = FALSE

-----------------------------------------------------------------------------
(* The server's steps and the socket. *)
Subscribed(e) == sock.exec = e /\ sock.at = "open"

Pushed(e) ==
  /\ Broadcast(e)
  /\ sock' = IF Subscribed(e) /\ Announced(e)
             THEN [sock EXCEPT !.net = Append(@, Event(e))] ELSE sock
  /\ UNCHANGED <<store, hook, conn, timer, fetch, bounds, history>>

Works(e) ==
  \/ (Write(e) \/ Cancel(e))
     /\ UNCHANGED <<store, hook, link, fetch, bounds, history>>
  \/ Pushed(e)

\* Another client cancels the execution.
CancelledElsewhere(e) ==
  /\ Fault
  /\ CancelAsked(e)
  /\ UNCHANGED <<store, hook, link, fetch, history>>

\* The server has checked the token: it subscribes the socket and says so.
Subscribe ==
  /\ sock.at = "opening"
  /\ sock' = Sock(sock.exec, "open", <<[kind |-> "subscribed", at |-> 0]>>)
  /\ UNCHANGED <<feed, store, hook, conn, timer, fetch, bounds, history>>

\* The connection breaks, before or after some of what was sent arrived.
Lose ==
  /\ Fault
  /\ sock.at \in {"opening", "open"}
  /\ \E k \in 0 .. Len(sock.net) :
       sock' = Sock(sock.exec, "lost", SubSeq(sock.net, 1, k))
  /\ UNCHANGED <<feed, store, hook, conn, timer, fetch, history>>

-----------------------------------------------------------------------------
(* useExecutionSocket. *)
Cleanup == sock' = NoSock /\ timer' = None /\ UNCHANGED conn

\* Bound: Conns, which are never used up.
Connect(e) ==
  /\ conn + 1 \in Conns
  /\ conn' = conn + 1
  /\ sock' = Sock(e, "opening", <<>>)
  /\ timer' = None

\* Mutant: a cleared store leaves the socket open.
EffectOnlyConnects ==
  /\ hook # view.id
  /\ hook' = view.id
  /\ IF view.id = None THEN UNCHANGED link ELSE Connect(view.id)
  /\ UNCHANGED <<feed, store, fetch, bounds, history>>

\* The effect follows the store's execution.
Effect ==
  /\ hook # view.id
  /\ hook' = view.id
  /\ IF view.id = None THEN Cleanup ELSE Connect(view.id)
  /\ UNCHANGED <<feed, store, fetch, bounds, history>>

Shows(status, lines) == view' = View(view.id, status, lines)

\* onmessage: the acknowledgement starts the backfill.
Acknowledged ==
  /\ sock.net # <<>> /\ Head(sock.net).kind = "subscribed"
  /\ sock' = [sock EXCEPT !.net = Tail(@)]
  /\ fetch' = [fetch EXCEPT ![conn] = Read(sock.exec, "sent", None, 0)]
  /\ UNCHANGED <<feed, store, hook, conn, timer, bounds, history>>

\* Mutant: live lines are dropped until the backfill is there.
LineArrivesAfterBackfill ==
  /\ sock.net # <<>> /\ Head(sock.net).kind = "log"
  /\ IF fetch[conn].at # "none" THEN UNCHANGED view
     ELSE Shows(view.status, Append(view.lines, Line(sock.exec, conn, Head(sock.net).at)))
  /\ sock' = [sock EXCEPT !.net = Tail(@)]
  /\ UNCHANGED <<feed, posting, stopping, hook, conn, timer, fetch, bounds, history>>

LineArrives ==
  /\ sock.net # <<>> /\ Head(sock.net).kind = "log"
  /\ Shows(view.status, Append(view.lines, Line(sock.exec, conn, Head(sock.net).at)))
  /\ sock' = [sock EXCEPT !.net = Tail(@)]
  /\ UNCHANGED <<feed, posting, stopping, hook, conn, timer, fetch, bounds, history>>

\* A status is also a line of the log panel; a final one closes the socket.
StatusArrives ==
  /\ sock.net # <<>>
  /\ LET s == Head(sock.net).kind
     IN  /\ s \in Status
         /\ Shows(s, Append(view.lines, Line(sock.exec, conn, 0)))
         /\ IF s \in Terminal THEN Cleanup
            ELSE sock' = [sock EXCEPT !.net = Tail(@)] /\ UNCHANGED <<conn, timer>>
  /\ UNCHANGED <<feed, posting, stopping, hook, fetch, bounds, history>>

\* The server answers the backfill with the record as it is.
FetchReads(n) ==
  LET e == fetch[n].exec
  IN  /\ fetch[n].at = "sent"
      /\ Exists(e)
      /\ fetch' = [fetch EXCEPT ![n] = Read(e, "read", row[e], logs[e])]
      /\ UNCHANGED <<feed, store, hook, link, bounds, history>>

\* It fails, always when the record is gone: ignored.
FetchFails(n) ==
  LET e == fetch[n].exec
  IN  /\ fetch[n].at = "sent"
      /\ \/ ~ Exists(e) /\ UNCHANGED bounds
         \/ Exists(e) /\ Fault
      /\ fetch' = [fetch EXCEPT ![n] = NoFetch]
      /\ missed' = (missed \/ (e = view.id /\ row[e] \in Terminal))
      /\ UNCHANGED <<feed, store, hook, link, crossed, overtaken>>

\* Mutant: the backfill restores the lines only.
FetchAppliedLines(n) ==
  LET f == fetch[n]
  IN  /\ f.at = "read"
      /\ Shows(view.status,
               IF view.lines = <<>> THEN [i \in 1 .. f.logs |-> Line(f.exec, n, i)]
               ELSE view.lines)
      /\ IF f.status \in Terminal THEN Cleanup ELSE UNCHANGED link
      /\ fetch' = [fetch EXCEPT ![n] = NoFetch]
      /\ crossed' = (crossed \/ (f.exec # view.id))
      /\ UNCHANGED <<feed, posting, stopping, hook, bounds, overtaken, missed>>

\* The answer's status is shown, its lines only if there are none yet; the hook
\* does not ask which execution the view is of by now.
FetchApplied(n) ==
  LET f == fetch[n]
  IN  /\ f.at = "read"
      /\ Shows(IF f.status = "pending" THEN view.status ELSE f.status,
               IF view.lines = <<>> THEN [i \in 1 .. f.logs |-> Line(f.exec, n, i)]
               ELSE view.lines)
      /\ IF f.status \in Terminal THEN Cleanup ELSE UNCHANGED link
      /\ fetch' = [fetch EXCEPT ![n] = NoFetch]
      /\ crossed' = (crossed \/ (f.exec # view.id))
      /\ overtaken' = (overtaken \/ (f.status \in Live /\ view.status \in Terminal))
      /\ UNCHANGED <<feed, posting, stopping, hook, bounds, missed>>

\* Mutant: only a running execution is reconnected to.
ClosedUnlessPending ==
  /\ sock.at = "lost" /\ sock.net = <<>>
  /\ sock' = NoSock
  /\ timer' = IF view.status = "running" THEN sock.exec ELSE timer
  /\ UNCHANGED <<feed, store, hook, conn, fetch, bounds, history>>

\* onclose, when everything that came before was handled.
Closed ==
  /\ sock.at = "lost" /\ sock.net = <<>>
  /\ sock' = NoSock
  /\ timer' = IF view.status \in Live \cup {None} THEN sock.exec ELSE timer
  /\ UNCHANGED <<feed, store, hook, conn, fetch, bounds, history>>

\* Two seconds later.
TimerFires ==
  /\ timer # None
  /\ IF view.id = timer THEN Connect(timer) ELSE timer' = None /\ UNCHANGED <<conn, sock>>
  /\ UNCHANGED <<feed, store, hook, fetch, bounds, history>>

-----------------------------------------------------------------------------
(* The buttons. *)
\* Clear, and what Run does first.
Clear ==
  /\ view.id # None
  /\ view' = Empty
  /\ crossed' = FALSE /\ overtaken' = FALSE /\ missed' = FALSE
  /\ UNCHANGED <<feed, posting, stopping, hook, link, fetch, bounds>>

\* Run of the next execution, from a cleared view.
Run(e) ==
  /\ view.id = None /\ posting = None
  /\ Accept(e)
  /\ posting' = e
  /\ UNCHANGED <<view, stopping, hook, link, fetch, bounds, history>>

\* The answer of the POST.
Started(e) ==
  /\ posting = e
  /\ hook = None
  /\ Answer(e)
  /\ view' = View(e, "pending", <<>>)
  /\ posting' = None
  /\ crossed' = FALSE /\ overtaken' = FALSE /\ missed' = FALSE
  /\ UNCHANGED <<stopping, hook, link, fetch, bounds>>

\* The row was deleted before.
NotStarted(e) ==
  /\ posting = e /\ ~ Exists(e)
  /\ posting' = None
  /\ UNCHANGED <<feed, view, stopping, hook, link, fetch, bounds, history>>

\* Stop shows the outcome at once ...
Stop(e) ==
  /\ view.id = e /\ view.status \in Live /\ stopping = None
  /\ CancelAsked(e)
  /\ view' = View(e, "cancelled", view.lines)
  /\ stopping' = e
  /\ UNCHANGED <<posting, hook, link, fetch, bounds, history>>

\* ... and takes it back when the request fails.
Stopped(e) ==
  /\ stopping = e
  /\ stopping' = None
  /\ \/ cancel[e] = "done" /\ UNCHANGED <<view, bounds, crossed>>
     \/ /\ Fault
        /\ Shows("running", view.lines)
        /\ crossed' = (crossed \/ (view.id # e))
  /\ UNCHANGED <<feed, posting, hook, link, fetch, overtaken, missed>>

-----------------------------------------------------------------------------
Buttons == Clear \/ \E e \in Executions : Run(e) \/ Stop(e) \/ CancelledElsewhere(e)

HookSteps ==
  \/ Subscribe \/ Effect \/ Acknowledged \/ LineArrives \/ StatusArrives
  \/ Closed \/ TimerFires

FetchSteps(n) == FetchReads(n) \/ FetchApplied(n)

AnswerSteps(e) == Started(e) \/ NotStarted(e)

Next ==
  \/ Buttons \/ HookSteps \/ Lose
  \/ \E n \in Conns : FetchSteps(n) \/ FetchFails(n)
  \/ \E e \in Executions : Works(e) \/ AnswerSteps(e) \/ Stopped(e)

Spec == Init /\ [][Next]_vars

\* React runs effects, what was sent arrives, requests are answered, timers fire.
ViewFairness ==
  /\ WF_vars(HookSteps)
  /\ \A n \in Conns : WF_vars(FetchSteps(n))
  /\ \A e \in Executions : WF_vars(AnswerSteps(e))

\* The worker and the server go on.
WorkFairness == \A e \in Executions : WF_vars(Works(e))

FairSpec == Spec /\ ViewFairness /\ WorkFairness

-----------------------------------------------------------------------------
(* Properties. *)
Lines == [exec : Executions, conn : Conns, at : 0 .. MaxLogs]

Nets == [kind : Writes \cup {"subscribed"}, at : 0 .. MaxLogs]

TypeOK ==
  /\ BoundsOK /\ FeedTypeOK
  /\ view \in [id : Ids, status : Status \cup {None}, lines : Seq(Lines)]
  /\ posting \in Ids /\ stopping \in Ids /\ hook \in Ids
  /\ conn \in 0 .. MaxExecutions + MaxFaults
  /\ sock \in [exec : Ids, at : {"none", "opening", "open", "lost"}, net : Seq(Nets)]
  /\ timer \in Ids
  /\ fetch \in [Conns -> [exec : Ids, at : {"none", "sent", "read"},
                          status : Status \cup {None}, logs : 0 .. MaxLogs]]
  /\ crossed \in BOOLEAN /\ overtaken \in BOOLEAN /\ missed \in BOOLEAN

\* Every line in the view of an execution is one of its own, unless an answer
\* for another execution came after the switch.
OwnLines ==
  view.id # None /\ ~ crossed => \A i \in DOMAIN view.lines : view.lines[i].exec = view.id

\* The hook follows the store: no socket and no timer of an execution that was
\* left, and Stop is under way only for an execution whose DELETE was sent.
HookFollows ==
  /\ view.id # None => hook \in {None, view.id} /\ view.status # None
  /\ sock.at = "none" => sock = NoSock
  /\ sock.at # "none" => hook # None /\ sock.exec = hook /\ conn > 0
  /\ timer \in {None, hook}
  /\ stopping # None => cancel[stopping] # "no"
  /\ \A n \in Conns : /\ fetch[n].at # "none" => fetch[n].exec # None
                      /\ fetch[n].at = "read" => fetch[n].status # None

\* While the view says that the execution goes on there is a socket or a timer
\* that will open one, for it and no other.
NeverDeaf ==
  /\ view.id # None
  /\ hook = view.id
  /\ view.status \in Live
  /\ ~ crossed /\ ~ overtaken
  /\ cancel[view.id] = "no"
  => (sock.exec = view.id \/ timer = view.id)

\* The inductive invariant.
EditorInvariant == TypeOK /\ HookFollows /\ OwnLines /\ NeverDeaf

\* A view that starts with the backfilled lines of a socket shows all the lines
\* up to the latest that came over it: the subscription is made before the read.
BackfillLeavesNoGap ==
  LET lines == view.lines
      of(n) == {i \in DOMAIN lines : lines[i].conn = n /\ lines[i].at > 0}
  IN  view.id # None /\ lines # <<>> =>
        (lines[1].at = 1 =>
           \A i \in of(lines[1].conn) :
             \A k \in 1 .. lines[i].at : \E j \in of(lines[1].conn) : lines[j].at = k)

\* The view comes to show how the execution ended, and goes on showing it: the
\* backfill makes up for events broadcast before the subscription and for lost
\* sockets.  Not so when the execution is cancelled (nothing is broadcast), the
\* backfill fails after the end, or an old answer is applied late.
ShowsTheEnd ==
  \A e \in Executions :
    (view.id = e /\ row[e] \in Terminal)
      ~> [](\/ view.id # e \/ view.status = row[e]
            \/ cancel[e] # "no" \/ crossed \/ overtaken \/ missed)
=============================================================================
