--------------------------- MODULE ExecutionWatch ---------------------------
(***************************************************************************)
(* A call of the Node SDK's triggerAndWait: it starts an execution, then   *)
(* watchExecution follows it over a socket until the final event, the loss *)
(* of the socket or the deadline.                                          *)
(*                                                                         *)
(* The generator and the socket's handlers are one thread: the handlers    *)
(* run while the generator is suspended (for the opening, at a yield, in   *)
(* the race of notify and deadline).  The opening has no deadline in the   *)
(* code; it succeeds or fails.                                             *)
(***************************************************************************)
EXTENDS ExecutionFeed, Sequences

VARIABLES
  call,   \* the call: where it is, its execution and what it returns
  pipe,   \* the socket and what is under way to the client
  queue,  \* queue and done of watchExecution
  done,
  late    \* the deadline has passed

client    == <<call, pipe, queue, done, late>>
watchVars == <<feed, client, bounds>>

Call(at, e, result) == [at |-> at, exec |-> e, result |-> result]
Pipe(at, net)       == [at |-> at, net |-> net]

NoPipe == Pipe("none", <<>>)

WatchInit ==
  /\ FeedInit
  /\ call = Call("idle", 1, "none")
  /\ pipe = NoPipe
  /\ queue = <<>> /\ done = FALSE /\ late = FALSE

Goes(at)    == call' = Call(at, call.exec, "none")
End(result) == call' = Call("over", call.exec, result) /\ pipe' = NoPipe

-----------------------------------------------------------------------------
(* The call and the server. *)
Trigger(e) ==
  /\ call.at = "idle" /\ call.exec = e
  /\ Accept(e)
  /\ Goes("triggering")
  /\ UNCHANGED <<pipe, queue, done, late, bounds>>

Triggered ==
  /\ call.at = "triggering"
  /\ Answer(call.exec)
  /\ Goes("opening")
  /\ pipe' = Pipe("connecting", <<>>)
  /\ UNCHANGED <<queue, done, late, bounds>>

\* The row was deleted before.
TriggerFails ==
  /\ call.at = "triggering" /\ ~ Exists(call.exec)
  /\ End("error")
  /\ UNCHANGED <<feed, queue, done, late, bounds>>

\* The upgrade is answered before the token is checked.
Upgraded ==
  /\ pipe.at = "connecting"
  /\ pipe' = Pipe("checking", <<"open">>)
  /\ UNCHANGED <<feed, call, queue, done, late, bounds>>

Subscribed ==
  /\ pipe.at = "checking"
  /\ pipe' = Pipe("subscribed", Append(pipe.net, "subscribed"))
  /\ UNCHANGED <<feed, call, queue, done, late, bounds>>

Pushed(e) ==
  /\ Broadcast(e)
  /\ pipe' = IF pipe.at = "subscribed" /\ e = call.exec /\ Announced(e)
             THEN [pipe EXCEPT !.net = Append(@, Event(e).kind)] ELSE pipe
  /\ UNCHANGED <<call, queue, done, late, bounds>>

Works(e) ==
  \/ (Write(e) \/ Cancel(e)) /\ UNCHANGED <<client, bounds>>
  \/ Pushed(e)

CancelledElsewhere(e) == CancelAsked(e) /\ UNCHANGED <<client, bounds>>

Lose ==
  /\ Fault
  /\ pipe.at \in {"connecting", "checking", "subscribed"}
  /\ \E k \in 0 .. Len(pipe.net) : pipe' = Pipe("lost", SubSeq(pipe.net, 1, k))
  /\ UNCHANGED <<feed, call, queue, done, late>>

-----------------------------------------------------------------------------
(* The socket's handlers. *)
Notify == IF call.at = "waiting" THEN Goes("woken") ELSE UNCHANGED call

Opened ==
  /\ pipe.net # <<>> /\ Head(pipe.net) = "open"
  /\ Goes("looping")
  /\ pipe' = [pipe EXCEPT !.net = Tail(@)]
  /\ UNCHANGED <<feed, queue, done, late, bounds>>

\* Mutant: a message does not wake the generator.
MessageUnnotified ==
  /\ pipe.net # <<>> /\ Head(pipe.net) # "open"
  /\ queue' = Append(queue, Head(pipe.net))
  /\ done' = (done \/ Head(pipe.net) \in Terminal)
  /\ pipe' = [pipe EXCEPT !.net = Tail(@)]
  /\ UNCHANGED <<feed, call, late, bounds>>

Message ==
  /\ pipe.net # <<>> /\ Head(pipe.net) # "open"
  /\ queue' = Append(queue, Head(pipe.net))
  /\ done' = (done \/ Head(pipe.net) \in Terminal)
  /\ Notify
  /\ pipe' = [pipe EXCEPT !.net = Tail(@)]
  /\ UNCHANGED <<feed, late, bounds>>

\* "close", after everything that came before; a socket that did not open fails.
Closed ==
  /\ pipe.at = "lost" /\ pipe.net = <<>>
  /\ done' = TRUE
  /\ IF call.at = "opening" THEN End("error") ELSE Notify /\ pipe' = NoPipe
  /\ UNCHANGED <<feed, queue, late, bounds>>

-----------------------------------------------------------------------------
(* The generator. *)
\* Mutant: done ends the loop before the queue is empty.
TakeUnlessDone ==
  /\ call.at = "looping" /\ queue # <<>>
  /\ LET event == Head(queue)
     IN  CASE done                -> End("timeout")
           [] event = "subscribed" -> UNCHANGED <<call, pipe>>
           [] event \in Terminal   -> End(event)
           [] OTHER                -> Goes("yielded") /\ UNCHANGED pipe
  /\ queue' = Tail(queue)
  /\ UNCHANGED <<feed, done, late, bounds>>

\* The acknowledgement is skipped, a final event is the last.
Take ==
  /\ call.at = "looping" /\ queue # <<>>
  /\ LET event == Head(queue)
     IN  CASE event = "subscribed" -> UNCHANGED <<call, pipe>>
           [] event \in Terminal   -> End(event)
           [] OTHER                -> Goes("yielded") /\ UNCHANGED pipe
  /\ queue' = Tail(queue)
  /\ UNCHANGED <<feed, done, late, bounds>>

\* The caller asks for the next event.
Resume ==
  /\ call.at \in {"yielded", "woken"}
  /\ Goes("looping")
  /\ UNCHANGED <<feed, pipe, queue, done, late, bounds>>

\* The socket is gone: its error, or what triggerAndWait makes of a watch
\* without a final event.
GivesUp ==
  /\ call.at = "looping" /\ queue = <<>> /\ done
  /\ End("timeout") \/ End("error")
  /\ UNCHANGED <<feed, queue, done, late, bounds>>

Wait ==
  /\ call.at = "looping" /\ queue = <<>> /\ ~ done
  /\ IF late THEN End("timeout") ELSE Goes("waiting") /\ UNCHANGED pipe
  /\ UNCHANGED <<feed, queue, done, late, bounds>>

\* Mutant: the deadline is looked at before each wait only.
TimeUpUnheard ==
  /\ call.at \in {"looping", "yielded", "waiting", "woken"} /\ ~ late
  /\ late' = TRUE
  /\ UNCHANGED <<feed, call, pipe, queue, done, bounds>>

\* The deadline counts from the opening, and ends a wait that was not woken.
TimeUp ==
  /\ call.at \in {"looping", "yielded", "waiting", "woken"} /\ ~ late
  /\ late' = TRUE
  /\ IF call.at = "waiting" THEN End("timeout") ELSE UNCHANGED <<call, pipe>>
  /\ UNCHANGED <<feed, queue, done, bounds>>

-----------------------------------------------------------------------------
Connection == Triggered \/ TriggerFails \/ Upgraded \/ Subscribed

Client == Opened \/ Message \/ Closed \/ Take \/ Resume \/ GivesUp \/ Wait

WatchNext ==
  \/ Connection \/ Client \/ TimeUp \/ Lose
  \/ \E e \in Executions : Trigger(e) \/ Works(e) \/ CancelledElsewhere(e)

WatchSpec == WatchInit /\ [][WatchNext]_watchVars

\* The connection is made or fails, Node runs the handlers, the caller goes on
\* asking and time passes.  Of the worker nothing is assumed.
WatchFairness ==
  WF_watchVars(Connection) /\ WF_watchVars(Client) /\ WF_watchVars(TimeUp)

-----------------------------------------------------------------------------
(* Properties. *)
\* A generator that waits unwoken has nothing to hand out and may go on waiting.
NoLostWakeup == call.at = "waiting" => queue = <<>> /\ ~ done

\* What the call returns is what the worker wrote; it gives up only when the
\* time is up or the socket was lost.
ReturnExplained ==
  call.at = "over" =>
    /\ call.result \in Terminal => pen[call.exec].what = call.result
    /\ call.result = "timeout" => late \/ faults > 0

\* Every call returns, whatever becomes of the execution.
CallReturns == call.at = "triggering" ~> call.at = "over"
=============================================================================
