----------------------- MODULE ExecutionClientsProofs -----------------------
(***************************************************************************)
(* Proofs about an execution's clients.  EditorInvariant is what the       *)
(* editor's hook and store agree on, LinesInvariant how the log lines go   *)
(* from the worker over a socket, or over a backfill, into the view, and   *)
(* WatchInvariant what the SDK's call knows of the worker.  Together they  *)
(* are inductive, and every safety property of ExecutionClients follows.   *)
(***************************************************************************)
EXTENDS ExecutionClients, SequenceTheorems, TLAPS

-----------------------------------------------------------------------------
(* The inductive invariants. *)
\* The event of the latest log line is still to come.
Sent(e) == IF pen[e] = Pen("written", "log") THEN logs[e] - 1 ELSE logs[e]

\* What the worker has written was written to a row.
WritesToRows ==
  \A e \in Executions : /\ pen[e].at = "written" => row[e] # "none"
                        /\ pen[e] = Pen("written", "log") => logs[e] > 0

\* The log events of a net, those before a place, and the numbers they skip.
LogsIn(net) == {i \in DOMAIN net : net[i].kind = "log"}

Has(net, k, n) == \E j \in LogsIn(net) : j < n /\ net[j].at = k

\* From a number on no log event comes before the one of the number before it.
NoGap(net, from) == \A i \in LogsIn(net) : \A k \in from .. net[i].at - 1 : Has(net, k, i)

Reaches(net, from, last) == \A k \in from .. last : Has(net, k, Len(net) + 1)

InOrder(net) ==
  \A i \in LogsIn(net) :
    /\ net[i].at > 0 /\ NoGap(net, net[i].at)
    /\ \A j \in LogsIn(net) : j < i => net[j].at < net[i].at

\* The subscriber is told of the log lines to come.
Listening == sock.at = "open" /\ row[sock.exec] # "deleted"

\* The lines from a number on come over the socket, one after the other.
Continues(from) ==
  NoGap(sock.net, from) /\ (Listening => Reaches(sock.net, from, Sent(sock.exec)))

\* What is on its way over the socket is in order and without gaps.
NetInOrder ==
  /\ InOrder(sock.net)
  /\ \A i \in LogsIn(sock.net) :
       /\ sock.net[i].at <= Sent(sock.exec)
       /\ Listening => Reaches(sock.net, sock.net[i].at, Sent(sock.exec))
  /\ sock.at \in {"none", "opening"} => sock.net = <<>>

\* Lines and backfills are of the sockets so far, and a socket that is not
\* open yet has none.
OfSockets ==
  /\ \A n \in Conns : fetch[n].at # "none" => n <= conn
  /\ \A i \in DOMAIN view.lines : view.lines[i].conn <= conn
  /\ sock.at = "opening" =>
       fetch[conn].at = "none" /\ \A i \in DOMAIN view.lines : view.lines[i].conn # conn
  /\ sock.at # "none" /\ fetch[conn].at # "none" => fetch[conn].exec = sock.exec

\* The numbers of the lines that came over a socket.
Shown(lines, n) == {lines[i].at : i \in {j \in DOMAIN lines : lines[j].conn = n}} \ {0}

\* A backfill that is to fill an empty view is continued by the socket ...
BackfillContinues ==
  view.id # None /\ view.lines = <<>> /\ sock.at # "none" /\ fetch[conn].at = "read"
    => Continues(fetch[conn].logs + 1)

\* ... and so is a view that starts with the first line of the socket.
ViewContinues ==
  view.id # None /\ view.lines # <<>> /\ view.lines[1].at = 1 =>
    \E m \in 0 .. MaxLogs : /\ Shown(view.lines, view.lines[1].conn) = 1 .. m
                            /\ view.lines[1].conn = conn => Continues(m + 1)

LinesInvariant ==
  WritesToRows /\ NetInOrder /\ OfSockets /\ BackfillContinues /\ ViewContinues

\* The events of a final status in a sequence, and the latest write they are of.
HasFinal(events) == \E i \in DOMAIN events : events[i] \in Terminal

OfWrite(events, what) == \A i \in DOMAIN events : events[i] \in Terminal => events[i] = what

Kinds == Writes \cup {"open", "subscribed"}

WatchTypes ==
  /\ BoundsOK /\ FeedTypeOK
  /\ call \in [at : {"idle", "triggering", "opening", "looping", "yielded", "waiting",
                     "woken", "over"},
               exec : {1}, result : Terminal \cup {"none", "error", "timeout"}]
  /\ pipe \in [at : {"none", "connecting", "checking", "subscribed", "lost"}, net : Seq(Kinds)]
  /\ queue \in Seq(Kinds) /\ done \in BOOLEAN /\ late \in BOOLEAN

\* What is on its way to the call, or waits in its queue, is what the worker
\* wrote; without a final event only a lost socket makes the watch done.
WatchesTheWorker ==
  /\ call.at # "idle" => call.exec \in Executions
  /\ call.at \in {"idle", "over"} => pipe = Sdk!NoPipe
  /\ call.at = "idle" => queue = <<>> /\ ~ done
  /\ OfWrite(pipe.net, pen[call.exec].what) /\ OfWrite(queue, pen[call.exec].what)
  /\ done /\ call.at # "over" => faults > 0 \/ HasFinal(queue)
  /\ pipe.at = "lost" => faults > 0

WatchInvariant == WatchTypes /\ WatchesTheWorker /\ NoLostWakeup /\ ReturnExplained

\* Of the two clients one is at rest.
ClientsInvariant ==
  /\ side = "editor" => EditorInvariant /\ LinesInvariant /\ call.at = "idle" /\ WatchInvariant
  /\ side = "sdk" => WatchInvariant /\ view.id = None
  /\ side \in {"editor", "sdk"}

-----------------------------------------------------------------------------
(* Sequences of events. *)
\* The rest of a sequence goes on after what its head was.
LEMMA TailGoesOn ==
  ASSUME NEW net \in Seq(Nets), net # <<>>, NEW from \in Nat, NEW next \in Nat, from <= next,
         Head(net).kind = "log" => Head(net).at < next
  PROVE  /\ NoGap(net, from) => NoGap(Tail(net), next)
         /\ \A last \in Int : Reaches(net, from, last) => Reaches(Tail(net), next, last)
<1>1. /\ Tail(net) \in Seq(Nets) /\ Len(Tail(net)) = Len(net) - 1
      /\ \A i \in 1 .. Len(net) - 1 : Tail(net)[i] = net[i + 1]
      /\ Head(net) = net[1] /\ Len(net) \in Nat \ {0} /\ DOMAIN net = 1 .. Len(net)
      /\ DOMAIN Tail(net) = 1 .. Len(net) - 1
  OBVIOUS
<1> DEFINE rest == Tail(net)
<1>2. \A i \in LogsIn(net) : net[i].at \in Nat /\ i \in 1 .. Len(net)
  <2>1. \A i \in DOMAIN net : net[i] \in Nets
    OBVIOUS
  <2>2. \A event \in Nets : event.at \in Nat
    BY BoundsAssumption DEF Nets
  <2> QED  BY <1>1, <2>1, <2>2 DEF LogsIn
<1>3. LogsIn(rest) = {i \in 1 .. Len(net) - 1 : i + 1 \in LogsIn(net)}
  BY <1>1 DEF LogsIn
<1>4. \A i \in LogsIn(rest) : i + 1 \in LogsIn(net) /\ rest[i] = net[i + 1] /\ i \in Nat
  BY <1>1, <1>3
<1>5. ASSUME NEW k \in Nat, k >= next, NEW n \in Nat, Has(net, k, n + 1)
      PROVE  Has(rest, k, n)
  <2>1. PICK j \in LogsIn(net) : j < n + 1 /\ net[j].at = k
    BY <1>5 DEF Has
  <2>2. j # 1
    BY <1>1, <1>5, <2>1 DEF LogsIn
  <2>3. j \in 2 .. Len(net)
    BY <1>2, <2>1, <2>2
  <2>4. j - 1 \in LogsIn(rest) /\ rest[j - 1].at = k /\ j - 1 < n
    BY <1>1, <1>3, <1>5, <2>1, <2>3
  <2> QED  BY <2>4 DEF Has
<1> HIDE DEF rest
<1>6. ASSUME NoGap(net, from)
      PROVE  NoGap(rest, next)
  <2> SUFFICES ASSUME NEW i \in LogsIn(rest), NEW k \in next .. rest[i].at - 1
               PROVE  Has(rest, k, i)
    BY DEF NoGap
  <2>1. i + 1 \in LogsIn(net) /\ rest[i].at = net[i + 1].at /\ net[i + 1].at \in Nat /\ i \in Nat
    BY <1>2, <1>4
  <2>2. k \in Nat /\ k >= next /\ k \in from .. net[i + 1].at - 1
    BY <2>1
  <2>3. Has(net, k, i + 1)
    BY <1>6, <2>1, <2>2 DEF NoGap
  <2> QED  BY <1>5, <2>1, <2>2, <2>3
<1>7. ASSUME NEW last \in Int, Reaches(net, from, last)
      PROVE  Reaches(rest, next, last)
  <2> SUFFICES ASSUME NEW k \in next .. last
               PROVE  Has(rest, k, Len(rest) + 1)
    BY DEF Reaches
  <2>1. k \in Nat /\ k >= next /\ k \in from .. last
    OBVIOUS
  <2>2. Has(net, k, Len(net) + 1)
    BY <1>7, <2>1 DEF Reaches
  <2>3. Len(rest) + 1 \in Nat /\ Len(net) + 1 = (Len(rest) + 1) + 1
    BY <1>1 DEF rest
  <2>4. Has(net, k, (Len(rest) + 1) + 1)
    BY <2>2, <2>3
  <2> QED  BY <1>5, <2>1, <2>3, <2>4
<1> QED  BY <1>6, <1>7 DEF rest

\* What was sent first goes on as all of it does.
LEMMA PrefixGoesOn ==
  ASSUME NEW net \in Seq(Nets), NEW n \in 0 .. Len(net), NEW from \in Nat, NoGap(net, from)
  PROVE  NoGap(SubSeq(net, 1, n), from)
<1> DEFINE some == SubSeq(net, 1, n)
<1>1. /\ DOMAIN some = 1 .. n /\ DOMAIN net = 1 .. Len(net) /\ Len(net) \in Nat
      /\ \A i \in 1 .. n : some[i] = net[i]
  OBVIOUS
<1> HIDE DEF some
<1>2. \A i \in LogsIn(some) : i \in LogsIn(net) /\ some[i] = net[i] /\ i \in 1 .. n
  BY <1>1 DEF LogsIn
<1>3. \A i \in LogsIn(some), k \in Int : Has(net, k, i) => Has(some, k, i)
  BY <1>1, <1>2 DEF Has, LogsIn
<1>4. NoGap(some, from)
  BY <1>2, <1>3 DEF NoGap
<1> QED  BY <1>4 DEF some

\* An event that is the next one is added without a gap; another leaves none.
LEMMA AppendGoesOn ==
  ASSUME NEW net \in Seq(Nets), NEW event \in Nets, NEW from \in Nat, NoGap(net, from)
  PROVE  /\ event.kind # "log" => NoGap(Append(net, event), from)
         /\ Reaches(net, from, event.at - 1) => NoGap(Append(net, event), from)
         /\ \A last \in Int : Reaches(net, from, last) => Reaches(Append(net, event), from, last)
         /\ event.kind = "log" /\ Reaches(net, from, event.at - 1) =>
              Reaches(Append(net, event), from, event.at)
<1> DEFINE more == Append(net, event)
<1>1. /\ more \in Seq(Nets) /\ DOMAIN more = 1 .. Len(net) + 1 /\ DOMAIN net = 1 .. Len(net)
      /\ Len(more) = Len(net) + 1 /\ Len(net) \in Nat
      /\ \A i \in 1 .. Len(net) : more[i] = net[i]
      /\ more[Len(net) + 1] = event
  OBVIOUS
<1> HIDE DEF more
<1>2. /\ \A i \in LogsIn(net) : i \in LogsIn(more) /\ more[i] = net[i] /\ i \in 1 .. Len(net)
      /\ \A i \in LogsIn(more) : i \in LogsIn(net) \/ (i = Len(net) + 1 /\ event.kind = "log")
      /\ event.kind = "log" => Len(net) + 1 \in LogsIn(more)
  BY <1>1 DEF LogsIn
<1>3. \A n \in Nat, k \in Int : Has(net, k, n) => Has(more, k, n)
  BY <1>2 DEF Has
<1>4. event.at \in Nat
  BY BoundsAssumption DEF Nets
<1>5. ASSUME event.kind # "log" \/ Reaches(net, from, event.at - 1)
      PROVE  NoGap(more, from)
  <2> SUFFICES ASSUME NEW i \in LogsIn(more), NEW k \in from .. more[i].at - 1
               PROVE  Has(more, k, i)
    BY DEF NoGap
  <2>1. CASE i \in LogsIn(net)
    BY <1>2, <1>3, <2>1 DEF NoGap
  <2>2. CASE i = Len(net) + 1 /\ event.kind = "log"
    <3>1. k \in from .. event.at - 1 /\ Len(net) + 1 \in Nat
      BY <1>1, <2>2
    <3>2. Has(net, k, Len(net) + 1)
      BY <1>5, <2>2, <3>1 DEF Reaches
    <3> QED  BY <1>3, <2>2, <3>1, <3>2
  <2> QED  BY <1>2, <2>1, <2>2
<1>6. ASSUME NEW last \in Int, Reaches(net, from, last)
      PROVE  Reaches(more, from, last)
  <2>1. \A k \in Int : Has(net, k, Len(net) + 1) => Has(more, k, Len(more) + 1)
    BY <1>1, <1>2 DEF Has
  <2> QED  BY <1>6, <2>1 DEF Reaches
<1>7. ASSUME event.kind = "log", Reaches(net, from, event.at - 1)
      PROVE  Reaches(more, from, event.at)
  <2>1. Reaches(more, from, event.at - 1)
    BY <1>4, <1>6, <1>7
  <2>2. Has(more, event.at, Len(more) + 1)
    BY <1>1, <1>2, <1>7 DEF Has
  <2>3. \A k \in from .. event.at : k \in from .. event.at - 1 \/ k = event.at
    BY <1>4
  <2> QED  BY <2>1, <2>2, <2>3 DEF Reaches
<1> QED  BY <1>5, <1>6, <1>7 DEF more

\* Events in order stay so when the first is taken, the last are lost or one follows.
LEMMA TailInOrder ==
  ASSUME NEW net \in Seq(Nets), net # <<>>, InOrder(net)
  PROVE  /\ InOrder(Tail(net))
         /\ \A i \in LogsIn(Tail(net)) :
              /\ i + 1 \in LogsIn(net) /\ Tail(net)[i] = net[i + 1] /\ net[i + 1].at \in Nat
              /\ Head(net).kind = "log" => Head(net).at < net[i + 1].at
<1> DEFINE rest == Tail(net)
<1>1. /\ DOMAIN rest = 1 .. Len(net) - 1 /\ DOMAIN net = 1 .. Len(net)
      /\ Head(net) = net[1] /\ Len(net) \in Nat \ {0}
      /\ \A i \in 1 .. Len(net) - 1 : rest[i] = net[i + 1]
      /\ \A i \in 1 .. Len(net) : net[i] \in Nets
  OBVIOUS
<1> HIDE DEF rest
<1>2. \A event \in Nets : event.at \in Nat
  BY BoundsAssumption DEF Nets
<1>3. \A i \in LogsIn(rest) :
        /\ i + 1 \in LogsIn(net) /\ rest[i] = net[i + 1] /\ net[i + 1].at \in Nat /\ i \in Nat \ {0}
        /\ Head(net).kind = "log" => Head(net).at < net[i + 1].at
  <2>1. \A i \in LogsIn(rest) : i + 1 \in LogsIn(net) /\ rest[i] = net[i + 1] /\ i \in 1 .. Len(net) - 1
    BY <1>1 DEF LogsIn
  <2>2. Head(net).kind = "log" => 1 \in LogsIn(net)
    BY <1>1 DEF LogsIn
  <2> QED  BY <1>1, <1>2, <2>1, <2>2 DEF InOrder
<1>4. ASSUME NEW i \in LogsIn(rest)
      PROVE  /\ rest[i].at > 0 /\ NoGap(rest, rest[i].at)
             /\ \A j \in LogsIn(rest) : j < i => rest[j].at < rest[i].at
  <2>1. i + 1 \in LogsIn(net) /\ rest[i].at = net[i + 1].at /\ net[i + 1].at \in Nat
    BY <1>3
  <2>2. NoGap(net, net[i + 1].at) /\ net[i + 1].at > 0
    BY <2>1 DEF InOrder
  <2>3. NoGap(rest, net[i + 1].at)
    BY <1>3, <2>1, <2>2, TailGoesOn DEF rest
  <2>4. \A j \in LogsIn(rest) : j < i => rest[j].at < rest[i].at
    BY <1>3, <2>1 DEF InOrder
  <2> QED  BY <2>1, <2>2, <2>3, <2>4
<1>5. InOrder(rest)
  BY <1>4 DEF InOrder
<1> QED  BY <1>3, <1>5 DEF rest

LEMMA PrefixInOrder ==
  ASSUME NEW net \in Seq(Nets), NEW n \in 0 .. Len(net), InOrder(net)
  PROVE  InOrder(SubSeq(net, 1, n))
<1> DEFINE some == SubSeq(net, 1, n)
<1>1. /\ DOMAIN some = 1 .. n /\ DOMAIN net = 1 .. Len(net) /\ Len(net) \in Nat
      /\ \A i \in 1 .. n : some[i] = net[i]
      /\ \A i \in 1 .. Len(net) : net[i] \in Nets
  OBVIOUS
<1> HIDE DEF some
<1>2. \A event \in Nets : event.at \in Nat
  BY BoundsAssumption DEF Nets
<1>3. \A i \in LogsIn(some) : i \in LogsIn(net) /\ some[i] = net[i] /\ net[i].at \in Nat
  BY <1>1, <1>2 DEF LogsIn
<1>4. \A i \in LogsIn(net) : NoGap(net, net[i].at) /\ net[i].at \in Nat => NoGap(some, net[i].at)
  BY PrefixGoesOn DEF some
<1> QED  BY <1>3, <1>4 DEF InOrder, some

LEMMA AppendInOrder ==
  ASSUME NEW net \in Seq(Nets), NEW event \in Nets, InOrder(net),
         event.kind = "log" =>
           /\ event.at > 0
           /\ \A i \in LogsIn(net) : net[i].at < event.at /\ Reaches(net, net[i].at, event.at - 1)
  PROVE  /\ InOrder(Append(net, event))
         /\ \A i \in LogsIn(Append(net, event)) :
              \/ i \in LogsIn(net) /\ Append(net, event)[i] = net[i]
              \/ i = Len(net) + 1 /\ event.kind = "log" /\ Append(net, event)[i] = event
<1> DEFINE more == Append(net, event)
<1>1. /\ DOMAIN more = 1 .. Len(net) + 1 /\ DOMAIN net = 1 .. Len(net) /\ Len(net) \in Nat
      /\ \A i \in 1 .. Len(net) : more[i] = net[i]
      /\ \A i \in 1 .. Len(net) : net[i] \in Nets
      /\ more[Len(net) + 1] = event
  OBVIOUS
<1> HIDE DEF more
<1>2. \A e \in Nets : e.at \in Nat
  BY BoundsAssumption DEF Nets
<1>3. \A i \in LogsIn(more) :
        \/ i \in LogsIn(net) /\ more[i] = net[i] /\ net[i].at \in Nat /\ i \in 1 .. Len(net)
        \/ i = Len(net) + 1 /\ event.kind = "log" /\ more[i] = event
  BY <1>1, <1>2 DEF LogsIn
<1>4. ASSUME NEW i \in LogsIn(more)
      PROVE  /\ more[i].at > 0 /\ NoGap(more, more[i].at)
             /\ \A j \in LogsIn(more) : j < i => more[j].at < more[i].at
  <2>1. CASE i \in LogsIn(net) /\ more[i] = net[i] /\ net[i].at \in Nat /\ i \in 1 .. Len(net)
    <3>1. NoGap(net, net[i].at)
      BY <2>1 DEF InOrder
    <3>2. event.kind # "log" \/ Reaches(net, net[i].at, event.at - 1)
      BY <2>1
    <3>3. NoGap(more, net[i].at)
      BY <2>1, <3>1, <3>2, AppendGoesOn DEF more
    <3>4. \A j \in LogsIn(more) : j < i => j \in LogsIn(net) /\ more[j] = net[j]
      BY <1>1, <1>3, <2>1
    <3> QED  BY <2>1, <3>3, <3>4 DEF InOrder
  <2>2. CASE i = Len(net) + 1 /\ event.kind = "log" /\ more[i] = event
    <3>1. \A j \in LogsIn(more) : j < i => j \in LogsIn(net) /\ more[j] = net[j]
      BY <1>1, <1>3, <2>2
    <3>2. NoGap(more, event.at)
      <4> SUFFICES ASSUME NEW j \in LogsIn(more), NEW k \in event.at .. more[j].at - 1
                   PROVE  FALSE
        BY DEF NoGap
      <4>1. more[j].at <= event.at /\ more[j].at \in Nat /\ event.at \in Nat
        BY <1>2, <1>3, <2>2
      <4> QED  BY <4>1
    <3> QED  BY <2>2, <3>1, <3>2
  <2> QED  BY <1>3, <2>1, <2>2
<1>5. InOrder(more)
  BY <1>4 DEF InOrder
<1> QED  BY <1>3, <1>5 DEF more

-----------------------------------------------------------------------------
(* The server's part. *)
CancelStays == \A e \in Executions : cancel'[e] = "no" => cancel[e] = "no"

\* The server's steps keep its types and never forget a DELETE.
LEMMA FeedSteps ==
  ASSUME NEW e \in Executions, BoundsOK, FeedTypeOK,
         \/ Accept(e) \/ Answer(e) \/ Write(e) \/ Broadcast(e)
         \/ CancelAsked(e) \/ Cancel(e)
  PROVE  FeedTypeOK' /\ CancelStays
<1> USE DEF FeedTypeOK, CancelStays, records
<1>1. CASE Accept(e)
  BY <1>1 DEF Accept, Status
<1>2. CASE Answer(e)
  BY <1>2 DEF Answer, Status
<1>3. CASE Write(e)
  <2>1. PICK w \in NextWrites(e) :
          \/ /\ Exists(e)
             /\ row' = [row EXCEPT ![e] = IF w = "log" THEN @ ELSE w]
             /\ logs' = [logs EXCEPT ![e] = IF w = "log" THEN @ + 1 ELSE @]
             /\ pen' = [pen EXCEPT ![e] = Pen("written", w)]
          \/ /\ ~ Exists(e)
             /\ pen' = [pen EXCEPT ![e] = Pen("idle", w)]
             /\ UNCHANGED records
    BY <1>3 DEF Write
  <2>2. w \in Writes /\ (w = "log" => logs[e] < MaxLogs) /\ (w # "log" => w \in Status)
    BY <2>1, BoundsAssumption, OutcomesAssumption
    DEF NextWrites, BoundsOK, Writes, Status, Terminal
  <2>3. UNCHANGED <<answered, cancel, told>>
    BY <1>3 DEF Write
  <2>4. pen' \in [Executions -> [at : {"idle", "written"}, what : Writes \cup {"nothing"}]]
    BY <2>1, <2>2 DEF Pen
  <2>5. row' \in [Executions -> Status \cup {"none", "deleted"}]
    BY <2>1, <2>2
  <2>6. logs' \in [Executions -> 0 .. MaxLogs]
    BY <2>1, <2>2, BoundsAssumption
  <2>7. \A d \in Executions : pen'[d].at = "written" => pen'[d].what \in Writes
    BY <2>1, <2>2 DEF Pen
  <2> QED BY <2>3, <2>4, <2>5, <2>6, <2>7
<1>4. CASE Broadcast(e)
  BY <1>4 DEF Broadcast, Pen
<1>5. CASE CancelAsked(e)
  BY <1>5 DEF CancelAsked
<1>6. CASE Cancel(e)
  BY <1>6 DEF Cancel, Status, Terminal
<1> QED BY <1>1, <1>2, <1>3, <1>4, <1>5, <1>6

\* A fault is within the bounds.
LEMMA FaultKeepsBounds ==
  ASSUME BoundsOK, Fault \/ UNCHANGED bounds
  PROVE  BoundsOK'
<1>1. budget \in [executions : 0 .. MaxExecutions, logs : 0 .. MaxLogs, faults : 0 .. MaxFaults]
  BY BoundsAssumption DEF BoundsOK
<1> QED BY <1>1, BoundsAssumption DEF BoundsOK, Fault, bounds

-----------------------------------------------------------------------------
(* The steps of the view. *)
\* A step of the server or of another client leaves the view as it is.
LEMMA ServerSteps ==
  ASSUME EditorInvariant, BoundsOK', FeedTypeOK', CancelStays,
         UNCHANGED <<store, hook, link, fetch, history>>
  PROVE  EditorInvariant'
<1> USE DEF store, link, history
<1>1. TypeOK'
  BY DEF EditorInvariant, TypeOK
<1>2. HookFollows'
  <2>1. stopping # None => cancel'[stopping] # "no"
    BY DEF EditorInvariant, TypeOK, HookFollows, CancelStays, Ids
  <2> QED BY <2>1 DEF EditorInvariant, HookFollows
<1>3. OwnLines'
  BY DEF EditorInvariant, OwnLines
<1>4. NeverDeaf'
  <2>1. view.id # None => (cancel'[view.id] = "no" => cancel[view.id] = "no")
    BY DEF EditorInvariant, TypeOK, CancelStays, Ids
  <2> QED BY <2>1 DEF EditorInvariant, NeverDeaf
<1> QED BY <1>1, <1>2, <1>3, <1>4 DEF EditorInvariant

\* An event is one of the two kinds.
LEMMA EventType ==
  ASSUME FeedTypeOK, BoundsAssumption, NEW e \in Executions, pen[e].at = "written",
         pen[e].what \in Writes
  PROVE  Event(e) \in Nets
BY DEF FeedTypeOK, Event, Nets

\* The records of the view, with the types of their fields.
Views == [id : Ids, status : Status \cup {None}, lines : Seq(Lines)]
Socks == [exec : Ids, at : {"none", "opening", "open", "lost"}, net : Seq(Nets)]
Reads == [exec : Ids, at : {"none", "sent", "read"},
          status : Status \cup {None}, logs : 0 .. MaxLogs]

LEMMA RecordTypes ==
  /\ \A id \in Ids : \A status \in Status \cup {None} : \A lines \in Seq(Lines) :
       View(id, status, lines) \in Views
  /\ \A e \in Ids : \A at \in {"none", "opening", "open", "lost"} : \A net \in Seq(Nets) :
       Sock(e, at, net) \in Socks
  /\ \A e \in Ids : \A at \in {"none", "sent", "read"} :
       \A status \in Status \cup {None} : \A k \in 0 .. MaxLogs :
         Read(e, at, status, k) \in Reads
  /\ Empty \in Views /\ NoSock \in Socks /\ NoFetch \in Reads
<1>1. <<>> \in Seq(Lines) /\ <<>> \in Seq(Nets)
  OBVIOUS
<1>2. \A id \in Ids : \A status \in Status \cup {None} : \A lines \in Seq(Lines) :
        View(id, status, lines) \in Views
  BY DEF View, Views
<1>3. \A e \in Ids : \A at \in {"none", "opening", "open", "lost"} :
        \A net \in Seq(Nets) : Sock(e, at, net) \in Socks
  BY DEF Sock, Socks
<1>4. \A e \in Ids : \A at \in {"none", "sent", "read"} :
        \A status \in Status \cup {None} : \A k \in 0 .. MaxLogs :
          Read(e, at, status, k) \in Reads
  BY DEF Read, Reads
<1>5. None \in Ids /\ 0 \in 0 .. MaxLogs
  BY BoundsAssumption DEF Ids
<1> QED BY <1>1, <1>2, <1>3, <1>4, <1>5 DEF Empty, NoSock, NoFetch

LEMMA TypeParts ==
  TypeOK <=> /\ BoundsOK /\ FeedTypeOK
             /\ view \in Views
             /\ posting \in Ids /\ stopping \in Ids /\ hook \in Ids
             /\ conn \in 0 .. MaxExecutions + MaxFaults
             /\ sock \in Socks
             /\ timer \in Ids
             /\ fetch \in [Conns -> Reads]
             /\ crossed \in BOOLEAN /\ overtaken \in BOOLEAN /\ missed \in BOOLEAN
BY DEF TypeOK, Views, Socks, Reads

-----------------------------------------------------------------------------
\* The effect follows the store.
LEMMA EffectStep ==
  ASSUME EditorInvariant, Effect
  PROVE  EditorInvariant'
<1> USE DEF feed, store, bounds, history, records
<1>1. /\ hook # view.id /\ hook' = view.id
      /\ UNCHANGED <<feed, store, fetch, bounds, history>>
  BY DEF Effect
<1>2. \/ view.id = None /\ sock' = NoSock /\ timer' = None /\ conn' = conn
      \/ /\ view.id # None /\ conn + 1 \in Conns /\ conn' = conn + 1
         /\ sock' = Sock(view.id, "opening", <<>>) /\ timer' = None
  BY DEF Effect, Connect, Cleanup
<1>3. view.id \in Ids
  BY DEF EditorInvariant, TypeOK
<1>4. TypeOK'
  <2>1. sock' \in Socks
    <3>1. <<>> \in Seq(Nets)
      OBVIOUS
    <3>2. Sock(view.id, "opening", <<>>) \in Socks /\ NoSock \in Socks
      BY <1>3, <3>1, RecordTypes
    <3> QED BY <1>2, <3>2
  <2>2. conn' \in 0 .. MaxExecutions + MaxFaults
    BY <1>2, BoundsAssumption DEF EditorInvariant, TypeOK, Conns
  <2>3. timer' \in Ids /\ hook' \in Ids
    BY <1>1, <1>2, <1>3 DEF Ids
  <2>4. BoundsOK' /\ FeedTypeOK'
    BY <1>1 DEF EditorInvariant, TypeOK, BoundsOK, FeedTypeOK
  <2> QED BY <1>1, <2>1, <2>2, <2>3, <2>4 DEF EditorInvariant, TypeOK, Socks
<1>5. HookFollows'
  BY <1>1, <1>2, BoundsAssumption DEF EditorInvariant, HookFollows, Sock, NoSock, Conns
<1>6. OwnLines'
  BY <1>1 DEF EditorInvariant, OwnLines
<1>7. NeverDeaf'
  BY <1>1, <1>2 DEF EditorInvariant, NeverDeaf, Sock
<1> QED BY <1>4, <1>5, <1>6, <1>7 DEF EditorInvariant

-----------------------------------------------------------------------------
(* Messages. *)
\* A socket with messages is that of the hook's execution.
LEMMA SocketOfTheHook ==
  ASSUME EditorInvariant, sock.net # <<>>
  PROVE  /\ sock.at # "none" /\ sock.exec = hook /\ hook \in Executions /\ conn \in Conns
         /\ view.id # None => view.id = sock.exec
         /\ Head(sock.net) \in Nets
         /\ [sock EXCEPT !.net = Tail(@)] \in Socks
         /\ [sock EXCEPT !.net = Tail(@)].exec = sock.exec
         /\ [sock EXCEPT !.net = Tail(@)].at = sock.at
<1>1. sock \in Socks /\ hook \in Ids /\ conn \in 0 .. MaxExecutions + MaxFaults
  BY TypeParts DEF EditorInvariant
<1>2. sock.at # "none"
  BY DEF EditorInvariant, HookFollows, NoSock, Sock
<1>3. sock.exec = hook /\ hook # None /\ conn > 0
  BY <1>2 DEF EditorInvariant, HookFollows
<1>4. view.id # None => view.id = sock.exec
  BY <1>3 DEF EditorInvariant, HookFollows
<1>5. sock.net \in Seq(Nets) /\ Head(sock.net) \in Nets /\ Tail(sock.net) \in Seq(Nets)
  BY <1>1 DEF Socks
<1>6. conn \in Conns /\ hook \in Executions
  BY <1>1, <1>3, BoundsAssumption DEF Ids, Conns
<1> DEFINE rest == [sock EXCEPT !.net = Tail(@)]
<1>7. rest \in Socks
  BY <1>1, <1>5 DEF Socks
<1>8. rest.exec = sock.exec /\ rest.at = sock.at
  BY <1>1 DEF Socks
<1> QED BY <1>2, <1>3, <1>4, <1>5, <1>6, <1>7, <1>8

\* A line from the socket is one of the view's execution.
LEMMA LineOfTheSocket ==
  ASSUME EditorInvariant, sock.net # <<>>,
         NEW status \in Status \cup {None}, NEW k \in 0 .. MaxLogs,
         Shows(status, Append(view.lines, Line(sock.exec, conn, k))),
         UNCHANGED crossed
  PROVE  /\ view' \in Views /\ view'.id = view.id /\ view'.status = status
         /\ OwnLines'
<1> DEFINE l == Line(sock.exec, conn, k)
<1>1. l \in Lines /\ l.exec = sock.exec
  BY SocketOfTheHook DEF Line, Lines
<1>2. view \in Views
  BY TypeParts DEF EditorInvariant
<1>3. view.id \in Ids /\ view.lines \in Seq(Lines)
  BY <1>2 DEF Views
<1>4. /\ view' = View(view.id, status, Append(view.lines, l))
      /\ Append(view.lines, l) \in Seq(Lines)
  BY <1>1, <1>3 DEF Shows
<1>5. view' \in Views
  BY <1>3, <1>4, RecordTypes
<1>6. view'.id = view.id /\ view'.status = status /\ view'.lines = Append(view.lines, l)
  BY <1>4 DEF View
<1>7. OwnLines'
  <2> SUFFICES ASSUME view.id # None, ~ crossed, NEW i \in DOMAIN view'.lines
               PROVE  view'.lines[i].exec = view.id
    BY <1>6 DEF OwnLines
  <2>1. sock.exec = view.id
    BY SocketOfTheHook
  <2>2. \A j \in DOMAIN view.lines : view.lines[j].exec = view.id
    BY DEF EditorInvariant, OwnLines
  <2>3. i \in 1 .. Len(view.lines) + 1
    BY <1>3, <1>4, <1>6
  <2> HIDE DEF l
  <2>4. CASE i = Len(view.lines) + 1
    BY <2>1, <2>4, <1>1, <1>3, <1>6
  <2>5. CASE i \in 1 .. Len(view.lines)
    <3>1. view'.lines[i] = view.lines[i] /\ i \in DOMAIN view.lines
      BY <2>5, <1>1, <1>3, <1>6
    <3> QED BY <3>1, <2>2
  <2> QED BY <2>3, <2>4, <2>5, <1>3
<1> QED BY <1>5, <1>6, <1>7

LEMMA FeedRests ==
  ASSUME EditorInvariant, UNCHANGED <<feed, bounds>>
  PROVE  BoundsOK' /\ FeedTypeOK' /\ UNCHANGED cancel
BY DEF EditorInvariant, TypeOK, BoundsOK, FeedTypeOK, feed, records, bounds

\* What is left to show of a step that changes the view or the socket.
LEMMA Holds ==
  ASSUME EditorInvariant, BoundsOK', FeedTypeOK', CancelStays,
         view' \in Views, sock' \in Socks, fetch' \in [Conns -> Reads],
         {posting', stopping', hook', timer'} \subseteq Ids,
         {crossed', overtaken', missed'} \subseteq BOOLEAN,
         conn' \in 0 .. MaxExecutions + MaxFaults,
         HookFollows', OwnLines', NeverDeaf'
  PROVE  EditorInvariant'
BY DEF EditorInvariant, TypeOK, Views, Socks, Reads

LEMMA LineStep ==
  ASSUME EditorInvariant, LineArrives
  PROVE  EditorInvariant'
<1> DEFINE rest == [sock EXCEPT !.net = Tail(@)]
<1>1. /\ sock.net # <<>> /\ Head(sock.net).kind = "log"
      /\ Shows(view.status, Append(view.lines, Line(sock.exec, conn, Head(sock.net).at)))
      /\ sock' = rest
      /\ UNCHANGED <<feed, bounds>>
      /\ UNCHANGED <<posting, stopping, hook, conn, timer, fetch, crossed, overtaken, missed>>
  BY DEF LineArrives, history
<1>2. BoundsOK' /\ FeedTypeOK' /\ UNCHANGED cancel
  BY <1>1, FeedRests
<1>3. view.status \in Status \cup {None} /\ Head(sock.net).at \in 0 .. MaxLogs
  BY <1>1, SocketOfTheHook, TypeParts DEF EditorInvariant, Views, Nets
<1>4. view' \in Views /\ view'.id = view.id /\ view'.status = view.status /\ OwnLines'
  BY <1>1, <1>3, LineOfTheSocket
<1>5. sock' \in Socks /\ sock'.exec = sock.exec /\ sock'.at = sock.at /\ sock.at # "none"
  BY <1>1, SocketOfTheHook
<1> HIDE DEF rest
<1>6. HookFollows'
  BY <1>1, <1>2, <1>4, <1>5 DEF EditorInvariant, HookFollows
<1>7. NeverDeaf'
  BY <1>1, <1>2, <1>4, <1>5 DEF EditorInvariant, NeverDeaf
<1> QED BY <1>1, <1>2, <1>4, <1>5, <1>6, <1>7, Holds, TypeParts DEF EditorInvariant, CancelStays

\* Parts of the invariant that the steps below use.
LEMMA Parts ==
  ASSUME EditorInvariant
  PROVE  /\ view \in Views /\ sock \in Socks /\ fetch \in [Conns -> Reads]
         /\ {posting, stopping, hook, timer, sock.exec, view.id} \subseteq Ids
         /\ {crossed, overtaken, missed} \subseteq BOOLEAN
         /\ conn \in 0 .. MaxExecutions + MaxFaults
         /\ view.status \in Status \cup {None} /\ view.lines \in Seq(Lines)
         /\ sock.net \in Seq(Nets)
         /\ BoundsOK /\ FeedTypeOK /\ HookFollows /\ OwnLines /\ NeverDeaf
BY TypeParts DEF EditorInvariant, Views, Socks

\* The backfills under way are of an execution.
LEMMA Fetches ==
  ASSUME EditorInvariant, NEW n \in Conns
  PROVE  /\ fetch[n].at # "none" => fetch[n].exec # None
         /\ fetch[n].at = "read" => fetch[n].status # None
         /\ fetch[n] \in Reads
         /\ fetch[n].exec \in Ids /\ fetch[n].status \in Status \cup {None}
         /\ fetch[n].logs \in 0 .. MaxLogs
<1>1. fetch \in [Conns -> Reads] /\ HookFollows
  BY Parts
<1>2. fetch[n] \in Reads
  BY <1>1
<1>3. \A c \in Conns : /\ fetch[c].at # "none" => fetch[c].exec # None
                       /\ fetch[c].at = "read" => fetch[c].status # None
  BY <1>1, Zenon DEF HookFollows
<1>4. /\ fetch[n].exec \in Ids /\ fetch[n].status \in Status \cup {None}
      /\ fetch[n].logs \in 0 .. MaxLogs
  BY <1>2 DEF Reads
<1> QED BY <1>2, <1>3, <1>4

LEMMA CleanupKeeps ==
  ASSUME EditorInvariant, Cleanup
  PROVE  /\ sock' = NoSock /\ sock' \in Socks /\ timer' = None /\ timer' \in Ids /\ conn' = conn
         /\ sock'.at = "none"
BY RecordTypes DEF Cleanup, Ids, NoSock, Sock

LEMMA StatusStep ==
  ASSUME EditorInvariant, StatusArrives
  PROVE  EditorInvariant'
<1> DEFINE rest == [sock EXCEPT !.net = Tail(@)]
           s == Head(sock.net).kind
<1>1. /\ sock.net # <<>> /\ s \in Status
      /\ Shows(s, Append(view.lines, Line(sock.exec, conn, 0)))
      /\ IF s \in Terminal THEN Cleanup ELSE sock' = rest /\ UNCHANGED <<conn, timer>>
      /\ UNCHANGED <<feed, bounds>>
      /\ UNCHANGED <<posting, stopping, hook, fetch, crossed, overtaken, missed>>
  BY DEF StatusArrives, history
<1>2. BoundsOK' /\ FeedTypeOK' /\ UNCHANGED cancel
  BY <1>1, FeedRests
<1>3. view' \in Views /\ view'.id = view.id /\ view'.status = s /\ OwnLines'
  BY <1>1, LineOfTheSocket, BoundsAssumption
<1>4. s # None
  BY <1>1, NoneAssumption
<1>5. CASE s \in Terminal
  <2>1. /\ sock' = NoSock /\ sock' \in Socks /\ timer' = None /\ timer' \in Ids /\ conn' = conn
        /\ sock'.at = "none"
    BY <1>1, <1>5, CleanupKeeps
  <2> HIDE DEF s, rest
  <2>2. HookFollows'
    BY <1>1, <1>2, <1>3, <1>4, <2>1, Parts DEF HookFollows
  <2>3. NeverDeaf'
    BY <1>3, <1>5 DEF NeverDeaf, Live, Terminal
  <2> QED BY <1>1, <1>2, <1>3, <2>1, <2>2, <2>3, Holds, Parts DEF CancelStays
<1>6. CASE s \notin Terminal
  <2>1. sock' \in Socks /\ sock'.exec = sock.exec /\ sock'.at = sock.at /\ sock.at # "none"
    BY <1>1, <1>6, SocketOfTheHook
  <2>2. UNCHANGED <<conn, timer>> /\ (view.id # None => sock.exec = view.id)
    BY <1>1, <1>6, SocketOfTheHook
  <2> HIDE DEF s, rest
  <2>3. HookFollows'
    BY <1>1, <1>2, <1>3, <1>4, <2>1, <2>2, Parts DEF HookFollows
  <2>4. NeverDeaf'
    BY <1>3, <2>1, <2>2 DEF NeverDeaf
  <2> QED BY <1>1, <1>2, <1>3, <2>1, <2>2, <2>3, <2>4, Holds, Parts DEF CancelStays
<1> QED BY <1>5, <1>6

LEMMA AcknowledgedStep ==
  ASSUME EditorInvariant, Acknowledged
  PROVE  EditorInvariant'
<1> DEFINE rest == [sock EXCEPT !.net = Tail(@)]
           asked == Read(sock.exec, "sent", None, 0)
<1>1. /\ sock.net # <<>> /\ sock' = rest /\ fetch' = [fetch EXCEPT ![conn] = asked]
      /\ UNCHANGED <<feed, bounds>>
      /\ UNCHANGED <<view, posting, stopping, hook, conn, timer, crossed, overtaken, missed>>
  BY DEF Acknowledged, store, history
<1>2. BoundsOK' /\ FeedTypeOK' /\ UNCHANGED cancel
  BY <1>1, FeedRests
<1>3. /\ sock' \in Socks /\ sock'.exec = sock.exec /\ sock'.at = sock.at /\ sock.at # "none"
      /\ sock.exec \in Executions
  BY <1>1, SocketOfTheHook
<1>4. asked \in Reads
  <2>1. sock.exec \in Ids /\ 0 \in 0 .. MaxLogs
    BY Parts, BoundsAssumption
  <2> QED BY <2>1, RecordTypes
<1>5. asked.at = "sent" /\ asked.exec # None
  BY <1>3, NoneAssumption DEF Read
<1> HIDE DEF rest, asked
<1>6. fetch' \in [Conns -> Reads]
  BY <1>1, <1>4, Parts
<1>7. \A n \in Conns : /\ fetch'[n].at # "none" => fetch'[n].exec # None
                       /\ fetch'[n].at = "read" => fetch'[n].status # None
  <2>1. \A n \in Conns : fetch'[n] = asked \/ fetch'[n] = fetch[n]
    BY <1>1, Parts
  <2>2. \A n \in Conns : /\ fetch[n].at # "none" => fetch[n].exec # None
                         /\ fetch[n].at = "read" => fetch[n].status # None
    BY Fetches
  <2> QED BY <1>5, <2>1, <2>2
<1>8. HookFollows'
  BY <1>1, <1>2, <1>3, <1>7, Parts DEF HookFollows
<1>9. OwnLines'
  BY <1>1, Parts DEF OwnLines
<1>10. NeverDeaf'
  BY <1>1, <1>2, <1>3, Parts DEF NeverDeaf
<1> QED BY <1>1, <1>2, <1>3, <1>6, <1>8, <1>9, <1>10, Holds, Parts DEF CancelStays

-----------------------------------------------------------------------------
(* The socket. *)
LEMMA SubscribeStep ==
  ASSUME EditorInvariant, Subscribe
  PROVE  EditorInvariant'
<1> DEFINE net == <<[kind |-> "subscribed", at |-> 0]>>
<1>1. /\ sock.at = "opening" /\ sock' = Sock(sock.exec, "open", net)
      /\ UNCHANGED <<feed, bounds>>
      /\ UNCHANGED <<view, posting, stopping, hook, conn, timer, fetch,
                     crossed, overtaken, missed>>
  BY DEF Subscribe, store, history
<1>2. BoundsOK' /\ FeedTypeOK' /\ UNCHANGED cancel
  BY <1>1, FeedRests
<1>3. net \in Seq(Nets)
  BY BoundsAssumption DEF Nets
<1> HIDE DEF net
<1>4. sock' \in Socks /\ sock'.exec = sock.exec /\ sock'.at = "open"
  <2>1. sock' \in Socks
    BY <1>1, <1>3, RecordTypes, Parts
  <2> QED BY <1>1, <2>1 DEF Sock
<1>5. HookFollows'
  BY <1>1, <1>2, <1>4, Parts DEF HookFollows
<1>6. OwnLines'
  BY <1>1, Parts DEF OwnLines
<1>7. NeverDeaf'
  BY <1>1, <1>2, <1>4, Parts DEF NeverDeaf
<1> QED BY <1>1, <1>2, <1>4, <1>5, <1>6, <1>7, Holds, Parts DEF CancelStays

LEMMA LoseStep ==
  ASSUME EditorInvariant, Lose
  PROVE  EditorInvariant'
<1>1. PICK k \in 0 .. Len(sock.net) : sock' = Sock(sock.exec, "lost", SubSeq(sock.net, 1, k))
  BY DEF Lose
<1>2. /\ Fault /\ sock.at \in {"opening", "open"}
      /\ UNCHANGED feed
      /\ UNCHANGED <<view, posting, stopping, hook, conn, timer, fetch,
                     crossed, overtaken, missed>>
  BY DEF Lose, store, history
<1>3. BoundsOK' /\ FeedTypeOK' /\ UNCHANGED cancel
  BY <1>2, FaultKeepsBounds, Parts DEF FeedTypeOK, feed, records
<1>4. SubSeq(sock.net, 1, k) \in Seq(Nets)
  BY Parts
<1>5. sock' \in Socks /\ sock'.exec = sock.exec /\ sock'.at = "lost"
  <2>1. sock' \in Socks
    BY <1>1, <1>4, RecordTypes, Parts
  <2> QED BY <1>1, <2>1 DEF Sock
<1>6. HookFollows'
  BY <1>2, <1>3, <1>5, Parts DEF HookFollows
<1>7. OwnLines'
  BY <1>2, Parts DEF OwnLines
<1>8. NeverDeaf'
  BY <1>2, <1>3, <1>5, Parts DEF NeverDeaf
<1> QED BY <1>2, <1>3, <1>5, <1>6, <1>7, <1>8, Holds, Parts DEF CancelStays

\* A socket that closes leaves a timer, if the execution goes on.
LEMMA ClosedStep ==
  ASSUME EditorInvariant, Closed
  PROVE  EditorInvariant'
<1>1. /\ sock.at = "lost" /\ sock' = NoSock
      /\ timer' = IF view.status \in Live \cup {None} THEN sock.exec ELSE timer
      /\ UNCHANGED <<feed, bounds>>
      /\ UNCHANGED <<view, posting, stopping, hook, conn, fetch, crossed, overtaken, missed>>
  BY DEF Closed, store, history
<1>2. BoundsOK' /\ FeedTypeOK' /\ UNCHANGED cancel
  BY <1>1, FeedRests
<1>3. sock.exec = hook /\ timer' \in {None, hook} /\ timer' \in Ids
  BY <1>1, Parts DEF HookFollows
<1>4. sock' \in Socks /\ sock'.at = "none"
  BY <1>1, RecordTypes DEF NoSock, Sock
<1>5. HookFollows'
  BY <1>1, <1>2, <1>3, <1>4, Parts DEF HookFollows
<1>6. OwnLines'
  BY <1>1, Parts DEF OwnLines
<1>7. NeverDeaf'
  BY <1>1, <1>2, <1>3, Parts DEF NeverDeaf
<1> QED BY <1>1, <1>2, <1>3, <1>4, <1>5, <1>6, <1>7, Holds, Parts DEF CancelStays

LEMMA TimerStep ==
  ASSUME EditorInvariant, TimerFires
  PROVE  EditorInvariant'
<1>1. /\ timer # None
      /\ UNCHANGED <<feed, bounds>>
      /\ UNCHANGED <<view, posting, stopping, hook, fetch, crossed, overtaken, missed>>
  BY DEF TimerFires, store, history
<1>2. BoundsOK' /\ FeedTypeOK' /\ UNCHANGED cancel
  BY <1>1, FeedRests
<1>3. timer = hook /\ timer \in Ids /\ timer' = None /\ timer' \in Ids
  BY <1>1, Parts DEF HookFollows, TimerFires, Connect, Ids
<1>4. OwnLines'
  BY <1>1, Parts DEF OwnLines
<1>5. CASE view.id = timer
  <2>1. conn + 1 \in Conns /\ conn' = conn + 1 /\ sock' = Sock(timer, "opening", <<>>)
    BY <1>5 DEF TimerFires, Connect
  <2>2. sock' \in Socks
    <3>1. <<>> \in Seq(Nets)
      OBVIOUS
    <3> QED BY <1>3, <2>1, <3>1, RecordTypes
  <2>3. sock'.exec = timer /\ sock'.at = "opening"
    BY <2>1 DEF Sock
  <2>4. conn' \in 0 .. MaxExecutions + MaxFaults /\ conn' > 0
    BY <2>1, BoundsAssumption DEF Conns
  <2>5. HookFollows'
    BY <1>1, <1>2, <1>3, <2>3, <2>4, Parts DEF HookFollows
  <2>6. NeverDeaf'
    BY <1>1, <1>5, <2>3 DEF NeverDeaf
  <2> QED BY <1>1, <1>2, <1>3, <1>4, <2>2, <2>4, <2>5, <2>6, Holds, Parts DEF CancelStays
<1>6. CASE view.id # timer
  <2>1. UNCHANGED <<conn, sock>>
    BY <1>6 DEF TimerFires
  <2>2. HookFollows'
    BY <1>1, <1>2, <1>3, <2>1, Parts DEF HookFollows
  <2>3. NeverDeaf'
    BY <1>1, <1>3, <1>6 DEF NeverDeaf
  <2> QED BY <1>1, <1>2, <1>3, <1>4, <2>1, <2>2, <2>3, Holds, Parts DEF CancelStays
<1> QED BY <1>5, <1>6

-----------------------------------------------------------------------------
(* The backfill. *)
LEMMA FetchReadsStep ==
  ASSUME EditorInvariant, NEW n \in Conns, FetchReads(n)
  PROVE  EditorInvariant'
<1> DEFINE e == fetch[n].exec
           r == Read(e, "read", row[e], logs[e])
<1>1. /\ fetch[n].at = "sent" /\ Exists(e) /\ fetch' = [fetch EXCEPT ![n] = r]
      /\ UNCHANGED <<feed, bounds>>
      /\ UNCHANGED <<view, posting, stopping, hook, conn, sock, timer,
                     crossed, overtaken, missed>>
  BY DEF FetchReads, store, link, history
<1>2. BoundsOK' /\ FeedTypeOK' /\ UNCHANGED cancel
  BY <1>1, FeedRests
<1>3. e \in Ids /\ e # None
  BY <1>1, Fetches
<1>4. e \in Executions /\ row[e] \in Status /\ logs[e] \in 0 .. MaxLogs
  BY <1>1, <1>3, Parts DEF Exists, FeedTypeOK, Ids
<1>5. r \in Reads
  BY <1>3, <1>4, RecordTypes
<1>6. r.exec # None /\ r.status # None
  BY <1>3, <1>4, NoneAssumption DEF Read
<1> HIDE DEF e, r
<1>7. fetch' \in [Conns -> Reads]
  BY <1>1, <1>5, Parts
<1>8. HookFollows'
  <2>1. \A c \in Conns : fetch'[c] = r \/ fetch'[c] = fetch[c]
    BY <1>1, Parts
  <2>2. \A c \in Conns : /\ fetch'[c].at # "none" => fetch'[c].exec # None
                         /\ fetch'[c].at = "read" => fetch'[c].status # None
    BY <1>6, <2>1, Fetches
  <2> QED BY <1>1, <1>2, <2>2, Parts DEF HookFollows
<1>9. OwnLines'
  BY <1>1, Parts DEF OwnLines
<1>10. NeverDeaf'
  BY <1>1, <1>2, Parts DEF NeverDeaf
<1> QED BY <1>1, <1>2, <1>7, <1>8, <1>9, <1>10, Holds, Parts DEF CancelStays

LEMMA FetchFailsStep ==
  ASSUME EditorInvariant, NEW n \in Conns, FetchFails(n)
  PROVE  EditorInvariant'
<1>1. /\ fetch' = [fetch EXCEPT ![n] = NoFetch]
      /\ missed' = (missed \/ (fetch[n].exec = view.id /\ row[fetch[n].exec] \in Terminal))
      /\ UNCHANGED feed
      /\ UNCHANGED <<view, posting, stopping, hook, conn, sock, timer, crossed, overtaken>>
  BY DEF FetchFails, store, link
<1>2. Fault \/ UNCHANGED bounds
  BY DEF FetchFails
<1>3. BoundsOK' /\ FeedTypeOK' /\ UNCHANGED cancel
  BY <1>1, <1>2, FaultKeepsBounds, Parts DEF FeedTypeOK, feed, records
<1>4. missed' \in BOOLEAN
  BY <1>1
<1>5. fetch' \in [Conns -> Reads]
  BY <1>1, RecordTypes, Parts
<1>6. HookFollows'
  <2>1. \A c \in Conns : fetch'[c] = NoFetch \/ fetch'[c] = fetch[c]
    BY <1>1, Parts
  <2>2. NoFetch.at = "none"
    BY DEF NoFetch, Read
  <2>3. \A c \in Conns : /\ fetch'[c].at # "none" => fetch'[c].exec # None
                         /\ fetch'[c].at = "read" => fetch'[c].status # None
    BY <2>1, <2>2, Fetches
  <2> QED BY <1>1, <1>3, <2>3, Parts DEF HookFollows
<1>7. OwnLines'
  BY <1>1, Parts DEF OwnLines
<1>8. NeverDeaf'
  BY <1>1, <1>3, Parts DEF NeverDeaf
<1> QED BY <1>1, <1>3, <1>4, <1>5, <1>6, <1>7, <1>8, Holds, Parts DEF CancelStays

\* The answer of the backfill is applied to whatever view there is.
LEMMA FetchAppliedStep ==
  ASSUME EditorInvariant, NEW n \in Conns, FetchApplied(n)
  PROVE  EditorInvariant'
<1> DEFINE f == fetch[n]
           status == IF f.status = "pending" THEN view.status ELSE f.status
           lines == IF view.lines = <<>> THEN [i \in 1 .. f.logs |-> Line(f.exec, n, i)]
                    ELSE view.lines
<1>1. /\ f.at = "read" /\ Shows(status, lines)
      /\ IF f.status \in Terminal THEN Cleanup ELSE UNCHANGED link
      /\ fetch' = [fetch EXCEPT ![n] = NoFetch]
      /\ crossed' = (crossed \/ (f.exec # view.id))
      /\ overtaken' = (overtaken \/ (f.status \in Live /\ view.status \in Terminal))
      /\ UNCHANGED <<feed, bounds>>
      /\ UNCHANGED <<posting, stopping, hook, missed>>
  BY DEF FetchApplied
<1>2. BoundsOK' /\ FeedTypeOK' /\ UNCHANGED cancel
  BY <1>1, FeedRests
<1>3. /\ f.exec \in Executions /\ f.status \in Status /\ f.logs \in 0 .. MaxLogs
  BY <1>1, Fetches DEF Ids
<1>4. crossed' \in BOOLEAN /\ overtaken' \in BOOLEAN
  BY <1>1
<1>5. fetch' \in [Conns -> Reads]
  BY <1>1, RecordTypes, Parts
<1>6. \A c \in Conns : /\ fetch'[c].at # "none" => fetch'[c].exec # None
                       /\ fetch'[c].at = "read" => fetch'[c].status # None
  <2>1. \A c \in Conns : fetch'[c] = NoFetch \/ fetch'[c] = fetch[c]
    BY <1>1, Parts
  <2>2. NoFetch.at = "none"
    BY DEF NoFetch, Read
  <2> QED BY <2>1, <2>2, Fetches
<1>7. \A i \in 1 .. f.logs : Line(f.exec, n, i) \in Lines /\ Line(f.exec, n, i).exec = f.exec
  BY <1>3, BoundsAssumption DEF Line, Lines
<1>8. /\ lines \in Seq(Lines)
      /\ lines = view.lines \/ \A i \in DOMAIN lines : lines[i].exec = f.exec
  <2> DEFINE new == [i \in 1 .. f.logs |-> Line(f.exec, n, i)]
  <2>1. new \in Seq(Lines)
    BY <1>3, <1>7
  <2>2. \A i \in DOMAIN new : new[i].exec = f.exec
    BY <1>7
  <2>3. lines = view.lines \/ lines = new
    OBVIOUS
  <2> HIDE DEF new, lines
  <2> QED BY <2>1, <2>2, <2>3, Parts
<1>9. status \in Status \cup {None}
  BY <1>3, Parts
<1>10. /\ view' = View(view.id, status, lines) /\ view' \in Views
       /\ view'.id = view.id /\ view'.status = status /\ view'.lines = lines
  <2> HIDE DEF status, lines
  <2>1. view' = View(view.id, status, lines)
    BY <1>1 DEF Shows
  <2>2. view' \in Views
    BY <1>8, <1>9, <2>1, RecordTypes, Parts
  <2> QED BY <2>1, <2>2 DEF View
<1>11. view.id # None => view'.status # None
  BY <1>3, <1>10, NoneAssumption, Parts DEF HookFollows
<1>12. OwnLines'
  <2> HIDE DEF lines, status
  <2> QED BY <1>1, <1>8, <1>10, Parts DEF OwnLines
<1>13. CASE f.status \in Terminal
  <2>1. /\ sock' = NoSock /\ sock' \in Socks /\ timer' = None /\ timer' \in Ids /\ conn' = conn
        /\ sock'.at = "none"
    BY <1>1, <1>13, CleanupKeeps
  <2>2. view'.status \notin Live
    BY <1>10, <1>13 DEF Terminal, Live
  <2>3. HookFollows'
    BY <1>1, <1>2, <1>6, <1>10, <1>11, <2>1, Parts DEF HookFollows
  <2>4. NeverDeaf'
    BY <2>2 DEF NeverDeaf
  <2> QED BY <1>1, <1>2, <1>4, <1>5, <1>10, <1>12, <2>1, <2>3, <2>4, Holds, Parts
          DEF CancelStays
<1>14. CASE f.status \notin Terminal
  <2>1. UNCHANGED <<conn, sock, timer>>
    BY <1>1, <1>14 DEF link
  <2>2. f.status \in Live
    BY <1>3, <1>14 DEF Status, Live
  <2>3. HookFollows'
    BY <1>1, <1>2, <1>6, <1>10, <1>11, <2>1, Parts DEF HookFollows
  <2>4. NeverDeaf'
    <3> SUFFICES ASSUME view.id # None, hook = view.id, ~ crossed', ~ overtaken',
                        cancel[view.id] = "no"
                 PROVE  sock.exec = view.id \/ timer = view.id
      BY <1>1, <1>2, <1>10, <2>1 DEF NeverDeaf
    <3>1. ~ crossed /\ ~ overtaken /\ view.status \notin Terminal
      BY <1>1, <2>2
    <3>2. view.status \in Live
      BY <3>1, Parts DEF HookFollows, Status, Live
    <3> QED BY <3>1, <3>2, Parts DEF NeverDeaf
  <2> QED BY <1>1, <1>2, <1>4, <1>5, <1>10, <1>12, <2>1, <2>3, <2>4, Holds, Parts
          DEF CancelStays
<1> QED BY <1>13, <1>14

-----------------------------------------------------------------------------
(* The buttons. *)
LEMMA ClearStep ==
  ASSUME EditorInvariant, Clear
  PROVE  EditorInvariant'
<1>1. /\ view' = Empty /\ crossed' = FALSE /\ overtaken' = FALSE /\ missed' = FALSE
      /\ UNCHANGED <<feed, bounds>>
      /\ UNCHANGED <<posting, stopping, hook, conn, sock, timer, fetch>>
  BY DEF Clear, link
<1>2. BoundsOK' /\ FeedTypeOK' /\ UNCHANGED cancel
  BY <1>1, FeedRests
<1>3. view' \in Views /\ view'.id = None
  BY <1>1, RecordTypes DEF Empty, View
<1>4. HookFollows'
  BY <1>1, <1>2, <1>3, Parts DEF HookFollows
<1>5. OwnLines' /\ NeverDeaf'
  BY <1>3 DEF OwnLines, NeverDeaf
<1> QED BY <1>1, <1>2, <1>3, <1>4, <1>5, Holds, Parts DEF CancelStays

LEMMA RunStep ==
  ASSUME EditorInvariant, NEW e \in Executions, Run(e)
  PROVE  EditorInvariant'
<1>1. /\ Accept(e) /\ posting' = e /\ UNCHANGED bounds
      /\ UNCHANGED <<view, stopping, hook, conn, sock, timer, fetch,
                     crossed, overtaken, missed>>
  BY DEF Run, link, history
<1>2. BoundsOK' /\ FeedTypeOK' /\ UNCHANGED cancel
  BY <1>1, FeedSteps, FaultKeepsBounds, Parts DEF Accept
<1>3. posting' \in Ids
  BY <1>1 DEF Ids
<1>4. HookFollows'
  BY <1>1, <1>2, Parts DEF HookFollows
<1>5. OwnLines' /\ NeverDeaf'
  BY <1>1, <1>2, Parts DEF OwnLines, NeverDeaf
<1> QED BY <1>1, <1>2, <1>3, <1>4, <1>5, Holds, Parts DEF CancelStays

\* A view starts without lines and without a socket.
LEMMA StartedStep ==
  ASSUME EditorInvariant, NEW e \in Executions, Started(e)
  PROVE  EditorInvariant'
<1>1. /\ hook = None /\ Answer(e) /\ view' = View(e, "pending", <<>>) /\ posting' = None
      /\ crossed' = FALSE /\ overtaken' = FALSE /\ missed' = FALSE
      /\ UNCHANGED bounds
      /\ UNCHANGED <<stopping, hook, conn, sock, timer, fetch>>
  BY DEF Started, link
<1>2. BoundsOK' /\ FeedTypeOK' /\ UNCHANGED cancel
  BY <1>1, FeedSteps, FaultKeepsBounds, Parts DEF Answer
<1>3. e # None /\ e \in Ids /\ None \in Ids
  BY NoneAssumption DEF Ids
<1>4. view'.id = e /\ view'.status = "pending" /\ view'.lines = <<>>
  BY <1>1 DEF View
<1>5. view' \in Views
  <2>1. "pending" \in Status \cup {None} /\ <<>> \in Seq(Lines)
    BY DEF Status
  <2> QED BY <1>1, <1>3, <2>1, RecordTypes
<1>6. HookFollows'
  <2>1. "pending" # None
    BY NoneAssumption DEF Status
  <2> QED BY <1>1, <1>2, <1>4, <2>1, Parts DEF HookFollows
<1>7. OwnLines'
  BY <1>4 DEF OwnLines
<1>8. NeverDeaf'
  BY <1>1, <1>3, <1>4 DEF NeverDeaf
<1> QED BY <1>1, <1>2, <1>3, <1>5, <1>6, <1>7, <1>8, Holds, Parts DEF CancelStays

LEMMA NotStartedStep ==
  ASSUME EditorInvariant, NEW e \in Executions, NotStarted(e)
  PROVE  EditorInvariant'
<1>1. /\ posting' = None
      /\ UNCHANGED <<feed, bounds>>
      /\ UNCHANGED <<view, stopping, hook, conn, sock, timer, fetch,
                     crossed, overtaken, missed>>
  BY DEF NotStarted, link, history
<1>2. BoundsOK' /\ FeedTypeOK' /\ UNCHANGED cancel
  BY <1>1, FeedRests
<1>3. posting' \in Ids
  BY <1>1 DEF Ids
<1>4. HookFollows'
  BY <1>1, <1>2, Parts DEF HookFollows
<1>5. OwnLines' /\ NeverDeaf'
  BY <1>1, <1>2, Parts DEF OwnLines, NeverDeaf
<1> QED BY <1>1, <1>2, <1>3, <1>4, <1>5, Holds, Parts DEF CancelStays

LEMMA StopStep ==
  ASSUME EditorInvariant, NEW e \in Executions, Stop(e)
  PROVE  EditorInvariant'
<1>1. /\ view.id = e /\ CancelAsked(e)
      /\ view' = View(e, "cancelled", view.lines) /\ stopping' = e
      /\ UNCHANGED bounds
      /\ UNCHANGED <<posting, hook, conn, sock, timer, fetch, crossed, overtaken, missed>>
  BY DEF Stop, link, history
<1>2. BoundsOK' /\ FeedTypeOK' /\ CancelStays
  BY <1>1, FeedSteps, FaultKeepsBounds, Parts
<1>3. cancel'[e] = "asked"
  BY <1>1, Parts DEF CancelAsked, FeedTypeOK
<1>4. view'.id = view.id /\ view'.status = "cancelled" /\ view'.lines = view.lines
  BY <1>1 DEF View
<1>5. "cancelled" \in Status \cup {None} /\ e \in Ids /\ "cancelled" # None
  BY NoneAssumption DEF Status, Terminal, Ids
<1>6. view' \in Views
  BY <1>1, <1>5, RecordTypes, Parts
<1>7. HookFollows'
  BY <1>1, <1>3, <1>4, <1>5, Parts DEF HookFollows
<1>8. OwnLines'
  BY <1>1, <1>4, Parts DEF OwnLines
<1>9. NeverDeaf'
  BY <1>4 DEF NeverDeaf, Live
<1> QED BY <1>1, <1>2, <1>5, <1>6, <1>7, <1>8, <1>9, Holds, Parts

\* A DELETE that fails shows the view's execution as running again: it is excused,
\* or another one.
LEMMA StoppedStep ==
  ASSUME EditorInvariant, NEW e \in Executions, Stopped(e)
  PROVE  EditorInvariant'
<1>1. /\ stopping = e /\ stopping' = None
      /\ UNCHANGED feed
      /\ UNCHANGED <<posting, hook, conn, sock, timer, fetch, overtaken, missed>>
  BY DEF Stopped, link
<1>2. \/ UNCHANGED <<view, crossed>> /\ UNCHANGED bounds
      \/ Fault /\ Shows("running", view.lines) /\ crossed' = (crossed \/ (view.id # e))
  BY DEF Stopped
<1>3. BoundsOK' /\ FeedTypeOK' /\ UNCHANGED cancel
  BY <1>1, <1>2, FaultKeepsBounds, Parts DEF FeedTypeOK, feed, records
<1>4. stopping' \in Ids
  BY <1>1 DEF Ids
<1>5. CASE UNCHANGED <<view, crossed>>
  <2>1. HookFollows'
    BY <1>1, <1>3, <1>5, Parts DEF HookFollows
  <2>2. OwnLines' /\ NeverDeaf'
    BY <1>1, <1>3, <1>5, Parts DEF OwnLines, NeverDeaf
  <2> QED BY <1>1, <1>3, <1>4, <1>5, <2>1, <2>2, Holds, Parts DEF CancelStays
<1>6. CASE Shows("running", view.lines) /\ crossed' = (crossed \/ (view.id # e))
  <2>1. view'.id = view.id /\ view'.status = "running" /\ view'.lines = view.lines
    BY <1>6 DEF Shows, View
  <2>2. "running" \in Status \cup {None} /\ "running" # None
    BY NoneAssumption DEF Status
  <2>3. view' \in Views
    BY <1>6, <2>2, RecordTypes, Parts DEF Shows
  <2>4. HookFollows'
    BY <1>1, <1>3, <2>1, <2>2, Parts DEF HookFollows
  <2>5. OwnLines'
    BY <1>6, <2>1, Parts DEF OwnLines
  <2>6. NeverDeaf'
    <3>1. cancel[e] # "no"
      BY <1>1, NoneAssumption, Parts DEF HookFollows
    <3> QED BY <1>3, <1>6, <2>1, <3>1 DEF NeverDeaf
  <2>7. crossed' \in BOOLEAN
    BY <1>6
  <2> QED BY <1>1, <1>3, <1>4, <2>3, <2>4, <2>5, <2>6, <2>7, Holds, Parts DEF CancelStays
<1> QED BY <1>2, <1>5, <1>6

LEMMA PushedStep ==
  ASSUME EditorInvariant, NEW e \in Executions, Pushed(e)
  PROVE  EditorInvariant'
<1>1. /\ Broadcast(e) /\ pen[e].at = "written" /\ UNCHANGED bounds /\ UNCHANGED cancel
      /\ UNCHANGED <<view, posting, stopping, hook, conn, timer, fetch,
                     crossed, overtaken, missed>>
  BY DEF Pushed, Broadcast, store, history
<1>2. \/ sock' = sock
      \/ /\ sock.at = "open"
         /\ sock' = [sock EXCEPT !.net = Append(@, Event(e))]
  BY DEF Pushed, Subscribed
<1>3. BoundsOK' /\ FeedTypeOK' /\ CancelStays
  BY <1>1, FeedSteps, FaultKeepsBounds, Parts
<1>4. Event(e) \in Nets
  BY <1>1, EventType, BoundsAssumption, Parts DEF FeedTypeOK
<1>5. sock' \in Socks /\ sock'.exec = sock.exec /\ sock'.at = sock.at
      /\ (sock.at = "none" => sock' = sock)
  <2>1. Append(sock.net, Event(e)) \in Seq(Nets)
    BY <1>4, Parts
  <2> QED BY <1>2, <2>1, Parts DEF Socks
<1>6. HookFollows'
  BY <1>1, <1>5, Parts DEF HookFollows
<1>7. OwnLines'
  BY <1>1, Parts DEF OwnLines
<1>8. NeverDeaf'
  BY <1>1, <1>5, Parts DEF NeverDeaf
<1> QED BY <1>1, <1>3, <1>5, <1>6, <1>7, <1>8, Holds, Parts

-----------------------------------------------------------------------------
(* The theorems. *)
LEMMA InvariantAtInit ==
  ASSUME Init
  PROVE  EditorInvariant
<1> USE DEF Init, FeedInit
<1>1. BoundsOK /\ FeedTypeOK
  <2>1. budget \in [executions : 0 .. MaxExecutions, logs : 0 .. MaxLogs,
                    faults : 0 .. MaxFaults]
    BY BoundsAssumption
  <2> QED BY <2>1, BoundsAssumption DEF BoundsOK, FeedTypeOK, Pen
<1>2. TypeOK
  <2>1. view \in Views /\ sock \in Socks /\ fetch \in [Conns -> Reads]
    BY RecordTypes
  <2>2. conn \in 0 .. MaxExecutions + MaxFaults
    BY BoundsAssumption
  <2> QED BY <1>1, <2>1, <2>2, TypeParts DEF Ids
<1>3. view.id = None /\ NoFetch.at = "none"
  BY DEF Empty, View, NoFetch, Read
<1>4. sock = NoSock /\ sock.at = "none"
  BY DEF NoSock, Sock
<1>5. HookFollows
  BY <1>3, <1>4 DEF HookFollows
<1>6. OwnLines /\ NeverDeaf
  BY <1>3 DEF OwnLines, NeverDeaf
<1> QED BY <1>2, <1>5, <1>6 DEF EditorInvariant

LEMMA InvariantKept ==
  ASSUME EditorInvariant, [Next]_vars
  PROVE  EditorInvariant'
<1>1. ASSUME NEW e \in Executions, Write(e) \/ Cancel(e),
             UNCHANGED <<store, hook, link, fetch, bounds, history>>
      PROVE  EditorInvariant'
  <2>1. FeedTypeOK' /\ CancelStays
    BY <1>1, FeedSteps, Parts
  <2>2. BoundsOK'
    BY <1>1, FaultKeepsBounds, Parts
  <2> QED BY <1>1, <2>1, <2>2, ServerSteps
<1>2. ASSUME NEW e \in Executions, CancelledElsewhere(e)
      PROVE  EditorInvariant'
  <2>1. FeedTypeOK' /\ CancelStays /\ BoundsOK'
    BY <1>2, FeedSteps, FaultKeepsBounds, Parts DEF CancelledElsewhere
  <2> QED BY <1>2, <2>1, ServerSteps DEF CancelledElsewhere
<1>3. CASE Buttons
  BY <1>2, <1>3, ClearStep, RunStep, StopStep DEF Buttons
<1>4. CASE HookSteps
  BY <1>4, SubscribeStep, EffectStep, AcknowledgedStep, LineStep, StatusStep,
     ClosedStep, TimerStep DEF HookSteps
<1>5. CASE Lose
  BY <1>5, LoseStep
<1>6. CASE \E n \in Conns : FetchSteps(n) \/ FetchFails(n)
  BY <1>6, FetchReadsStep, FetchAppliedStep, FetchFailsStep DEF FetchSteps
<1>7. CASE \E e \in Executions : Works(e) \/ AnswerSteps(e) \/ Stopped(e)
  BY <1>1, <1>7, PushedStep, StartedStep, NotStartedStep, StoppedStep
  DEF Works, AnswerSteps
<1>8. CASE UNCHANGED vars
  <2>1. BoundsOK' /\ FeedTypeOK' /\ UNCHANGED cancel
    BY <1>8, FeedRests DEF vars
  <2> QED BY <1>8, <2>1, ServerSteps DEF vars, CancelStays
<1> QED BY <1>3, <1>4, <1>5, <1>6, <1>7, <1>8 DEF Next

-----------------------------------------------------------------------------
(* The server writes and announces log lines in order. *)
SentGrows == \A e \in Executions : /\ Sent(e) \in Int /\ Sent(e)' \in Int
                                   /\ Sent(e) <= Sent(e)'
                                   /\ row[e] = "deleted" => row'[e] = "deleted"

\* A write is announced later: what was sent does not change with it.
LEMMA WritesSendNothing ==
  ASSUME NEW e \in Executions, BoundsOK, FeedTypeOK, WritesToRows,
         Accept(e) \/ Answer(e) \/ Write(e) \/ CancelAsked(e) \/ Cancel(e)
  PROVE  WritesToRows' /\ SentGrows /\ \A d \in Executions : Sent(d)' = Sent(d)
<1>1. /\ logs \in [Executions -> Nat] /\ DOMAIN pen = Executions
      /\ row \in [Executions -> Status \cup {"none", "deleted"}]
  BY BoundsAssumption DEF FeedTypeOK
<1> USE DEF WritesToRows, SentGrows, Sent, records
<1>2. CASE Accept(e)
  BY <1>1, <1>2 DEF Accept
<1>3. CASE Answer(e)
  BY <1>1, <1>3 DEF Answer, Exists, Status, Terminal
<1>4. CASE Write(e)
  <2>1. /\ pen[e].at = "idle" /\ row[e] # "none"
        /\ \E w \in NextWrites(e) :
             \/ /\ Exists(e)
                /\ row' = [row EXCEPT ![e] = IF w = "log" THEN @ ELSE w]
                /\ logs' = [logs EXCEPT ![e] = IF w = "log" THEN @ + 1 ELSE @]
                /\ pen' = [pen EXCEPT ![e] = Pen("written", w)]
             \/ /\ ~ Exists(e)
                /\ pen' = [pen EXCEPT ![e] = Pen("idle", w)]
                /\ UNCHANGED records
    BY <1>4 DEF Write
  <2>2. "none" \notin NextWrites(e)
    BY OutcomesAssumption DEF NextWrites
  <2> QED  BY <1>1, <2>1, <2>2 DEF Exists, Status, Terminal, Pen
<1>5. CASE CancelAsked(e)
  BY <1>1, <1>5 DEF CancelAsked
<1>6. CASE Cancel(e)
  BY <1>1, <1>6 DEF Cancel, Status, Terminal
<1> QED  BY <1>2, <1>3, <1>4, <1>5, <1>6

\* An announcement sends the latest log line, if it is of one.
LEMMA BroadcastSends ==
  ASSUME NEW e \in Executions, FeedTypeOK, WritesToRows, Broadcast(e)
  PROVE  /\ WritesToRows' /\ SentGrows /\ UNCHANGED row
         /\ \A d \in Executions : d # e => Sent(d)' = Sent(d)
         /\ pen[e].what # "log" => Sent(e)' = Sent(e)
         /\ pen[e].what = "log" =>
              logs[e] > 0 /\ logs[e] \in Nat /\ Sent(e) = logs[e] - 1 /\ Sent(e)' = logs[e]
<1>1. logs \in [Executions -> Nat] /\ DOMAIN pen = Executions
  BY BoundsAssumption DEF FeedTypeOK
<1>2. pen[e].at = "written" => pen[e] = Pen(pen[e].at, pen[e].what)
  BY DEF FeedTypeOK, Pen
<1> QED  BY <1>1, <1>2 DEF Broadcast, WritesToRows, SentGrows, Sent, Pen, records

\* A socket that nothing is sent over goes on as it did.
LEMMA SocketRests ==
  ASSUME EditorInvariant, NetInOrder, SentGrows, UNCHANGED sock,
         Listening' => Sent(sock.exec)' = Sent(sock.exec)
  PROVE  NetInOrder' /\ \A from \in Nat : Continues(from) => Continues(from)'
<1>1. ASSUME NEW i \in LogsIn(sock.net)
      PROVE  sock.exec \in Executions /\ sock.net[i].at \in Nat
  <2>1. i \in DOMAIN sock.net /\ sock.net \in Seq(Nets) /\ sock.net # <<>>
    BY Parts DEF LogsIn
  <2>2. sock.net[i] \in Nets
    BY <2>1
  <2> QED  BY <2>1, <2>2, SocketOfTheHook, BoundsAssumption DEF Nets
<1>2. Listening' => Listening
  <2>1. sock.at = "open" => sock.exec \in Executions
    BY Parts DEF HookFollows, Ids
  <2> QED  BY <2>1 DEF Listening, SentGrows
<1>3. NetInOrder'
  BY <1>1, <1>2 DEF NetInOrder, SentGrows
<1> QED  BY <1>2, <1>3 DEF Continues

-----------------------------------------------------------------------------
(* The lines go on as they did. *)
\* A view of the same lines is continued as it was, and an empty one is none.
LEMMA ViewGoesOn ==
  ASSUME ViewContinues, UNCHANGED conn,
         view'.lines = <<>> \/ (view'.id = view.id /\ view'.lines = view.lines),
         \A from \in Nat :
           view.lines # <<>> /\ view.lines[1].conn = conn /\ Continues(from) => Continues(from)'
  PROVE  ViewContinues'
<1>1. CASE view'.lines = <<>>
  BY <1>1 DEF ViewContinues
<1>2. CASE view'.lines # <<>> /\ view'.id = view.id /\ view'.lines = view.lines
  <2> SUFFICES ASSUME view.id # None, view.lines # <<>>, view.lines[1].at = 1
               PROVE  \E m \in 0 .. MaxLogs :
                        /\ Shown(view.lines, view.lines[1].conn) = 1 .. m
                        /\ view.lines[1].conn = conn => Continues(m + 1)'
    BY <1>2, Zenon DEF ViewContinues
  <2>1. PICK m \in 0 .. MaxLogs : /\ Shown(view.lines, view.lines[1].conn) = 1 .. m
                                  /\ view.lines[1].conn = conn => Continues(m + 1)
    BY DEF ViewContinues
  <2>2. m + 1 \in Nat
    OBVIOUS
  <2>3. view.lines[1].conn = conn => Continues(m + 1)'
    BY <2>1, <2>2
  <2> QED  BY <2>1, <2>3
<1> QED  BY <1>1, <1>2

\* Steps that leave the socket and what was sent over it alone, and the lines
\* too or clear them.
LEMMA LinesRest ==
  ASSUME EditorInvariant, LinesInvariant, WritesToRows', SentGrows,
         \A e \in Executions : Sent(e)' = Sent(e),
         UNCHANGED <<sock, fetch, conn>>,
         \/ view'.id = view.id /\ view'.lines = view.lines
         \/ view'.lines = <<>> /\ (view'.id = None \/ sock.at = "none")
  PROVE  LinesInvariant'
<1>1. Listening' => Sent(sock.exec)' = Sent(sock.exec)
  BY Parts DEF Listening, HookFollows, Ids
<1>2. NetInOrder' /\ \A from \in Nat : Continues(from) => Continues(from)'
  BY <1>1, SocketRests DEF LinesInvariant
<1>3. OfSockets'
  BY DEF LinesInvariant, OfSockets
<1>4. BackfillContinues'
  <2> SUFFICES ASSUME view'.id # None, view'.lines = <<>>, sock.at # "none",
                      fetch[conn].at = "read"
               PROVE  Continues(fetch[conn].logs + 1)'
    BY DEF BackfillContinues
  <2>1. Continues(fetch[conn].logs + 1)
    BY DEF LinesInvariant, BackfillContinues
  <2>2. fetch[conn].logs + 1 \in Nat
    <3>1. conn \in Conns
      BY Parts, BoundsAssumption DEF HookFollows, Conns
    <3> QED  BY <3>1, Fetches, BoundsAssumption
  <2>3. \A from \in Nat : Continues(from) /\ from = fetch[conn].logs + 1
                            => Continues(fetch[conn].logs + 1)'
    BY <1>2 DEF Continues
  <2> QED  BY <2>1, <2>2, <2>3
<1>5. ViewContinues'
  BY <1>2, ViewGoesOn DEF LinesInvariant
<1> QED  BY <1>2, <1>3, <1>4, <1>5 DEF LinesInvariant

-----------------------------------------------------------------------------
(* The socket's steps. *)
\* A step of the socket alone, if it goes on as it did.
LEMMA SocketSteps ==
  ASSUME EditorInvariant, LinesInvariant, WritesToRows', NetInOrder',
         UNCHANGED <<view, fetch, conn>>,
         sock'.at # "none" => sock.at # "none" /\ sock'.exec = sock.exec,
         sock'.at = "opening" => sock.at = "opening",
         sock.at # "opening" => \A from \in Nat : Continues(from) => Continues(from)'
  PROVE  LinesInvariant'
<1>1. OfSockets'
  BY DEF LinesInvariant, OfSockets
<1>2. BackfillContinues'
  <2> SUFFICES ASSUME view.id # None, view.lines = <<>>, sock'.at # "none",
                      fetch[conn].at = "read"
               PROVE  Continues(fetch[conn].logs + 1)'
    BY DEF BackfillContinues
  <2>1. sock.at # "opening"
    BY DEF LinesInvariant, OfSockets
  <2>2. Continues(fetch[conn].logs + 1)
    BY DEF LinesInvariant, BackfillContinues
  <2>3. fetch[conn].logs + 1 \in Nat
    <3>1. conn \in Conns
      BY Parts, BoundsAssumption DEF HookFollows, Conns
    <3> QED  BY <3>1, Fetches, BoundsAssumption
  <2>4. \A from \in Nat : Continues(from) /\ from = fetch[conn].logs + 1
                            => Continues(fetch[conn].logs + 1)'
    BY <2>1 DEF Continues
  <2> QED  BY <2>2, <2>3, <2>4
<1>3. ViewContinues'
  <2>1. view.lines # <<>> /\ view.lines[1].conn = conn => sock.at # "opening"
    <3>1. view.lines # <<>> => 1 \in DOMAIN view.lines
      <4>1. view.lines \in Seq(Lines)
        BY Parts
      <4> QED  BY <4>1
    <3> QED  BY <3>1 DEF LinesInvariant, OfSockets
  <2> QED  BY <2>1, ViewGoesOn DEF LinesInvariant
<1> QED  BY <1>1, <1>2, <1>3 DEF LinesInvariant

\* Nothing comes over no socket.
LEMMA NoSocket ==
  ASSUME sock' = NoSock
  PROVE  NetInOrder' /\ sock'.at = "none" /\ \A from \in Nat : Continues(from)'
<1>1. sock'.at = "none" /\ sock'.net = <<>>
  BY DEF NoSock, Sock
<1>2. LogsIn(<<>>) = {}
  BY DEF LogsIn
<1> QED  BY <1>1, <1>2 DEF NetInOrder, InOrder, Continues, NoGap, Listening

LEMMA SubscribeLines ==
  ASSUME EditorInvariant, LinesInvariant, WritesToRows', Subscribe
  PROVE  LinesInvariant'
<1> DEFINE net == <<[kind |-> "subscribed", at |-> 0]>>
<1>1. /\ sock.at = "opening" /\ sock' = Sock(sock.exec, "open", net)
      /\ UNCHANGED <<view, fetch, conn>>
  BY DEF Subscribe, store
<1>2. sock'.at = "open" /\ sock'.net = net /\ sock'.exec = sock.exec
  BY <1>1 DEF Sock
<1>3. LogsIn(net) = {}
  BY DEF LogsIn
<1> HIDE DEF net
<1>4. NetInOrder'
  BY <1>2, <1>3 DEF NetInOrder, InOrder
<1> QED  BY <1>1, <1>2, <1>4, SocketSteps

\* What was sent first may still arrive.
LEMMA LoseLines ==
  ASSUME EditorInvariant, LinesInvariant, WritesToRows', Lose
  PROVE  LinesInvariant'
<1>1. /\ UNCHANGED <<view, fetch, conn>> /\ UNCHANGED <<pen, logs>>
      /\ sock.at \in {"opening", "open"} /\ sock.net \in Seq(Nets)
  BY Parts DEF Lose, store, feed, records
<1>2. PICK k \in 0 .. Len(sock.net) : sock' = Sock(sock.exec, "lost", SubSeq(sock.net, 1, k))
  BY DEF Lose
<1>3. sock'.at = "lost" /\ sock'.exec = sock.exec /\ sock'.net = SubSeq(sock.net, 1, k)
  BY <1>2 DEF Sock
<1>4. InOrder(sock'.net)
  BY <1>1, <1>3, PrefixInOrder DEF LinesInvariant, NetInOrder
<1>5. \A i \in LogsIn(sock'.net) : i \in LogsIn(sock.net) /\ sock'.net[i] = sock.net[i]
  BY <1>1, <1>3 DEF LogsIn
<1>6. NetInOrder'
  <2>1. \A i \in LogsIn(sock'.net) : sock'.net[i].at <= Sent(sock.exec)
    BY <1>5 DEF LinesInvariant, NetInOrder
  <2> QED  BY <1>1, <1>3, <1>4, <2>1 DEF NetInOrder, Listening, Sent
<1>7. \A from \in Nat : Continues(from) => Continues(from)'
  BY <1>1, <1>3, PrefixGoesOn DEF Continues, Listening
<1> QED  BY <1>1, <1>3, <1>6, <1>7, SocketSteps

\* An event is sent over the subscribed socket after those before it.
LEMMA EventSent ==
  ASSUME EditorInvariant, LinesInvariant, NEW e \in Executions, Broadcast(e),
         sock.at = "open", sock.exec = e, Announced(e),
         sock' = [sock EXCEPT !.net = Append(@, Event(e))]
  PROVE  /\ sock'.at = "open" /\ sock'.exec = e
         /\ NetInOrder' /\ \A from \in Nat : Continues(from) => Continues(from)'
<1> DEFINE event == Event(e)
           net == sock.net
<1>1. /\ pen[e].at = "written" /\ net \in Seq(Nets) /\ WritesToRows /\ FeedTypeOK
      /\ row \in [Executions -> Status \cup {"none", "deleted"}]
  BY Parts DEF Broadcast, LinesInvariant, FeedTypeOK
<1>2. event \in Nets
  BY <1>1, EventType, BoundsAssumption DEF FeedTypeOK
<1>3. /\ SentGrows /\ UNCHANGED row
      /\ pen[e].what # "log" => Sent(e)' = Sent(e)
      /\ pen[e].what = "log" =>
           logs[e] > 0 /\ logs[e] \in Nat /\ Sent(e) = logs[e] - 1 /\ Sent(e)' = logs[e]
  BY <1>1, BroadcastSends
<1>4. /\ event.kind = pen[e].what
      /\ event.kind = "log" => event.at = logs[e] /\ Listening
  BY <1>1 DEF Event, Announced, Exists, Status, Terminal, Listening
<1>5. /\ sock'.at = "open" /\ sock'.exec = e /\ sock'.net = Append(net, event)
      /\ Listening' = Listening
  <2>1. sock \in Socks
    BY Parts
  <2> QED  BY <1>3, <2>1 DEF Socks, Listening
<1>6. Sent(e) \in Int /\ Sent(e)' \in Int /\ Sent(e) <= Sent(e)'
  BY <1>3 DEF SentGrows
<1>7. \A i \in LogsIn(net) : /\ net[i].at \in Nat /\ net[i].at <= Sent(e) /\ NoGap(net, net[i].at)
                             /\ Listening => Reaches(net, net[i].at, Sent(e))
  <2>1. \A i \in LogsIn(net) : net[i] \in Nets
    BY <1>1 DEF LogsIn
  <2>2. \A item \in Nets : item.at \in Nat
    BY BoundsAssumption DEF Nets
  <2> QED  BY <2>1, <2>2 DEF LinesInvariant, NetInOrder, InOrder
<1> HIDE DEF event, net
<1>8. ASSUME NEW from \in Nat, NoGap(net, from)
      PROVE  /\ event.kind # "log" \/ Reaches(net, from, Sent(e)) => NoGap(Append(net, event), from)
             /\ Listening /\ Reaches(net, from, Sent(e)) => Reaches(Append(net, event), from, Sent(e)')
  <2>1. CASE event.kind = "log"
    <3>1. event.at - 1 = Sent(e) /\ event.at = Sent(e)'
      BY <1>3, <1>4, <2>1
    <3> QED  BY <1>1, <1>2, <1>8, <2>1, <3>1, AppendGoesOn
  <2>2. CASE event.kind # "log"
    <3>1. Sent(e) = Sent(e)'
      BY <1>3, <1>4, <2>2
    <3> QED  BY <1>1, <1>2, <1>6, <1>8, <2>2, <3>1, AppendGoesOn
  <2> QED  BY <2>1, <2>2
<1>9. /\ InOrder(Append(net, event))
      /\ \A i \in LogsIn(Append(net, event)) :
           \/ i \in LogsIn(net) /\ Append(net, event)[i] = net[i]
           \/ i = Len(net) + 1 /\ event.kind = "log" /\ Append(net, event)[i] = event
  <2>1. event.kind = "log" =>
          /\ event.at > 0
          /\ \A i \in LogsIn(net) : net[i].at < event.at /\ Reaches(net, net[i].at, event.at - 1)
    BY <1>3, <1>4, <1>7
  <2>2. InOrder(net)
    BY DEF LinesInvariant, NetInOrder, net
  <2> QED  BY <1>1, <1>2, <2>1, <2>2, AppendInOrder DEF net
<1>10. ASSUME NEW i \in LogsIn(Append(net, event))
       PROVE  /\ Append(net, event)[i].at <= Sent(e)'
              /\ Listening => Reaches(Append(net, event), Append(net, event)[i].at, Sent(e)')
  <2>1. CASE i \in LogsIn(net) /\ Append(net, event)[i] = net[i]
    BY <1>6, <1>7, <1>8, <2>1
  <2>2. CASE event.kind = "log" /\ Append(net, event)[i] = event
    <3>1. event.at \in Nat /\ event.at = Sent(e)' /\ Sent(e) = event.at - 1
      BY <1>3, <1>4, <2>2
    <3>2. NoGap(net, event.at) /\ Reaches(net, event.at, Sent(e))
      BY <1>7, <3>1 DEF NoGap, Reaches
    <3> QED  BY <1>8, <2>2, <3>1, <3>2
  <2> QED  BY <1>9, <2>1, <2>2
<1>11. NetInOrder'
  BY <1>5, <1>9, <1>10 DEF NetInOrder
<1>12. ASSUME NEW from \in Nat, Continues(from)
       PROVE  Continues(from)'
  <2>1. NoGap(net, from) /\ (Listening => Reaches(net, from, Sent(e)))
    BY <1>12 DEF Continues, net
  <2>2. event.kind # "log" \/ Reaches(net, from, Sent(e))
    BY <1>4, <2>1
  <2> QED  BY <1>5, <1>8, <2>1, <2>2 DEF Continues
<1> QED  BY <1>5, <1>11, <1>12

LEMMA PushedLines ==
  ASSUME EditorInvariant, LinesInvariant, NEW e \in Executions, Pushed(e)
  PROVE  LinesInvariant'
<1>1. Broadcast(e) /\ UNCHANGED <<view, fetch, conn>> /\ pen[e].at = "written"
  BY DEF Pushed, store, Broadcast
<1>2. WritesToRows' /\ SentGrows /\ UNCHANGED row /\ \A d \in Executions : d # e => Sent(d)' = Sent(d)
  BY <1>1, BroadcastSends, Parts DEF LinesInvariant
<1>3. CASE sock.exec = e /\ sock.at = "open" /\ Announced(e)
  <2>1. sock' = [sock EXCEPT !.net = Append(@, Event(e))]
    BY <1>3 DEF Pushed, Subscribed
  <2>2. /\ sock'.at = "open" /\ sock'.exec = e
        /\ NetInOrder' /\ \A from \in Nat : Continues(from) => Continues(from)'
    BY <1>1, <1>3, <2>1, EventSent
  <2> QED  BY <1>1, <1>2, <1>3, <2>2, SocketSteps
<1>4. CASE ~ (sock.exec = e /\ sock.at = "open" /\ Announced(e))
  <2>1. sock' = sock
    BY <1>4 DEF Pushed, Subscribed
  <2>2. Listening' => sock.exec # e
    <3>1. ~ Announced(e) => row[e] = "deleted"
      BY <1>1, Parts DEF Announced, Exists, FeedTypeOK, LinesInvariant, WritesToRows
    <3> QED  BY <1>2, <1>4, <2>1, <3>1 DEF Listening
  <2>3. Listening' => Sent(sock.exec)' = Sent(sock.exec)
    BY <1>2, <2>1, <2>2, Parts DEF Listening, HookFollows, Ids
  <2>4. NetInOrder' /\ \A from \in Nat : Continues(from) => Continues(from)'
    BY <1>2, <2>1, <2>3, SocketRests DEF LinesInvariant
  <2> QED  BY <1>1, <1>2, <2>1, <2>4, SocketSteps
<1> QED  BY <1>3, <1>4

\* A new socket has no lines and no backfill yet.
LEMMA ConnectLines ==
  ASSUME EditorInvariant, LinesInvariant, WritesToRows', NEW e \in Ids, Connect(e),
         UNCHANGED <<view, fetch>>
  PROVE  LinesInvariant'
<1>1. /\ conn \in Nat /\ conn' = conn + 1 /\ conn' \in Conns
      /\ sock'.at = "opening" /\ sock'.net = <<>>
  BY Parts, BoundsAssumption DEF Connect, Sock, Conns
<1>2. NetInOrder'
  <2>1. LogsIn(<<>>) = {}
    BY DEF LogsIn
  <2> QED  BY <1>1, <2>1 DEF NetInOrder, InOrder
<1>3. \A i \in DOMAIN view.lines : view.lines[i].conn \in Nat /\ view.lines[i].conn < conn'
  <2>1. \A i \in DOMAIN view.lines : view.lines[i] \in Lines
    <3>1. view.lines \in Seq(Lines)
      BY Parts
    <3> QED  BY <3>1
  <2>2. \A line \in Lines : line.conn \in Nat
    BY DEF Lines, Conns
  <2> QED  BY <1>1, <2>1, <2>2 DEF LinesInvariant, OfSockets
<1>4. fetch'[conn'].at = "none"
  BY <1>1 DEF LinesInvariant, OfSockets, Conns
<1>5. OfSockets'
  <2>1. \A n \in Conns : fetch'[n].at # "none" => n <= conn'
    BY <1>1 DEF LinesInvariant, OfSockets, Conns
  <2> QED  BY <1>1, <1>3, <1>4, <2>1 DEF OfSockets
<1>6. BackfillContinues'
  BY <1>4 DEF BackfillContinues
<1>7. ViewContinues'
  <2>1. view.lines # <<>> => 1 \in DOMAIN view.lines
    <3>1. view.lines \in Seq(Lines)
      BY Parts
    <3> QED  BY <3>1
  <2>2. view.lines # <<>> => view.lines[1].conn # conn'
    BY <1>1, <1>3, <2>1
  <2> QED  BY <2>2, Zenon DEF LinesInvariant, ViewContinues
<1> QED  BY <1>2, <1>5, <1>6, <1>7 DEF LinesInvariant

LEMMA CleanupLines ==
  ASSUME EditorInvariant, LinesInvariant, WritesToRows', sock' = NoSock,
         UNCHANGED <<view, fetch, conn>>
  PROVE  LinesInvariant'
BY NoSocket, SocketSteps DEF NoSock, Sock

\* The hook's own steps: a socket is opened or left.
LEMMA HookLines ==
  ASSUME EditorInvariant, LinesInvariant, WritesToRows', Effect \/ Closed \/ TimerFires
  PROVE  LinesInvariant'
<1>1. UNCHANGED <<view, fetch>>
  BY DEF Effect, Closed, TimerFires, store
<1>2. \/ sock' = NoSock /\ UNCHANGED conn
      \/ \E e \in Ids : Connect(e)
      \/ UNCHANGED <<sock, conn>> /\ UNCHANGED feed
  BY Parts DEF Effect, Closed, TimerFires, Cleanup
<1>3. ASSUME UNCHANGED <<sock, conn>>, UNCHANGED feed
      PROVE  LinesInvariant'
  <2>1. NetInOrder'
    BY <1>3 DEF LinesInvariant, NetInOrder, Listening, Sent, feed, records
  <2>2. \A from \in Nat : Continues(from) => Continues(from)'
    BY <1>3 DEF Continues, Listening, Sent, feed, records
  <2> QED  BY <1>1, <1>3, <2>1, <2>2, SocketSteps
<1> QED  BY <1>1, <1>2, <1>3, ConnectLines, CleanupLines

-----------------------------------------------------------------------------
(* The messages. *)
\* What came over the socket is taken from its front.
LEMMA HeadTaken ==
  ASSUME EditorInvariant, LinesInvariant, UNCHANGED feed, sock.net # <<>>,
         sock' = [sock EXCEPT !.net = Tail(@)]
  PROVE  /\ NetInOrder' /\ sock'.at = sock.at /\ sock'.exec = sock.exec
         /\ \A from, next \in Nat :
              /\ from <= next /\ (Head(sock.net).kind = "log" => Head(sock.net).at < next)
              /\ Continues(from)
              => Continues(next)'
<1>1. /\ sock'.at = sock.at /\ sock'.exec = sock.exec /\ sock'.net = Tail(sock.net)
      /\ sock.net \in Seq(Nets) /\ sock.exec \in Executions
      /\ \A e \in Executions : Sent(e)' = Sent(e)
      /\ Listening' = Listening
  <2>1. sock \in Socks /\ sock.net \in Seq(Nets)
    BY Parts
  <2> QED  BY <2>1, SocketOfTheHook DEF Socks, Sent, Listening, feed, records
<1>2. Sent(sock.exec) \in Int
  BY <1>1, Parts, BoundsAssumption DEF Sent, FeedTypeOK
<1>3. InOrder(Tail(sock.net)) /\ \A i \in LogsIn(Tail(sock.net)) :
        /\ i + 1 \in LogsIn(sock.net) /\ Tail(sock.net)[i] = sock.net[i + 1]
        /\ sock.net[i + 1].at \in Nat
        /\ Head(sock.net).kind = "log" => Head(sock.net).at < sock.net[i + 1].at
  BY <1>1, TailInOrder DEF LinesInvariant, NetInOrder
<1>4. ASSUME NEW i \in LogsIn(Tail(sock.net))
      PROVE  /\ Tail(sock.net)[i].at <= Sent(sock.exec)
             /\ Listening => Reaches(Tail(sock.net), Tail(sock.net)[i].at, Sent(sock.exec))
  <2>1. /\ sock.net[i + 1].at <= Sent(sock.exec)
        /\ Listening => Reaches(sock.net, sock.net[i + 1].at, Sent(sock.exec))
    BY <1>3 DEF LinesInvariant, NetInOrder
  <2>2. \A last \in Int : Reaches(sock.net, sock.net[i + 1].at, last)
                          => Reaches(Tail(sock.net), sock.net[i + 1].at, last)
    BY <1>1, <1>3, TailGoesOn
  <2> QED  BY <1>2, <1>3, <2>1, <2>2
<1>5. NetInOrder'
  <2>1. sock.at \notin {"none", "opening"}
    BY DEF LinesInvariant, NetInOrder
  <2> QED  BY <1>1, <1>3, <1>4, <2>1 DEF NetInOrder
<1>6. ASSUME NEW from \in Nat, NEW next \in Nat, from <= next, Continues(from),
             Head(sock.net).kind = "log" => Head(sock.net).at < next
      PROVE  Continues(next)'
  <2>1. NoGap(Tail(sock.net), next)
    BY <1>1, <1>6, TailGoesOn DEF Continues
  <2>2. Listening => Reaches(Tail(sock.net), next, Sent(sock.exec))
    BY <1>1, <1>2, <1>6, TailGoesOn DEF Continues
  <2> QED  BY <1>1, <2>1, <2>2 DEF Continues
<1> QED  BY <1>1, <1>5, <1>6

\* A line is added at the end.
LEMMA LineAdded ==
  ASSUME NEW lines \in Seq(Lines), NEW line \in Lines
  PROVE  /\ Append(lines, line) # <<>>
         /\ lines # <<>> => 1 \in DOMAIN lines /\ Append(lines, line)[1] = lines[1]
         /\ lines = <<>> => Append(lines, line)[1] = line
         /\ \A i \in DOMAIN Append(lines, line) :
              Append(lines, line)[i] = line \/ (i \in DOMAIN lines /\ Append(lines, line)[i] = lines[i])
         /\ \A n : Shown(Append(lines, line), n)
                     = Shown(lines, n) \cup (IF line.conn = n THEN {line.at} \ {0} ELSE {})
<1> DEFINE more == Append(lines, line)
<1>1. /\ DOMAIN more = 1 .. Len(lines) + 1 /\ DOMAIN lines = 1 .. Len(lines)
      /\ Len(lines) \in Nat /\ (lines = <<>> <=> Len(lines) = 0)
      /\ \A i \in 1 .. Len(lines) : more[i] = lines[i]
      /\ more[Len(lines) + 1] = line /\ more # <<>>
  OBVIOUS
<1> HIDE DEF more
<1>2. \A i \in DOMAIN more : more[i] = line \/ (i \in DOMAIN lines /\ more[i] = lines[i])
  BY <1>1
<1>3. \A i \in DOMAIN lines : i \in DOMAIN more /\ more[i] = lines[i]
  BY <1>1
<1>4. \E i \in DOMAIN more : more[i] = line
  BY <1>1
<1>5. \A n : Shown(more, n) = Shown(lines, n) \cup (IF line.conn = n THEN {line.at} \ {0} ELSE {})
  BY <1>2, <1>3, <1>4 DEF Shown
<1> QED  BY <1>1, <1>2, <1>5 DEF more

\* A message adds a line of its socket.
LEMMA MessageLines ==
  ASSUME EditorInvariant, LinesInvariant, UNCHANGED <<fetch, conn>>, sock.net # <<>>,
         NEW status, NEW k \in 0 .. MaxLogs,
         Shows(status, Append(view.lines, Line(sock.exec, conn, k))),
         sock'.at # "none" => sock'.at = sock.at /\ sock'.exec = sock.exec
  PROVE  /\ OfSockets' /\ BackfillContinues' /\ view'.id = view.id /\ view'.lines # <<>>
         /\ view.lines # <<>> => view'.lines[1] = view.lines[1]
         /\ view.lines = <<>> => view'.lines[1].at = k /\ view'.lines[1].conn = conn
         /\ \A n : Shown(view'.lines, n)
                     = Shown(view.lines, n) \cup (IF conn = n THEN {k} \ {0} ELSE {})
<1> DEFINE line == Line(sock.exec, conn, k)
<1>1. line \in Lines /\ line.conn = conn /\ line.at = k
  BY SocketOfTheHook DEF Line, Lines
<1>2. view.lines \in Seq(Lines) /\ conn \in Nat
  BY Parts
<1>3. view'.id = view.id /\ view'.lines = Append(view.lines, line)
  BY DEF Shows, View
<1>4. sock.at \notin {"none", "opening"}
  BY DEF LinesInvariant, NetInOrder
<1> HIDE DEF line
<1>5. /\ view'.lines # <<>>
      /\ view.lines # <<>> => view'.lines[1] = view.lines[1]
      /\ view.lines = <<>> => view'.lines[1] = line
      /\ \A i \in DOMAIN view'.lines :
           view'.lines[i] = line \/ (i \in DOMAIN view.lines /\ view'.lines[i] = view.lines[i])
      /\ \A n : Shown(view'.lines, n)
                  = Shown(view.lines, n) \cup (IF line.conn = n THEN {line.at} \ {0} ELSE {})
  BY <1>1, <1>2, <1>3, LineAdded
<1>6. OfSockets'
  BY <1>1, <1>2, <1>4, <1>5 DEF LinesInvariant, OfSockets
<1>7. BackfillContinues'
  BY <1>5 DEF BackfillContinues
<1> QED  BY <1>1, <1>3, <1>5, <1>6, <1>7

\* A log line is the next one, or one that the view shows already.
LEMMA LineArrivesLines ==
  ASSUME EditorInvariant, LinesInvariant, WritesToRows', LineArrives
  PROVE  LinesInvariant'
<1> DEFINE k == Head(sock.net).at
<1>1. /\ sock.net # <<>> /\ Head(sock.net).kind = "log"
      /\ Shows(view.status, Append(view.lines, Line(sock.exec, conn, k)))
      /\ sock' = [sock EXCEPT !.net = Tail(@)]
      /\ UNCHANGED feed /\ UNCHANGED <<fetch, conn>>
  BY DEF LineArrives
<1>2. sock.net \in Seq(Nets)
  BY Parts
<1>3. k \in 0 .. MaxLogs
  BY <1>1, SocketOfTheHook DEF Nets
<1>4. /\ NetInOrder' /\ sock'.at = sock.at /\ sock'.exec = sock.exec
      /\ \A from, next \in Nat : from <= next /\ k < next /\ Continues(from) => Continues(next)'
  BY <1>1, HeadTaken
<1>5. /\ OfSockets' /\ BackfillContinues' /\ view'.id = view.id /\ view'.lines # <<>>
      /\ view.lines # <<>> => view'.lines[1] = view.lines[1]
      /\ view.lines = <<>> => view'.lines[1].at = k /\ view'.lines[1].conn = conn
      /\ \A n : Shown(view'.lines, n)
                  = Shown(view.lines, n) \cup (IF conn = n THEN {k} \ {0} ELSE {})
  BY <1>1, <1>3, <1>4, MessageLines
<1>6. /\ 1 \in LogsIn(sock.net) /\ sock.net[1].at = k /\ k > 0
      /\ \A j \in LogsIn(sock.net) : ~ (j < 1)
  <2>1. 1 \in LogsIn(sock.net) /\ sock.net[1].at = k /\ \A j \in LogsIn(sock.net) : ~ (j < 1)
    BY <1>1, <1>2 DEF LogsIn
  <2> QED  BY <2>1 DEF LinesInvariant, NetInOrder, InOrder
<1> HIDE DEF k
<1>7. ViewContinues'
  <2>1. CASE view.lines = <<>>
    <3>1. Shown(view'.lines, conn) = {k}
      <4>1. Shown(view.lines, conn) = {}
        BY <2>1 DEF Shown
      <4> QED  BY <1>5, <1>6, <4>1
    <3>2. k = 1 => Continues(1)
      <4>1. NoGap(sock.net, k) /\ (Listening => Reaches(sock.net, k, Sent(sock.exec)))
        BY <1>6 DEF LinesInvariant, NetInOrder, InOrder
      <4> QED  BY <4>1 DEF Continues
    <3>3. k = 1 => Continues(2)'
      BY <1>4, <3>2
    <3> SUFFICES ASSUME k = 1
                 PROVE  \E m \in 0 .. MaxLogs :
                          Shown(view'.lines, conn) = 1 .. m /\ Continues(m + 1)'
      BY <1>1, <1>5, <2>1 DEF ViewContinues
    <3>4. Shown(view'.lines, conn) = 1 .. 1 /\ 1 \in 0 .. MaxLogs /\ 1 + 1 = 2
      BY <1>3, <3>1
    <3> QED  BY <3>3, <3>4
  <2>2. CASE view.lines # <<>>
    <3> DEFINE n == view.lines[1].conn
    <3> SUFFICES ASSUME view.id # None, view.lines[1].at = 1
                 PROVE  \E m \in 0 .. MaxLogs : /\ Shown(view'.lines, n) = 1 .. m
                                                /\ n = conn => Continues(m + 1)'
      BY <1>1, <1>5, <2>2 DEF ViewContinues
    <3>1. PICK m \in 0 .. MaxLogs : /\ Shown(view.lines, n) = 1 .. m
                                    /\ n = conn => Continues(m + 1)
      BY <2>2 DEF LinesInvariant, ViewContinues
    <3> HIDE DEF n
    <3>2. CASE n # conn
      BY <1>5, <3>1, <3>2
    <3>3. CASE n = conn
      <4>1. NoGap(sock.net, m + 1)
        BY <3>1, <3>3 DEF Continues
      <4>2. k <= m + 1
        <5>1. \A p \in m + 1 .. k - 1 : FALSE
          BY <1>6, <4>1 DEF NoGap, Has
        <5> QED  BY <1>3, <5>1
      <4> DEFINE shown == 1 .. m \cup {k}
      <4>3. Shown(view'.lines, n) = shown
        <5>1. {k} \ {0} = {k}
          BY <1>6
        <5> QED  BY <1>5, <3>1, <3>3, <5>1
      <4>4. CASE k = m + 1
        <5>1. shown = 1 .. m + 1
          BY <4>4
        <5>2. m + 1 \in 0 .. MaxLogs
          BY <1>3, <4>4
        <5>3. Continues((m + 1) + 1)'
          BY <1>4, <3>1, <3>3, <4>4
        <5> QED  BY <4>3, <5>1, <5>2, <5>3
      <4>5. CASE k <= m
        <5>1. shown = 1 .. m
          BY <1>3, <1>6, <4>5
        <5>2. Continues(m + 1)'
          BY <1>3, <1>4, <3>1, <3>3, <4>5
        <5> QED  BY <4>3, <5>1, <5>2
      <4> QED  BY <1>3, <4>2, <4>4, <4>5
    <3> QED  BY <3>2, <3>3
  <2> QED  BY <2>1, <2>2
<1> QED  BY <1>4, <1>5, <1>7 DEF LinesInvariant

\* A status is a line without a number.
LEMMA StatusArrivesLines ==
  ASSUME EditorInvariant, LinesInvariant, WritesToRows', StatusArrives
  PROVE  LinesInvariant'
<1> DEFINE s == Head(sock.net).kind
<1>1. /\ sock.net # <<>> /\ s \in Status
      /\ Shows(s, Append(view.lines, Line(sock.exec, conn, 0)))
      /\ IF s \in Terminal THEN Cleanup ELSE sock' = [sock EXCEPT !.net = Tail(@)] /\ UNCHANGED conn
      /\ UNCHANGED feed /\ UNCHANGED fetch
  BY DEF StatusArrives
<1>2. s # "log" /\ 0 \in 0 .. MaxLogs
  BY <1>1, BoundsAssumption DEF Status, Terminal
<1>3. /\ NetInOrder' /\ UNCHANGED conn
      /\ sock'.at # "none" => sock'.at = sock.at /\ sock'.exec = sock.exec
      /\ \A from \in Nat : Continues(from) => Continues(from)'
  <2>1. CASE s \in Terminal
    BY <1>1, <2>1, NoSocket DEF Cleanup
  <2>2. CASE s \notin Terminal
    <3>1. sock' = [sock EXCEPT !.net = Tail(@)] /\ UNCHANGED conn
      BY <1>1, <2>2
    <3> QED  BY <1>1, <1>2, <3>1, HeadTaken
  <2> QED  BY <2>1, <2>2
<1>4. /\ OfSockets' /\ BackfillContinues' /\ view'.id = view.id /\ view'.lines # <<>>
      /\ view.lines # <<>> => view'.lines[1] = view.lines[1]
      /\ view.lines = <<>> => view'.lines[1].at = 0
      /\ \A n : Shown(view'.lines, n)
                  = Shown(view.lines, n) \cup (IF conn = n THEN {0} \ {0} ELSE {})
  BY <1>1, <1>2, <1>3, MessageLines
<1> HIDE DEF s
<1>5. ViewContinues'
  <2> SUFFICES ASSUME view.id # None, view.lines # <<>>, view.lines[1].at = 1
               PROVE  \E m \in 0 .. MaxLogs :
                        /\ Shown(view'.lines, view.lines[1].conn) = 1 .. m
                        /\ view.lines[1].conn = conn => Continues(m + 1)'
    BY <1>3, <1>4 DEF ViewContinues
  <2>1. PICK m \in 0 .. MaxLogs : /\ Shown(view.lines, view.lines[1].conn) = 1 .. m
                                  /\ view.lines[1].conn = conn => Continues(m + 1)
    BY DEF LinesInvariant, ViewContinues
  <2>2. Shown(view'.lines, view.lines[1].conn) = 1 .. m
    BY <1>4, <2>1
  <2>3. m + 1 \in Nat
    OBVIOUS
  <2> QED  BY <1>3, <2>1, <2>2, <2>3
<1> QED  BY <1>3, <1>4, <1>5 DEF LinesInvariant

-----------------------------------------------------------------------------
(* The backfills. *)
\* The acknowledgement is no line; the backfill is asked for.
LEMMA AcknowledgedLines ==
  ASSUME EditorInvariant, LinesInvariant, WritesToRows', Acknowledged
  PROVE  LinesInvariant'
<1>1. /\ sock.net # <<>> /\ Head(sock.net).kind = "subscribed"
      /\ sock' = [sock EXCEPT !.net = Tail(@)]
      /\ fetch' = [fetch EXCEPT ![conn] = Read(sock.exec, "sent", None, 0)]
      /\ UNCHANGED feed /\ UNCHANGED <<view, conn>>
  BY DEF Acknowledged, store
<1>2. /\ NetInOrder' /\ sock'.at = sock.at /\ sock'.exec = sock.exec
      /\ \A from \in Nat : Continues(from) => Continues(from)'
  BY <1>1, HeadTaken
<1>3. conn \in Conns /\ sock.at \notin {"none", "opening"}
  BY <1>1, SocketOfTheHook DEF LinesInvariant, NetInOrder
<1>4. /\ fetch'[conn].at = "sent" /\ fetch'[conn].exec = sock.exec
      /\ \A n \in Conns : n = conn \/ fetch'[n] = fetch[n]
  BY <1>1, <1>3, Parts DEF Read
<1>5. OfSockets'
  BY <1>1, <1>2, <1>3, <1>4 DEF LinesInvariant, OfSockets, Conns
<1>6. BackfillContinues'
  BY <1>1, <1>4 DEF BackfillContinues
<1>7. ViewContinues'
  BY <1>1, <1>2, ViewGoesOn DEF LinesInvariant
<1> QED  BY <1>2, <1>5, <1>6, <1>7 DEF LinesInvariant

\* The record has all lines that were sent so far: the others come over the socket.
LEMMA FetchReadsLines ==
  ASSUME EditorInvariant, LinesInvariant, WritesToRows', NEW n \in Conns, FetchReads(n)
  PROVE  LinesInvariant'
<1> DEFINE e == fetch[n].exec
<1>1. /\ fetch[n].at = "sent" /\ fetch' = [fetch EXCEPT ![n] = Read(e, "read", row[e], logs[e])]
      /\ UNCHANGED feed /\ UNCHANGED <<view, conn, sock>>
  BY DEF FetchReads, store, link
<1>2. /\ fetch'[n].at = "read" /\ fetch'[n].exec = e /\ fetch'[n].logs = logs[e]
      /\ \A c \in Conns : c = n \/ fetch'[c] = fetch[c]
  BY <1>1, Parts DEF Read
<1>3. NetInOrder' /\ \A from \in Nat : Continues(from) => Continues(from)'
  BY <1>1 DEF LinesInvariant, NetInOrder, Continues, Listening, Sent, feed, records
<1>4. sock.at # "none" => conn \in Conns
  BY Parts, BoundsAssumption DEF HookFollows, Conns
<1>5. OfSockets'
  BY <1>1, <1>2, <1>4 DEF LinesInvariant, OfSockets
<1>6. ViewContinues'
  BY <1>1, <1>3, ViewGoesOn DEF LinesInvariant
<1>7. BackfillContinues'
  <2> SUFFICES ASSUME view.id # None, view.lines = <<>>, sock.at # "none", fetch'[conn].at = "read"
               PROVE  Continues(fetch[conn].logs + 1)'
    BY <1>1 DEF BackfillContinues
  <2>1. CASE n # conn
    <3>1. fetch'[conn] = fetch[conn]
      BY <1>2, <1>4, <2>1
    <3>2. Continues(fetch[conn].logs + 1)
      BY <3>1 DEF LinesInvariant, BackfillContinues
    <3> QED  BY <1>1, <3>1, <3>2 DEF Continues, Listening, Sent, feed, records
  <2>2. CASE n = conn
    <3>1. e = sock.exec /\ e \in Executions
      BY <1>1, <2>2, Fetches DEF LinesInvariant, OfSockets, Ids
    <3>2. Sent(e) \in Int /\ logs[e] \in Nat /\ Sent(e) <= logs[e]
      BY <3>1, Parts, BoundsAssumption DEF Sent, FeedTypeOK
    <3>3. \A i \in LogsIn(sock.net) : sock.net[i].at \in Nat /\ sock.net[i].at <= Sent(e)
      <4>1. \A i \in LogsIn(sock.net) : sock.net[i] \in Nets
        BY Parts DEF LogsIn
      <4>2. \A item \in Nets : item.at \in Nat
        BY BoundsAssumption DEF Nets
      <4> QED  BY <3>1, <4>1, <4>2 DEF LinesInvariant, NetInOrder
    <3> HIDE DEF e
    <3>4. NoGap(sock.net, logs[e] + 1)
      BY <3>2, <3>3 DEF NoGap
    <3>5. Reaches(sock.net, logs[e] + 1, Sent(e))
      BY <3>2 DEF Reaches
    <3>6. fetch'[conn].logs = logs[e] /\ UNCHANGED <<row, pen, logs>>
      BY <1>1, <1>2, <2>2 DEF feed, records
    <3> QED  BY <1>1, <3>1, <3>4, <3>5, <3>6 DEF Continues, Listening, Sent
  <2> QED  BY <2>1, <2>2
<1> QED  BY <1>3, <1>5, <1>6, <1>7 DEF LinesInvariant

\* A backfill is over.
LEMMA FetchFailsLines ==
  ASSUME EditorInvariant, LinesInvariant, WritesToRows', NEW n \in Conns, FetchFails(n)
  PROVE  LinesInvariant'
<1>1. /\ fetch[n].at = "sent" /\ fetch' = [fetch EXCEPT ![n] = NoFetch]
      /\ UNCHANGED feed /\ UNCHANGED <<view, conn, sock>>
  BY DEF FetchFails, store, link
<1>2. \A c \in Conns : fetch'[c] = fetch[c] \/ fetch'[c].at = "none"
  BY <1>1, Parts DEF NoFetch, Read
<1>3. NetInOrder' /\ \A from \in Nat : Continues(from) => Continues(from)'
  BY <1>1 DEF LinesInvariant, NetInOrder, Continues, Listening, Sent, feed, records
<1>4. sock.at # "none" => conn \in Conns
  BY Parts, BoundsAssumption DEF HookFollows, Conns
<1>5. OfSockets'
  BY <1>1, <1>2, <1>4 DEF LinesInvariant, OfSockets
<1>6. ViewContinues'
  BY <1>1, <1>3, ViewGoesOn DEF LinesInvariant
<1>7. BackfillContinues'
  <2> SUFFICES ASSUME view.id # None, view.lines = <<>>, sock.at # "none", fetch'[conn].at = "read"
               PROVE  Continues(fetch[conn].logs + 1)'
    BY <1>1 DEF BackfillContinues
  <2>1. fetch'[conn] = fetch[conn]
    BY <1>2, <1>4
  <2>2. Continues(fetch[conn].logs + 1)
    BY <2>1 DEF LinesInvariant, BackfillContinues
  <2> QED  BY <1>1, <2>1, <2>2 DEF Continues, Listening, Sent, feed, records
<1> QED  BY <1>3, <1>5, <1>6, <1>7 DEF LinesInvariant

\* The lines of a backfill fill an empty view, and the socket's continue them.
LEMMA AppliedLines ==
  ASSUME EditorInvariant, LinesInvariant, WritesToRows', NEW n \in Conns, FetchApplied(n)
  PROVE  LinesInvariant'
<1> DEFINE f == fetch[n]
           new == [i \in 1 .. f.logs |-> Line(f.exec, n, i)]
<1>1. /\ f.at = "read" /\ fetch' = [fetch EXCEPT ![n] = NoFetch]
      /\ view'.id = view.id
      /\ view'.lines = IF view.lines = <<>> THEN new ELSE view.lines
      /\ IF f.status \in Terminal THEN Cleanup ELSE UNCHANGED link
      /\ UNCHANGED feed
  BY DEF FetchApplied, Shows, View
<1>2. /\ fetch'[n].at = "none"
      /\ \A c \in Conns : fetch'[c] = fetch[c] \/ fetch'[c].at = "none"
  BY <1>1, Parts DEF NoFetch, Read
<1>3. sock' = NoSock \/ sock' = sock
  BY <1>1 DEF Cleanup, link
<1>4. UNCHANGED conn
  BY <1>1 DEF Cleanup, link
<1>5. /\ NetInOrder' /\ \A from \in Nat : Continues(from) => Continues(from)'
      /\ sock'.at # "none" => sock' = sock
  <2>1. CASE sock' = NoSock
    BY <2>1, NoSocket
  <2>2. CASE sock' = sock
    BY <1>1, <2>2 DEF LinesInvariant, NetInOrder, Continues, Listening, Sent, feed, records
  <2> QED  BY <1>3, <2>1, <2>2
<1>6. /\ f.logs \in 0 .. MaxLogs /\ n <= conn /\ n \in Nat /\ conn \in Nat
      /\ sock.at # "none" => conn \in Conns
  BY <1>1, Fetches, Parts, BoundsAssumption DEF LinesInvariant, OfSockets, HookFollows, Conns
<1>7. /\ DOMAIN new = 1 .. f.logs /\ (new = <<>> => f.logs = 0)
      /\ \A i \in 1 .. f.logs : new[i].at = i /\ new[i].conn = n
  <2>1. \A i \in 1 .. f.logs : new[i].at = i /\ new[i].conn = n
    BY DEF Line
  <2>2. new = <<>> => DOMAIN new = {}
    OBVIOUS
  <2>3. DOMAIN new = 1 .. f.logs
    OBVIOUS
  <2> HIDE DEF new
  <2> QED  BY <1>6, <2>1, <2>2, <2>3
<1> HIDE DEF new
<1>8. Shown(new, n) = 1 .. f.logs
  BY <1>6, <1>7 DEF Shown
<1>9. OfSockets'
  <2>1. sock'.at = "opening" => n # conn
    BY <1>1, <1>5 DEF LinesInvariant, OfSockets
  <2>2. \A c \in Conns : fetch'[c].at # "none" => c <= conn'
    BY <1>2, <1>4 DEF LinesInvariant, OfSockets
  <2>3. \A i \in DOMAIN view'.lines :
          view'.lines[i].conn <= conn' /\ (sock'.at = "opening" => view'.lines[i].conn # conn')
    BY <1>1, <1>4, <1>5, <1>6, <1>7, <2>1 DEF LinesInvariant, OfSockets
  <2> QED  BY <1>2, <1>4, <1>5, <1>6, <2>2, <2>3 DEF LinesInvariant, OfSockets
<1>10. BackfillContinues'
  <2> SUFFICES ASSUME view.id # None, view'.lines = <<>>, sock'.at # "none", fetch'[conn].at = "read"
               PROVE  Continues(fetch[conn].logs + 1)'
    BY <1>1, <1>4 DEF BackfillContinues
  <2>1. fetch'[conn] = fetch[conn] /\ sock' = sock
    BY <1>2, <1>5, <1>6
  <2>2. view.lines = <<>>
    BY <1>1
  <2>3. Continues(fetch[conn].logs + 1)
    BY <2>1, <2>2 DEF LinesInvariant, BackfillContinues
  <2> QED  BY <1>1, <1>4, <2>1, <2>3 DEF Continues, Listening, Sent, feed, records
<1>11. ViewContinues'
  <2>1. CASE view.lines # <<>>
    BY <1>1, <1>4, <1>5, <2>1, ViewGoesOn DEF LinesInvariant
  <2>2. CASE view.lines = <<>> /\ view'.lines # <<>> /\ view.id # None
    <3>1. view'.lines = new /\ f.logs >= 1 /\ new[1].conn = n
      <4>1. view'.lines = new /\ f.logs # 0
        BY <1>1, <1>7, <2>2
      <4> QED  BY <1>6, <1>7, <4>1
    <3>2. PICK m \in 0 .. MaxLogs : m = f.logs
      BY <1>6
    <3>3. n = conn => Continues(m + 1)'
      <4>1. CASE sock.at = "none"
        <5>1. sock = NoSock
          BY <4>1, Parts DEF HookFollows
        <5>2. sock' = NoSock
          BY <1>3, <5>1
        <5> QED  BY <3>2, <5>2, NoSocket
      <4>2. CASE sock.at # "none" /\ n = conn
        <5>1. Continues(m + 1)
          BY <1>1, <2>2, <3>2, <4>2 DEF LinesInvariant, BackfillContinues
        <5> QED  BY <1>5, <3>2, <5>1
      <4> QED  BY <4>1, <4>2
    <3> QED  BY <1>1, <1>4, <1>6, <1>8, <3>1, <3>2, <3>3 DEF ViewContinues
  <2> QED  BY <1>1, <2>1, <2>2 DEF ViewContinues
<1> QED  BY <1>5, <1>9, <1>10, <1>11 DEF LinesInvariant

-----------------------------------------------------------------------------
(* The lines invariant. *)
\* The other steps leave the socket alone, and the lines too or clear them.
LEMMA OtherLines ==
  ASSUME EditorInvariant, LinesInvariant, UNCHANGED <<sock, fetch, conn>>,
         \/ UNCHANGED feed
         \/ \E e \in Executions : Accept(e) \/ Answer(e) \/ Write(e) \/ CancelAsked(e) \/ Cancel(e),
         \/ view'.id = view.id /\ view'.lines = view.lines
         \/ view'.lines = <<>> /\ (view'.id = None \/ sock.at = "none")
  PROVE  LinesInvariant'
<1>1. WritesToRows' /\ SentGrows /\ \A e \in Executions : Sent(e)' = Sent(e)
  <2>1. CASE UNCHANGED feed
    <3>1. logs \in [Executions -> Nat]
      BY Parts, BoundsAssumption DEF FeedTypeOK
    <3> QED  BY <2>1, <3>1 DEF LinesInvariant, WritesToRows, SentGrows, Sent, feed, records
  <2> QED  BY <2>1, WritesSendNothing, Parts DEF LinesInvariant
<1> QED  BY <1>1, LinesRest

LEMMA ButtonLines ==
  ASSUME EditorInvariant, LinesInvariant, NEW e \in Executions,
         \/ Run(e) \/ Stop(e) \/ CancelledElsewhere(e)
         \/ Started(e) \/ NotStarted(e) \/ Stopped(e)
  PROVE  LinesInvariant'
<1>1. UNCHANGED <<sock, fetch, conn>>
  BY DEF Run, Stop, CancelledElsewhere, Started, NotStarted, Stopped, link
<1>2. \/ UNCHANGED feed
      \/ \E d \in Executions : Accept(d) \/ Answer(d) \/ Write(d) \/ CancelAsked(d) \/ Cancel(d)
  BY DEF Run, Stop, CancelledElsewhere, Started, NotStarted, Stopped
<1>3. \/ view'.id = view.id /\ view'.lines = view.lines
      \/ view'.lines = <<>> /\ (view'.id = None \/ sock.at = "none")
  <2>1. CASE Started(e)
    BY <2>1, Parts DEF Started, View, HookFollows
  <2>2. CASE Stop(e)
    BY <2>2 DEF Stop, View
  <2>3. CASE Stopped(e)
    BY <2>3 DEF Stopped, Shows, View
  <2>4. CASE Run(e) \/ CancelledElsewhere(e) \/ NotStarted(e)
    BY <2>4 DEF Run, CancelledElsewhere, NotStarted, store
  <2> QED  BY <2>1, <2>2, <2>3, <2>4
<1> QED  BY <1>1, <1>2, <1>3, OtherLines

LEMMA LinesKept ==
  ASSUME EditorInvariant, LinesInvariant, [Next]_vars
  PROVE  LinesInvariant'
<1>1. UNCHANGED feed => WritesToRows'
  BY DEF LinesInvariant, WritesToRows, feed, records
<1>2. CASE Buttons
  <2>1. Clear => LinesInvariant'
    BY OtherLines DEF Clear, Empty, View, link
  <2> QED  BY <1>2, <2>1, ButtonLines DEF Buttons
<1>3. CASE HookSteps
  <2>1. UNCHANGED feed
    BY <1>3 DEF HookSteps, Subscribe, Effect, Acknowledged, LineArrives, StatusArrives,
                Closed, TimerFires
  <2> QED  BY <1>1, <1>3, <2>1, SubscribeLines, HookLines, AcknowledgedLines, LineArrivesLines,
              StatusArrivesLines DEF HookSteps
<1>4. CASE Lose
  BY <1>1, <1>4, LoseLines DEF Lose
<1>5. ASSUME NEW n \in Conns, FetchSteps(n) \/ FetchFails(n)
      PROVE  LinesInvariant'
  <2>1. UNCHANGED feed
    BY <1>5 DEF FetchSteps, FetchReads, FetchApplied, FetchFails
  <2> QED  BY <1>1, <1>5, <2>1, FetchReadsLines, AppliedLines, FetchFailsLines DEF FetchSteps
<1>6. ASSUME NEW e \in Executions, Works(e) \/ AnswerSteps(e) \/ Stopped(e)
      PROVE  LinesInvariant'
  <2>1. ASSUME Write(e) \/ Cancel(e), UNCHANGED <<store, hook, link, fetch, bounds, history>>
        PROVE  LinesInvariant'
    BY <2>1, OtherLines DEF store, link
  <2> QED  BY <1>6, <2>1, PushedLines, ButtonLines DEF Works, AnswerSteps
<1>7. CASE UNCHANGED vars
  BY <1>7, OtherLines DEF vars, store, link
<1> QED  BY <1>2, <1>3, <1>4, <1>5, <1>6, <1>7 DEF Next

LEMMA LinesAtInit ==
  ASSUME Init
  PROVE  LinesInvariant
<1>1. /\ view.id = None /\ view.lines = <<>> /\ sock.at = "none" /\ sock.net = <<>>
      /\ \A n \in Conns : fetch[n].at = "none"
      /\ \A e \in Executions : pen[e].at = "idle"
  BY DEF Init, FeedInit, Empty, View, NoSock, Sock, NoFetch, Read, Pen
<1>2. LogsIn(<<>>) = {}
  BY DEF LogsIn
<1>3. WritesToRows
  BY <1>1 DEF WritesToRows, Pen
<1> QED  BY <1>1, <1>2, <1>3
         DEF LinesInvariant, NetInOrder, InOrder, OfSockets, BackfillContinues, ViewContinues

\* A view that starts with the first line of a socket shows those after it.
LEMMA NoGapInView ==
  ASSUME TypeOK, ViewContinues
  PROVE  BackfillLeavesNoGap
<1> DEFINE lines == view.lines
           n == lines[1].conn
<1> SUFFICES ASSUME view.id # None, lines # <<>>, lines[1].at = 1,
                    NEW i \in DOMAIN lines, lines[i].conn = n, lines[i].at > 0,
                    NEW k \in 1 .. lines[i].at
             PROVE  \E j \in DOMAIN lines : lines[j].conn = n /\ lines[j].at > 0 /\ lines[j].at = k
  BY DEF BackfillLeavesNoGap
<1>1. PICK m \in 0 .. MaxLogs : Shown(lines, n) = 1 .. m
  BY DEF ViewContinues
<1>2. lines[i].at \in Nat
  <2>1. view.lines \in Seq(Lines)
    BY TypeParts DEF Views
  <2>2. lines[i] \in Lines
    BY <2>1
  <2> QED  BY <2>2, BoundsAssumption DEF Lines
<1> HIDE DEF lines, n
<1>3. lines[i].at \in Shown(lines, n)
  BY <1>2 DEF Shown
<1>4. k \in Shown(lines, n)
  BY <1>1, <1>2, <1>3
<1> QED  BY <1>4 DEF Shown

-----------------------------------------------------------------------------
(* The call of the SDK. *)
\* It uses the same server.
LEMMA SameFeed ==
  /\ \A e \in Executions :
       /\ Sdk!Accept(e) => Accept(e)
       /\ Sdk!Answer(e) => Answer(e)
       /\ Sdk!Write(e) => Write(e)
       /\ Sdk!Broadcast(e) => Broadcast(e)
       /\ Sdk!CancelAsked(e) => CancelAsked(e)
       /\ Sdk!Cancel(e) => Cancel(e)
       /\ Sdk!Event(e) = Event(e)
  /\ Sdk!Executions = Executions /\ Sdk!Terminal = Terminal
  /\ Sdk!Fault => Fault
  /\ Sdk!feed = feed /\ Sdk!bounds = bounds
<1> USE DEF Sdk!Executions, Executions, Sdk!Terminal, Terminal, Sdk!Status, Status,
            Sdk!Exists, Exists, Sdk!records, records
<1>1. ASSUME NEW e \in Executions
      PROVE  /\ Sdk!Accept(e) => Accept(e)
             /\ Sdk!Answer(e) => Answer(e)
             /\ Sdk!Write(e) => Write(e)
             /\ Sdk!Broadcast(e) => Broadcast(e)
             /\ Sdk!CancelAsked(e) => CancelAsked(e)
             /\ Sdk!Cancel(e) => Cancel(e)
             /\ Sdk!Event(e) = Event(e)
  <2>1. Sdk!NextWrites(e) = NextWrites(e)
    BY DEF Sdk!NextWrites, NextWrites
  <2>2. \A d \in Executions : Sdk!Over(d) = Over(d)
    BY DEF Sdk!Over, Over, Sdk!NextWrites, NextWrites
  <2>3. Sdk!Accept(e) => Accept(e)
    BY <2>2 DEF Sdk!Accept, Accept
  <2>4. Sdk!Answer(e) => Answer(e)
    BY DEF Sdk!Answer, Answer
  <2>5. Sdk!Write(e) => Write(e)
    BY <2>1 DEF Sdk!Write, Write, Sdk!Pen, Pen
  <2>6. Sdk!Broadcast(e) => Broadcast(e)
    BY DEF Sdk!Broadcast, Broadcast, Sdk!Pen, Pen
  <2>7. Sdk!CancelAsked(e) => CancelAsked(e)
    BY DEF Sdk!CancelAsked, CancelAsked
  <2>8. Sdk!Cancel(e) => Cancel(e)
    BY DEF Sdk!Cancel, Cancel
  <2>9. Sdk!Event(e) = Event(e)
    BY DEF Sdk!Event, Event
  <2> QED  BY <2>3, <2>4, <2>5, <2>6, <2>7, <2>8, <2>9
<1>2. Sdk!Fault => Fault
  BY DEF Sdk!Fault, Fault
<1>3. Sdk!feed = feed /\ Sdk!bounds = bounds
  BY DEF Sdk!feed, feed, Sdk!bounds, bounds
<1> QED  BY <1>1, <1>2, <1>3

\* The events of a sequence when one is taken or added or the last are lost.
LEMMA FinalEvents ==
  ASSUME NEW events \in Seq(Kinds), NEW what, OfWrite(events, what)
  PROVE  /\ events # <<>> =>
              /\ Tail(events) \in Seq(Kinds) /\ OfWrite(Tail(events), what)
              /\ Head(events) \in Kinds
              /\ Head(events) \in Terminal => Head(events) = what
              /\ HasFinal(events) /\ Head(events) \notin Terminal => HasFinal(Tail(events))
         /\ \A k \in 0 .. Len(events) :
              SubSeq(events, 1, k) \in Seq(Kinds) /\ OfWrite(SubSeq(events, 1, k), what)
         /\ \A kind \in Kinds :
              /\ Append(events, kind) \in Seq(Kinds)
              /\ (kind \in Terminal => kind = what) => OfWrite(Append(events, kind), what)
              /\ HasFinal(events) \/ kind \in Terminal => HasFinal(Append(events, kind))
<1>1. DOMAIN events = 1 .. Len(events) /\ Len(events) \in Nat
  OBVIOUS
<1>2. ASSUME events # <<>>
      PROVE  /\ Tail(events) \in Seq(Kinds) /\ OfWrite(Tail(events), what)
             /\ Head(events) \in Kinds
             /\ Head(events) \in Terminal => Head(events) = what
             /\ HasFinal(events) /\ Head(events) \notin Terminal => HasFinal(Tail(events))
  <2>1. /\ Tail(events) \in Seq(Kinds) /\ Head(events) \in Kinds /\ Head(events) = events[1]
        /\ DOMAIN Tail(events) = 1 .. Len(events) - 1 /\ 1 \in DOMAIN events
        /\ \A i \in 1 .. Len(events) - 1 : Tail(events)[i] = events[i + 1]
    BY <1>2
  <2>2. \A i \in 2 .. Len(events) : Tail(events)[i - 1] = events[i]
    BY <1>1, <2>1
  <2>3. OfWrite(Tail(events), what)
    BY <1>1, <2>1 DEF OfWrite
  <2>4. HasFinal(events) /\ Head(events) \notin Terminal => HasFinal(Tail(events))
    <3> SUFFICES ASSUME NEW i \in DOMAIN events, events[i] \in Terminal, i # 1
                 PROVE  HasFinal(Tail(events))
      BY <2>1 DEF HasFinal
    <3>1. i \in 2 .. Len(events) /\ i - 1 \in DOMAIN Tail(events)
      BY <1>1, <2>1
    <3> QED  BY <2>2, <3>1 DEF HasFinal
  <2> QED  BY <2>1, <2>3, <2>4 DEF OfWrite
<1>3. ASSUME NEW k \in 0 .. Len(events)
      PROVE  SubSeq(events, 1, k) \in Seq(Kinds) /\ OfWrite(SubSeq(events, 1, k), what)
  <2>1. /\ SubSeq(events, 1, k) \in Seq(Kinds) /\ DOMAIN SubSeq(events, 1, k) = 1 .. k
        /\ \A i \in 1 .. k : SubSeq(events, 1, k)[i] = events[i] /\ i \in DOMAIN events
    BY <1>1
  <2> QED  BY <2>1 DEF OfWrite
<1>4. ASSUME NEW kind \in Kinds
      PROVE  /\ Append(events, kind) \in Seq(Kinds)
             /\ (kind \in Terminal => kind = what) => OfWrite(Append(events, kind), what)
             /\ HasFinal(events) \/ kind \in Terminal => HasFinal(Append(events, kind))
  <2>1. /\ Append(events, kind) \in Seq(Kinds)
        /\ DOMAIN Append(events, kind) = DOMAIN events \cup {Len(events) + 1}
        /\ \A i \in DOMAIN events : Append(events, kind)[i] = events[i]
        /\ Append(events, kind)[Len(events) + 1] = kind
    BY <1>1
  <2> QED  BY <2>1 DEF OfWrite, HasFinal
<1> QED  BY <1>2, <1>3, <1>4

\* A final write of the worker is its last.
LEMMA FinalStays ==
  ASSUME NEW d \in Executions, FeedTypeOK,
         Accept(d) \/ Answer(d) \/ Write(d) \/ Broadcast(d) \/ CancelAsked(d) \/ Cancel(d)
  PROVE  \A e \in Executions : pen[e].what \in Terminal => pen'[e].what = pen[e].what
<1>1. pen \in [Executions -> [at : {"idle", "written"}, what : Writes \cup {"nothing"}]]
  BY DEF FeedTypeOK
<1>2. CASE Write(d)
  <2>1. PICK w \in NextWrites(d) : \E at \in {"written", "idle"} : pen' = [pen EXCEPT ![d] = Pen(at, w)]
    BY <1>2 DEF Write
  <2>2. pen[d].what \notin Terminal
    BY <2>1 DEF NextWrites, Terminal
  <2> QED  BY <1>1, <2>1, <2>2
<1>3. CASE Broadcast(d)
  BY <1>1, <1>3 DEF Broadcast, Pen
<1>4. CASE Accept(d) \/ Answer(d) \/ CancelAsked(d) \/ Cancel(d)
  BY <1>4 DEF Accept, Answer, CancelAsked, Cancel, records
<1> QED  BY <1>2, <1>3, <1>4

\* What the client has of the worker goes on to be its latest write.
LEMMA WriteStays ==
  ASSUME NEW events, NEW what, NEW next, OfWrite(events, what), what \in Terminal => next = what
  PROVE  OfWrite(events, next)
BY DEF OfWrite

\* A call that has not started does not depend on the server.
LEMMA IdleWatch ==
  ASSUME WatchInvariant, call.at = "idle", BoundsOK', FeedTypeOK', UNCHANGED sdkVars
  PROVE  WatchInvariant'
<1>1. pipe.net = <<>> /\ queue = <<>> /\ pipe.at = "none" /\ ~ done
  BY DEF WatchInvariant, WatchesTheWorker, Sdk!NoPipe, Sdk!Pipe
<1> QED  BY <1>1
         DEF WatchInvariant, WatchTypes, WatchesTheWorker, OfWrite, NoLostWakeup,
             Sdk!NoLostWakeup, ReturnExplained, Sdk!ReturnExplained, sdkVars, Sdk!NoPipe

\* The client rests while the server goes on.
LEMMA ServerWatch ==
  ASSUME WatchInvariant, BoundsOK', FeedTypeOK', faults <= faults', faults' \in Nat,
         \A e \in Executions : pen[e].what \in Terminal => pen'[e].what = pen[e].what,
         UNCHANGED sdkVars
  PROVE  WatchInvariant'
<1>1. WatchTypes' /\ faults \in Nat
  <2>1. budget.faults \in Nat
    BY BoundsAssumption DEF WatchInvariant, WatchTypes, BoundsOK
  <2> QED  BY <2>1 DEF WatchInvariant, WatchTypes, BoundsOK, sdkVars
<1>2. CASE call.at = "idle"
  BY <1>2, IdleWatch
<1>3. CASE call.at # "idle"
  <2>1. call.exec \in Executions
    BY <1>3 DEF WatchInvariant, WatchesTheWorker
  <2>2. pen[call.exec].what \in Terminal => pen'[call.exec].what = pen[call.exec].what
    BY <2>1
  <2>3. OfWrite(pipe.net, pen'[call.exec].what) /\ OfWrite(queue, pen'[call.exec].what)
    BY <2>2, WriteStays DEF WatchInvariant, WatchesTheWorker
  <2>4. WatchesTheWorker'
    BY <1>1, <2>1, <2>3 DEF WatchInvariant, WatchesTheWorker, sdkVars, Sdk!NoPipe
  <2>5. NoLostWakeup'
    BY DEF WatchInvariant, NoLostWakeup, Sdk!NoLostWakeup, sdkVars
  <2>6. ReturnExplained'
    BY <1>1, <2>2, SameFeed DEF WatchInvariant, ReturnExplained, Sdk!ReturnExplained, sdkVars, Sdk!Terminal, Terminal
  <2> QED  BY <1>1, <2>4, <2>5, <2>6 DEF WatchInvariant
<1> QED  BY <1>2, <1>3

\* The steps of the call that leave the server as it is.
LEMMA ServerRests ==
  ASSUME WatchInvariant, UNCHANGED <<Sdk!feed, Sdk!bounds>>
  PROVE  BoundsOK' /\ FeedTypeOK' /\ UNCHANGED <<pen, faults>>
BY SameFeed DEF WatchInvariant, WatchTypes, BoundsOK, FeedTypeOK, Sdk!feed, Sdk!records, Sdk!bounds

\* What the steps below use of the invariant, and what there is to show.
LEMMA WatchParts ==
  ASSUME WatchInvariant
  PROVE  /\ WatchTypes /\ WatchesTheWorker /\ NoLostWakeup /\ ReturnExplained
         /\ call.exec = 1 /\ pipe.net \in Seq(Kinds) /\ queue \in Seq(Kinds)
         /\ faults \in Nat
         /\ OfWrite(pipe.net, pen[call.exec].what) /\ OfWrite(queue, pen[call.exec].what)
<1>1. budget.faults \in Nat
  BY BoundsAssumption DEF WatchInvariant, WatchTypes, BoundsOK
<1> QED  BY <1>1 DEF WatchInvariant, WatchTypes, WatchesTheWorker, BoundsOK

\* The call is over, with what the worker wrote or for a reason.
LEMMA EndWatch ==
  ASSUME WatchInvariant, NEW result \in Terminal \cup {"error", "timeout"}, Sdk!End(result),
         BoundsOK', FeedTypeOK', UNCHANGED <<pen, faults>>,
         call.at # "idle", queue' \in Seq(Kinds), OfWrite(queue', pen[call.exec].what),
         done' \in BOOLEAN, late' \in BOOLEAN,
         result \in Terminal => pen[call.exec].what = result,
         result = "timeout" => late' \/ faults > 0
  PROVE  WatchInvariant'
<1>1. /\ call'.at = "over" /\ call'.exec = call.exec /\ call'.result = result
      /\ pipe'.at = "none" /\ pipe'.net = <<>> /\ pipe' = Sdk!NoPipe
  BY DEF Sdk!End, Sdk!Call, Sdk!NoPipe, Sdk!Pipe
<1>2. WatchTypes'
  <2>1. <<>> \in Seq(Kinds)
    OBVIOUS
  <2> QED  BY <2>1, WatchParts DEF WatchTypes, Sdk!End, Sdk!Call, Sdk!NoPipe, Sdk!Pipe
<1>3. WatchesTheWorker'
  <2>1. OfWrite(<<>>, pen[call.exec].what)
    BY DEF OfWrite
  <2>2. call.exec \in Executions
    BY DEF WatchInvariant, WatchesTheWorker
  <2> QED  BY <1>1, <2>1, <2>2 DEF WatchesTheWorker, Sdk!NoPipe
<1>4. NoLostWakeup' /\ ReturnExplained'
  BY <1>1, SameFeed DEF NoLostWakeup, Sdk!NoLostWakeup, ReturnExplained, Sdk!ReturnExplained
<1> QED  BY <1>2, <1>3, <1>4 DEF WatchInvariant

\* The call goes on.
LEMMA CallGoesOn ==
  ASSUME WatchInvariant, BoundsOK', FeedTypeOK', UNCHANGED <<pen, faults>>,
         call.at \notin {"idle", "over"},
         UNCHANGED call \/ \E at \in {"looping", "yielded", "waiting", "woken"} : Sdk!Goes(at),
         call'.at = "waiting" => queue' = <<>> /\ ~ done',
         pipe' \in [at : {"none", "connecting", "checking", "subscribed", "lost"}, net : Seq(Kinds)],
         queue' \in Seq(Kinds), done' \in BOOLEAN, late' \in BOOLEAN,
         OfWrite(pipe'.net, pen[call.exec].what), OfWrite(queue', pen[call.exec].what),
         done' => faults > 0 \/ HasFinal(queue'),
         pipe'.at = "lost" => faults > 0
  PROVE  WatchInvariant'
<1>1. call'.exec = call.exec /\ call'.at \notin {"idle", "over"}
  BY DEF Sdk!Goes, Sdk!Call
<1>2. WatchTypes'
  <2>1. call' \in [at : {"idle", "triggering", "opening", "looping", "yielded", "waiting",
                         "woken", "over"},
                   exec : {1}, result : Terminal \cup {"none", "error", "timeout"}]
    BY WatchParts DEF WatchTypes, Sdk!Goes, Sdk!Call
  <2> QED  BY <2>1 DEF WatchTypes
<1>3. WatchesTheWorker'
  <2>1. call.exec \in Executions
    BY DEF WatchInvariant, WatchesTheWorker
  <2> QED  BY <1>1, <2>1 DEF WatchesTheWorker
<1>4. NoLostWakeup' /\ ReturnExplained'
  BY <1>1 DEF NoLostWakeup, Sdk!NoLostWakeup, ReturnExplained, Sdk!ReturnExplained
<1> QED  BY <1>2, <1>3, <1>4 DEF WatchInvariant

LEMMA MessageWatch ==
  ASSUME WatchInvariant, Sdk!Message
  PROVE  WatchInvariant'
<1> DEFINE kind == Head(pipe.net)
<1>1. /\ pipe.net # <<>> /\ queue' = Append(queue, kind)
      /\ done' = (done \/ kind \in Sdk!Terminal)
      /\ pipe' = [pipe EXCEPT !.net = Tail(@)] /\ UNCHANGED late
      /\ UNCHANGED call \/ Sdk!Goes("woken")
      /\ call.at = "waiting" => Sdk!Goes("woken")
      /\ UNCHANGED <<Sdk!feed, Sdk!bounds>>
  BY DEF Sdk!Message, Sdk!Notify
<1>2. /\ Tail(pipe.net) \in Seq(Kinds) /\ OfWrite(Tail(pipe.net), pen[call.exec].what)
      /\ kind \in Kinds /\ (kind \in Terminal => kind = pen[call.exec].what)
  BY <1>1, WatchParts, FinalEvents
<1> HIDE DEF kind
<1>3. /\ queue' \in Seq(Kinds) /\ OfWrite(queue', pen[call.exec].what)
      /\ HasFinal(queue) \/ kind \in Terminal => HasFinal(queue')
  BY <1>1, <1>2, WatchParts, FinalEvents
<1>4. /\ pipe' \in [at : {"none", "connecting", "checking", "subscribed", "lost"}, net : Seq(Kinds)]
      /\ pipe'.net = Tail(pipe.net) /\ pipe'.at = pipe.at
  BY <1>1, <1>2, WatchParts DEF WatchTypes
<1>5. call.at \notin {"idle", "over"}
  BY <1>1, WatchParts DEF WatchesTheWorker, Sdk!NoPipe, Sdk!Pipe
<1>6. done' \in BOOLEAN /\ (done' => faults > 0 \/ HasFinal(queue'))
  BY <1>1, <1>3, <1>5, WatchParts, SameFeed DEF WatchTypes, WatchesTheWorker
<1>7. call'.at # "waiting"
  BY <1>1 DEF Sdk!Goes, Sdk!Call
<1>8. pipe'.at = "lost" => faults > 0
  BY <1>4, WatchParts DEF WatchesTheWorker
<1>9. late' \in BOOLEAN /\ BoundsOK' /\ FeedTypeOK' /\ UNCHANGED <<pen, faults>>
  BY <1>1, ServerRests, WatchParts DEF WatchTypes
<1> QED  BY <1>1, <1>2, <1>3, <1>4, <1>5, <1>6, <1>7, <1>8, <1>9, CallGoesOn

LEMMA OpenedWatch ==
  ASSUME WatchInvariant, Sdk!Opened
  PROVE  WatchInvariant'
<1>1. /\ pipe.net # <<>> /\ Sdk!Goes("looping") /\ pipe' = [pipe EXCEPT !.net = Tail(@)]
      /\ UNCHANGED <<queue, done, late>> /\ UNCHANGED <<Sdk!feed, Sdk!bounds>>
  BY DEF Sdk!Opened
<1>2. Tail(pipe.net) \in Seq(Kinds) /\ OfWrite(Tail(pipe.net), pen[call.exec].what)
  BY <1>1, WatchParts, FinalEvents
<1>3. /\ pipe' \in [at : {"none", "connecting", "checking", "subscribed", "lost"}, net : Seq(Kinds)]
      /\ pipe'.net = Tail(pipe.net) /\ pipe'.at = pipe.at
  BY <1>1, <1>2, WatchParts DEF WatchTypes
<1>4. call.at \notin {"idle", "over"} /\ call'.at = "looping"
  BY <1>1, WatchParts DEF WatchesTheWorker, Sdk!NoPipe, Sdk!Pipe, Sdk!Goes, Sdk!Call
<1>5. /\ done' => faults > 0 \/ HasFinal(queue')
      /\ pipe'.at = "lost" => faults > 0
      /\ done' \in BOOLEAN /\ late' \in BOOLEAN
  BY <1>1, <1>3, <1>4, WatchParts DEF WatchTypes, WatchesTheWorker
<1>6. BoundsOK' /\ FeedTypeOK' /\ UNCHANGED <<pen, faults>>
  BY <1>1, ServerRests
<1> QED  BY <1>1, <1>2, <1>3, <1>4, <1>5, <1>6, WatchParts, CallGoesOn

\* The close of a lost socket makes the watch done, or the opening fail.
LEMMA ClosedWatch ==
  ASSUME WatchInvariant, Sdk!Closed
  PROVE  WatchInvariant'
<1>1. /\ pipe.at = "lost" /\ done' = TRUE /\ UNCHANGED <<queue, late>>
      /\ UNCHANGED <<Sdk!feed, Sdk!bounds>>
      /\ IF call.at = "opening" THEN Sdk!End("error") ELSE Sdk!Notify /\ pipe' = Sdk!NoPipe
  BY DEF Sdk!Closed
<1>2. call.at \notin {"idle", "over"} /\ faults > 0
  BY <1>1, WatchParts DEF WatchesTheWorker, Sdk!NoPipe, Sdk!Pipe
<1>3. BoundsOK' /\ FeedTypeOK' /\ UNCHANGED <<pen, faults>>
  BY <1>1, ServerRests
<1>4. queue' \in Seq(Kinds) /\ OfWrite(queue', pen[call.exec].what) /\ late' \in BOOLEAN /\ done' \in BOOLEAN
  BY <1>1, WatchParts DEF WatchTypes
<1>5. CASE call.at = "opening"
  <2>1. Sdk!End("error") /\ "error" \notin Terminal
    BY <1>1, <1>5 DEF Terminal
  <2> QED  BY <1>2, <1>3, <1>4, <2>1, EndWatch
<1>6. CASE call.at # "opening"
  <2>1. /\ pipe' = Sdk!NoPipe
        /\ UNCHANGED call \/ Sdk!Goes("woken")
        /\ call'.at # "waiting"
    BY <1>1, <1>6 DEF Sdk!Notify, Sdk!Goes, Sdk!Call
  <2>2. /\ pipe' \in [at : {"none", "connecting", "checking", "subscribed", "lost"}, net : Seq(Kinds)]
        /\ OfWrite(pipe'.net, pen[call.exec].what) /\ pipe'.at = "none"
    <3>1. <<>> \in Seq(Kinds) /\ OfWrite(<<>>, pen[call.exec].what)
      BY DEF OfWrite
    <3>2. pipe' = [at |-> "none", net |-> <<>>]
      BY <2>1 DEF Sdk!NoPipe, Sdk!Pipe
    <3>3. pipe'.at = "none" /\ pipe'.net = <<>>
      BY <3>2
    <3> QED  BY <3>1, <3>2, <3>3
  <2> QED  BY <1>2, <1>3, <1>4, <1>1, <1>6, <2>1, <2>2, CallGoesOn
<1> QED  BY <1>5, <1>6

\* A final event is the call's result.
LEMMA TakeWatch ==
  ASSUME WatchInvariant, Sdk!Take
  PROVE  WatchInvariant'
<1> DEFINE event == Head(queue)
<1>1. /\ call.at = "looping" /\ queue # <<>> /\ queue' = Tail(queue) /\ UNCHANGED <<done, late>>
      /\ UNCHANGED <<Sdk!feed, Sdk!bounds>>
      /\ CASE event = "subscribed" -> UNCHANGED <<call, pipe>>
           [] event \in Sdk!Terminal -> Sdk!End(event)
           [] OTHER -> Sdk!Goes("yielded") /\ UNCHANGED pipe
  BY DEF Sdk!Take
<1>2. /\ queue' \in Seq(Kinds) /\ OfWrite(queue', pen[call.exec].what) /\ event \in Kinds
      /\ event \in Terminal => event = pen[call.exec].what
      /\ HasFinal(queue) /\ event \notin Terminal => HasFinal(queue')
  BY <1>1, WatchParts, FinalEvents
<1>3. BoundsOK' /\ FeedTypeOK' /\ UNCHANGED <<pen, faults>> /\ done' \in BOOLEAN /\ late' \in BOOLEAN
  BY <1>1, ServerRests, WatchParts DEF WatchTypes
<1>4. CASE event \in Terminal
  <2>1. Sdk!End(event) /\ event \in {"completed", "failed", "cancelled"}
    BY <1>1, <1>4, SameFeed DEF Terminal
  <2> HIDE DEF event
  <2>2. PICK result \in {"completed", "failed", "cancelled"} : result = event
    BY <2>1
  <2>3. /\ Sdk!End(result) /\ pen[call.exec].what = result
        /\ result \in Terminal /\ result # "timeout"
    BY <1>2, <1>4, <2>1, <2>2
  <2> QED  BY <1>1, <1>2, <1>3, <2>3, EndWatch
<1>5. CASE event \notin Terminal
  <2>1. /\ UNCHANGED pipe
        /\ UNCHANGED call \/ Sdk!Goes("yielded")
    BY <1>1, <1>5, SameFeed
  <2>2. call'.at # "waiting"
    BY <1>1, <2>1 DEF Sdk!Goes, Sdk!Call
  <2>3. done' => faults > 0 \/ HasFinal(queue')
    BY <1>1, <1>2, <1>5, WatchParts DEF WatchesTheWorker
  <2>4. /\ pipe' \in [at : {"none", "connecting", "checking", "subscribed", "lost"}, net : Seq(Kinds)]
        /\ pipe'.at = "lost" => faults > 0
        /\ OfWrite(pipe'.net, pen[call.exec].what)
    BY <2>1, WatchParts DEF WatchTypes, WatchesTheWorker
  <2> QED  BY <1>1, <1>2, <1>3, <2>1, <2>2, <2>3, <2>4, CallGoesOn
<1> QED  BY <1>4, <1>5

\* The rest of the generator's steps.
LEMMA GeneratorWatch ==
  ASSUME WatchInvariant, Sdk!Resume \/ Sdk!GivesUp \/ Sdk!Wait \/ Sdk!TimeUp
  PROVE  WatchInvariant'
<1>1. UNCHANGED <<Sdk!feed, Sdk!bounds>> /\ UNCHANGED <<queue, done>>
  BY DEF Sdk!Resume, Sdk!GivesUp, Sdk!Wait, Sdk!TimeUp
<1>2. BoundsOK' /\ FeedTypeOK' /\ UNCHANGED <<pen, faults>>
  BY <1>1, ServerRests
<1>3. call.at \in {"looping", "yielded", "waiting", "woken"} /\ late' \in BOOLEAN
  BY WatchParts DEF Sdk!Resume, Sdk!GivesUp, Sdk!Wait, Sdk!TimeUp, WatchTypes
<1>4. /\ queue' \in Seq(Kinds) /\ OfWrite(queue', pen[call.exec].what) /\ done' \in BOOLEAN
      /\ done' => faults > 0 \/ HasFinal(queue')
  BY <1>1, <1>3, WatchParts DEF WatchTypes, WatchesTheWorker
<1>5. ASSUME Sdk!End("timeout") \/ Sdk!End("error"), late' \/ faults > 0
      PROVE  WatchInvariant'
  <2>1. "timeout" \notin Terminal /\ "error" \notin Terminal
    BY DEF Terminal
  <2> QED  BY <1>2, <1>3, <1>4, <1>5, <2>1, EndWatch
<1>6. ASSUME UNCHANGED pipe,
             UNCHANGED call \/ \E at \in {"looping", "yielded", "waiting", "woken"} : Sdk!Goes(at),
             call'.at = "waiting" => queue' = <<>> /\ ~ done'
      PROVE  WatchInvariant'
  <2>1. /\ pipe' \in [at : {"none", "connecting", "checking", "subscribed", "lost"}, net : Seq(Kinds)]
        /\ pipe'.at = "lost" => faults > 0
        /\ OfWrite(pipe'.net, pen[call.exec].what)
    BY <1>6, WatchParts DEF WatchTypes, WatchesTheWorker
  <2> QED  BY <1>2, <1>3, <1>4, <1>6, <2>1, CallGoesOn
<1>7. CASE Sdk!Resume
  BY <1>6, <1>7 DEF Sdk!Resume, Sdk!Goes, Sdk!Call
<1>8. CASE Sdk!GivesUp
  <2>1. ~ HasFinal(<<>>)
    BY DEF HasFinal
  <2>2. faults > 0
    BY <1>3, <1>8, <2>1, WatchParts DEF Sdk!GivesUp, WatchesTheWorker
  <2> QED  BY <1>5, <1>8, <2>2 DEF Sdk!GivesUp
<1>9. CASE Sdk!Wait
  <2>1. /\ queue = <<>> /\ ~ done /\ UNCHANGED late
        /\ IF late THEN Sdk!End("timeout") ELSE Sdk!Goes("waiting") /\ UNCHANGED pipe
    BY <1>9 DEF Sdk!Wait
  <2> QED  BY <1>1, <1>5, <1>6, <2>1
<1>10. CASE Sdk!TimeUp
  <2>1. late' /\ IF call.at = "waiting" THEN Sdk!End("timeout") ELSE UNCHANGED <<call, pipe>>
    BY <1>10 DEF Sdk!TimeUp
  <2> QED  BY <1>1, <1>5, <1>6, <2>1
<1> QED  BY <1>7, <1>8, <1>9, <1>10

\* The connection.
LEMMA ConnectionWatch ==
  ASSUME WatchInvariant, Sdk!TriggerFails \/ Sdk!Upgraded \/ Sdk!Subscribed
  PROVE  WatchInvariant'
<1>1. UNCHANGED <<Sdk!feed, Sdk!bounds>> /\ UNCHANGED <<queue, done, late>>
  BY DEF Sdk!TriggerFails, Sdk!Upgraded, Sdk!Subscribed
<1>2. BoundsOK' /\ FeedTypeOK' /\ UNCHANGED <<pen, faults>>
  BY <1>1, ServerRests
<1>3. queue' \in Seq(Kinds) /\ OfWrite(queue', pen[call.exec].what) /\ done' \in BOOLEAN /\ late' \in BOOLEAN
  BY <1>1, WatchParts DEF WatchTypes
<1>4. CASE Sdk!TriggerFails
  <2>1. Sdk!End("error") /\ call.at # "idle" /\ "error" \notin Terminal
    BY <1>4 DEF Sdk!TriggerFails, Terminal
  <2> QED  BY <1>2, <1>3, <2>1, EndWatch
<1>5. CASE Sdk!Upgraded \/ Sdk!Subscribed
  <2>1. /\ UNCHANGED call /\ pipe.at # "none"
        /\ \/ pipe' = Sdk!Pipe("checking", <<"open">>)
           \/ pipe' = Sdk!Pipe("subscribed", Append(pipe.net, "subscribed"))
    BY <1>5 DEF Sdk!Upgraded, Sdk!Subscribed
  <2>2. call.at \notin {"idle", "over"}
    BY <2>1, WatchParts DEF WatchesTheWorker, Sdk!NoPipe, Sdk!Pipe
  <2>3. /\ "open" \in Kinds /\ "open" \notin Terminal
        /\ "subscribed" \in Kinds /\ "subscribed" \notin Terminal
    BY DEF Kinds, Terminal
  <2>4. /\ Append(pipe.net, "subscribed") \in Seq(Kinds)
        /\ OfWrite(Append(pipe.net, "subscribed"), pen[call.exec].what)
    BY <2>3, WatchParts, FinalEvents
  <2>5. <<"open">> \in Seq(Kinds) /\ OfWrite(<<"open">>, pen[call.exec].what)
    BY <2>3 DEF OfWrite
  <2>6. /\ pipe' \in [at : {"none", "connecting", "checking", "subscribed", "lost"}, net : Seq(Kinds)]
        /\ pipe'.at # "lost" /\ OfWrite(pipe'.net, pen[call.exec].what)
    <3>1. PICK at \in {"checking", "subscribed"}, net \in Seq(Kinds) :
            pipe' = Sdk!Pipe(at, net) /\ OfWrite(net, pen[call.exec].what)
      BY <2>1, <2>4, <2>5
    <3>2. pipe'.at = at /\ pipe'.net = net
      BY <3>1 DEF Sdk!Pipe
    <3> QED  BY <3>1, <3>2 DEF Sdk!Pipe
  <2>7. call'.at = "waiting" => queue' = <<>> /\ ~ done'
    BY <1>1, <2>1, WatchParts DEF NoLostWakeup, Sdk!NoLostWakeup
  <2>8. done' => faults > 0 \/ HasFinal(queue')
    BY <1>1, <2>2, WatchParts DEF WatchesTheWorker
  <2> QED  BY <1>2, <1>3, <2>1, <2>2, <2>6, <2>7, <2>8, CallGoesOn
<1> QED  BY <1>4, <1>5

\* The call starts.
LEMMA TriggerWatch ==
  ASSUME WatchInvariant, NEW e \in Executions, Sdk!Trigger(e) \/ Sdk!Triggered
  PROVE  WatchInvariant'
<1>1. /\ UNCHANGED <<queue, done, late>> /\ UNCHANGED bounds
      /\ call.at \in {"idle", "triggering"}
  BY SameFeed DEF Sdk!Trigger, Sdk!Triggered, Sdk!bounds, bounds
<1>2. call.exec \in Executions /\ (Accept(call.exec) \/ Answer(call.exec)) /\ UNCHANGED pen
  <2>1. CASE Sdk!Trigger(e)
    BY <2>1, SameFeed DEF Sdk!Trigger, Accept
  <2>2. CASE Sdk!Triggered
    <3>1. call.exec \in Executions
      BY <2>2, WatchParts DEF Sdk!Triggered, WatchesTheWorker
    <3> QED  BY <2>2, <3>1, SameFeed DEF Sdk!Triggered, Answer
  <2> QED  BY <2>1, <2>2
<1>3. BoundsOK' /\ FeedTypeOK' /\ UNCHANGED faults
  BY <1>1, <1>2, FeedSteps, FaultKeepsBounds, WatchParts DEF WatchTypes, bounds
<1>4. \/ call'.at = "triggering" /\ UNCHANGED pipe
      \/ call'.at = "opening" /\ pipe' = Sdk!Pipe("connecting", <<>>)
  BY DEF Sdk!Trigger, Sdk!Triggered, Sdk!Goes, Sdk!Call
<1>5. call' \in [at : {"triggering", "opening"}, exec : {1}, result : {"none"}]
  BY WatchParts DEF Sdk!Trigger, Sdk!Triggered, Sdk!Goes, Sdk!Call
<1>6. /\ pipe' \in [at : {"none", "connecting", "checking", "subscribed", "lost"}, net : Seq(Kinds)]
      /\ OfWrite(pipe'.net, pen[call.exec].what) /\ (pipe'.at = "lost" => faults > 0)
  <2>1. CASE UNCHANGED pipe
    BY <2>1, WatchParts DEF WatchTypes, WatchesTheWorker
  <2>2. CASE pipe' = Sdk!Pipe("connecting", <<>>)
    <3>1. <<>> \in Seq(Kinds) /\ OfWrite(<<>>, pen[call.exec].what)
      BY DEF OfWrite
    <3>2. pipe'.at = "connecting" /\ pipe'.net = <<>>
      BY <2>2 DEF Sdk!Pipe
    <3> QED  BY <2>2, <3>1, <3>2 DEF Sdk!Pipe
  <2> QED  BY <1>4, <2>1, <2>2
<1>7. WatchTypes'
  BY <1>1, <1>3, <1>5, <1>6, WatchParts DEF WatchTypes
<1>8. WatchesTheWorker'
  BY <1>1, <1>2, <1>3, <1>5, <1>6, WatchParts DEF WatchesTheWorker
<1>9. NoLostWakeup' /\ ReturnExplained'
  BY <1>5 DEF NoLostWakeup, Sdk!NoLostWakeup, ReturnExplained, Sdk!ReturnExplained
<1> QED  BY <1>7, <1>8, <1>9 DEF WatchInvariant

\* A push announces the worker's latest write.
LEMMA PushedWatch ==
  ASSUME WatchInvariant, NEW e \in Executions, Sdk!Pushed(e)
  PROVE  WatchInvariant'
<1>1. /\ Broadcast(e) /\ UNCHANGED <<call, queue, done, late>> /\ UNCHANGED bounds
      /\ \/ UNCHANGED pipe
         \/ /\ pipe.at = "subscribed" /\ e = call.exec
            /\ pipe' = [pipe EXCEPT !.net = Append(@, Event(e).kind)]
  BY SameFeed DEF Sdk!Pushed, Sdk!bounds, bounds
<1>2. /\ BoundsOK' /\ FeedTypeOK' /\ UNCHANGED faults
      /\ \A d \in Executions : pen[d].what \in Terminal => pen'[d].what = pen[d].what
  BY <1>1, FeedSteps, FaultKeepsBounds, FinalStays, WatchParts DEF WatchTypes, bounds
<1>3. CASE UNCHANGED pipe
  BY <1>1, <1>2, <1>3, ServerWatch, WatchParts DEF sdkVars
<1>4. CASE /\ pipe.at = "subscribed" /\ e = call.exec
           /\ pipe' = [pipe EXCEPT !.net = Append(@, Event(e).kind)]
  <2>1. /\ pen[e].at = "written" /\ Event(e).kind = pen[e].what /\ pen[e].what \in Writes
        /\ pen'[e].what = pen[e].what
    BY <1>1, WatchParts DEF Broadcast, Event, WatchTypes, FeedTypeOK, Pen
  <2>2. /\ Append(pipe.net, Event(e).kind) \in Seq(Kinds)
        /\ OfWrite(Append(pipe.net, Event(e).kind), pen[e].what)
    BY <1>4, <2>1, FinalEvents, WatchParts DEF Kinds
  <2>3. /\ pipe' \in [at : {"none", "connecting", "checking", "subscribed", "lost"}, net : Seq(Kinds)]
        /\ pipe'.at = "subscribed" /\ pipe'.net = Append(pipe.net, Event(e).kind)
    BY <1>4, <2>2, WatchParts DEF WatchTypes
  <2>4. call.at \notin {"idle", "over"}
    BY <1>4, WatchParts DEF WatchesTheWorker, Sdk!NoPipe, Sdk!Pipe
  <2>5. WatchTypes'
    BY <1>1, <1>2, <2>3, WatchParts DEF WatchTypes
  <2>6. WatchesTheWorker'
    BY <1>1, <1>2, <1>4, <2>1, <2>2, <2>3, <2>4, WatchParts DEF WatchesTheWorker
  <2>7. NoLostWakeup' /\ ReturnExplained'
    BY <1>1, <2>4, WatchParts DEF NoLostWakeup, Sdk!NoLostWakeup, ReturnExplained, Sdk!ReturnExplained
  <2> QED  BY <2>5, <2>6, <2>7 DEF WatchInvariant
<1> QED  BY <1>1, <1>3, <1>4

LEMMA LoseWatch ==
  ASSUME WatchInvariant, Sdk!Lose
  PROVE  WatchInvariant'
<1>1. /\ Fault /\ UNCHANGED <<call, queue, done, late>> /\ UNCHANGED feed
      /\ pipe.at \in {"connecting", "checking", "subscribed"}
  BY SameFeed DEF Sdk!Lose, Sdk!feed, feed, Sdk!records, records
<1>2. PICK k \in 0 .. Len(pipe.net) : pipe' = Sdk!Pipe("lost", SubSeq(pipe.net, 1, k))
  BY DEF Sdk!Lose
<1>3. BoundsOK' /\ FeedTypeOK' /\ faults' > 0 /\ UNCHANGED pen
  BY <1>1, FaultKeepsBounds, WatchParts DEF WatchTypes, FeedTypeOK, feed, records, Fault
<1>4. /\ SubSeq(pipe.net, 1, k) \in Seq(Kinds)
      /\ OfWrite(SubSeq(pipe.net, 1, k), pen[call.exec].what)
  BY FinalEvents, WatchParts
<1>5. /\ pipe' \in [at : {"none", "connecting", "checking", "subscribed", "lost"}, net : Seq(Kinds)]
      /\ OfWrite(pipe'.net, pen[call.exec].what)
  BY <1>2, <1>4 DEF Sdk!Pipe
<1>6. call.at \notin {"idle", "over"}
  BY <1>1, WatchParts DEF WatchesTheWorker, Sdk!NoPipe, Sdk!Pipe
<1>7. WatchTypes'
  BY <1>1, <1>3, <1>5, WatchParts DEF WatchTypes
<1>8. WatchesTheWorker'
  BY <1>1, <1>3, <1>5, <1>6, WatchParts DEF WatchesTheWorker
<1>9. NoLostWakeup' /\ ReturnExplained'
  BY <1>1, <1>6, WatchParts DEF NoLostWakeup, Sdk!NoLostWakeup, ReturnExplained, Sdk!ReturnExplained
<1> QED  BY <1>7, <1>8, <1>9 DEF WatchInvariant

LEMMA WatchKept ==
  ASSUME WatchInvariant, Sdk!WatchNext
  PROVE  WatchInvariant'
<1>1. CASE Sdk!Client
  BY <1>1, OpenedWatch, MessageWatch, ClosedWatch, TakeWatch, GeneratorWatch DEF Sdk!Client
<1>2. CASE Sdk!TriggerFails \/ Sdk!Upgraded \/ Sdk!Subscribed \/ Sdk!TimeUp \/ Sdk!Lose
  BY <1>2, ConnectionWatch, GeneratorWatch, LoseWatch
<1>3. CASE Sdk!Triggered
  <2>1. call.exec \in Executions
    BY <1>3, WatchParts DEF Sdk!Triggered, WatchesTheWorker
  <2> QED  BY <1>3, <2>1, TriggerWatch
<1>4. ASSUME NEW e \in Executions, Sdk!Trigger(e) \/ Sdk!Works(e) \/ Sdk!CancelledElsewhere(e)
      PROVE  WatchInvariant'
  <2>1. CASE Sdk!Trigger(e)
    BY <2>1, TriggerWatch
  <2>2. CASE Sdk!Pushed(e)
    BY <2>2, PushedWatch
  <2>3. CASE ~ Sdk!Trigger(e) /\ ~ Sdk!Pushed(e)
    <3>1. /\ Write(e) \/ Cancel(e) \/ CancelAsked(e)
          /\ UNCHANGED sdkVars /\ UNCHANGED bounds
      BY <1>4, <2>3, SameFeed
      DEF Sdk!Works, Sdk!CancelledElsewhere, Sdk!client, sdkVars, Sdk!bounds, bounds
    <3>2. /\ BoundsOK' /\ FeedTypeOK' /\ faults' = faults
          /\ \A d \in Executions : pen[d].what \in Terminal => pen'[d].what = pen[d].what
      BY <3>1, FeedSteps, FaultKeepsBounds, FinalStays, WatchParts DEF WatchTypes, bounds
    <3> QED  BY <3>1, <3>2, ServerWatch, WatchParts
  <2> QED  BY <2>1, <2>2, <2>3
<1> QED  BY <1>1, <1>2, <1>3, <1>4, SameFeed DEF Sdk!WatchNext, Sdk!Connection

-----------------------------------------------------------------------------
(* Both clients. *)
LEMMA ClientsAtInit ==
  ASSUME ClientsInit
  PROVE  ClientsInvariant
<1>1. EditorInvariant /\ LinesInvariant /\ view.id = None
  BY InvariantAtInit, LinesAtInit DEF ClientsInit, Init, Empty, View
<1>2. WatchInvariant /\ call.at = "idle"
  <2>1. /\ call = [at |-> "idle", exec |-> 1, result |-> "none"]
        /\ pipe = [at |-> "none", net |-> <<>>] /\ pipe = Sdk!NoPipe
        /\ queue = <<>> /\ done = FALSE /\ late = FALSE
    BY DEF ClientsInit, Sdk!WatchInit, Sdk!Call, Sdk!NoPipe, Sdk!Pipe
  <2>2. <<>> \in Seq(Kinds) /\ OfWrite(<<>>, pen[call.exec].what)
    BY DEF OfWrite
  <2>3. pipe.at = "none" /\ pipe.net = <<>> /\ call.at = "idle"
    BY <2>1
  <2>4. WatchTypes
    <3>1. BoundsOK /\ FeedTypeOK
      BY <1>1 DEF EditorInvariant, TypeOK
    <3>2. call \in [at : {"idle"}, exec : {1}, result : {"none"}]
      BY <2>1
    <3>3. pipe \in [at : {"none"}, net : Seq(Kinds)]
      BY <2>1, <2>2
    <3> QED  BY <2>1, <2>2, <3>1, <3>2, <3>3 DEF WatchTypes
  <2> QED  BY <2>1, <2>2, <2>3, <2>4
           DEF WatchInvariant, WatchesTheWorker, NoLostWakeup, Sdk!NoLostWakeup,
               ReturnExplained, Sdk!ReturnExplained
<1> QED  BY <1>1, <1>2 DEF ClientsInvariant, ClientsInit

LEMMA ClientsKept ==
  ASSUME ClientsInvariant, [ClientsNext]_clientVars
  PROVE  ClientsInvariant'
<1>1. ASSUME side = "editor", side' = side, UNCHANGED sdkVars, [Next]_vars
      PROVE  ClientsInvariant'
  <2>1. EditorInvariant /\ LinesInvariant /\ WatchInvariant /\ call.at = "idle"
    BY <1>1 DEF ClientsInvariant
  <2>2. EditorInvariant' /\ LinesInvariant'
    BY <1>1, <2>1, InvariantKept, LinesKept
  <2>3. BoundsOK' /\ FeedTypeOK'
    BY <2>2 DEF EditorInvariant, TypeOK
  <2>4. WatchInvariant'
    BY <1>1, <2>1, <2>3, IdleWatch
  <2> QED  BY <1>1, <2>1, <2>2, <2>4 DEF ClientsInvariant, sdkVars
<1>2. ASSUME side = "sdk", side' = side, UNCHANGED editorVars, Sdk!WatchNext
      PROVE  ClientsInvariant'
  <2>1. WatchInvariant /\ view.id = None
    BY <1>2 DEF ClientsInvariant
  <2> QED  BY <1>2, <2>1, WatchKept DEF ClientsInvariant, editorVars, store
<1>3. CASE UNCHANGED clientVars
  <2>1. side' = side /\ UNCHANGED vars /\ UNCHANGED sdkVars
    BY <1>3 DEF clientVars
  <2>2. CASE side = "editor"
    BY <1>1, <2>1, <2>2
  <2>3. CASE side = "sdk"
    <3>1. WatchInvariant /\ view.id = None
      BY <2>3 DEF ClientsInvariant
    <3>2. BoundsOK' /\ FeedTypeOK' /\ UNCHANGED <<pen, faults, view>>
      BY <2>1, <3>1, WatchParts
      DEF WatchTypes, BoundsOK, FeedTypeOK, vars, feed, records, bounds, store
    <3>3. WatchInvariant'
      BY <2>1, <3>1, <3>2, ServerWatch, WatchParts
    <3> QED  BY <2>1, <2>3, <3>1, <3>2, <3>3 DEF ClientsInvariant
  <2> QED  BY <2>2, <2>3 DEF ClientsInvariant
<1> QED  BY <1>1, <1>2, <1>3 DEF ClientsNext, ClientsInvariant

\* The types, the hook's part, the order of the lines and the call's part are one
\* inductive invariant of an execution's two clients (useExecutionSocket,
\* executionStore, Toolbar; ws.ts and executions.ts of the Node SDK).
THEOREM ClientsInvariantHolds == ClientsSpec => []ClientsInvariant
<1>1. ClientsInit => ClientsInvariant
  BY ClientsAtInit
<1>2. ClientsInvariant /\ [ClientsNext]_clientVars => ClientsInvariant'
  BY ClientsKept
<1> QED  BY <1>1, <1>2, PTL DEF ClientsSpec

\* The view of an execution has no line of another one, unless an answer for
\* another execution was applied to it (useExecutionSocket.ts:339-390).
THEOREM OwnLinesHolds == ClientsSpec => []OwnLines
<1>1. ClientsInvariant => OwnLines
  BY DEF ClientsInvariant, EditorInvariant, OwnLines
<1> QED  BY <1>1, ClientsInvariantHolds, PTL

\* A view that shows its execution as going on has a socket or a timer for it
\* (useExecutionSocket.ts:405-422).
THEOREM NeverDeafHolds == ClientsSpec => []NeverDeaf
<1>1. ClientsInvariant => NeverDeaf
  BY DEF ClientsInvariant, EditorInvariant, NeverDeaf
<1> QED  BY <1>1, ClientsInvariantHolds, PTL

\* A view that starts with the first line of a socket or of its backfill shows
\* every line up to its latest: the subscription is made before the read
\* (useExecutionSocket.ts:335-390).
THEOREM NoGapLeft == ClientsSpec => []BackfillLeavesNoGap
<1>1. ClientsInvariant => BackfillLeavesNoGap
  <2>1. CASE side = "editor"
    BY <2>1, NoGapInView DEF ClientsInvariant, EditorInvariant, LinesInvariant
  <2>2. CASE side # "editor"
    BY <2>2 DEF ClientsInvariant, BackfillLeavesNoGap
  <2> QED  BY <2>1, <2>2
<1> QED  BY <1>1, ClientsInvariantHolds, PTL

\* The SDK's generator does not wait with an event in its queue, nor after the
\* watch is done (ws.ts:48-121 of the Node SDK).
THEOREM WakeupsAreNotLost == ClientsSpec => []NoLostWakeup
<1>1. ClientsInvariant => NoLostWakeup
  BY DEF ClientsInvariant, WatchInvariant
<1> QED  BY <1>1, ClientsInvariantHolds, PTL

\* What triggerAndWait returns is what the worker wrote, and it gives up only when
\* the time is up or the socket was lost (ws.ts and executions.ts of the Node SDK).
THEOREM ReturnsAreExplained == ClientsSpec => []ReturnExplained
<1>1. ClientsInvariant => ReturnExplained
  BY DEF ClientsInvariant, WatchInvariant
<1> QED  BY <1>1, ClientsInvariantHolds, PTL
=============================================================================
