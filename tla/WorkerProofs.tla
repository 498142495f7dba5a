---------------------------- MODULE WorkerProofs ----------------------------
(***************************************************************************)
(* Theorems about what a worker process runs: GraphInterpreter, for every  *)
(* set of templates, and PackageCache, for any calls and crashes.  The two *)
(* share no state.                                                         *)
(***************************************************************************)
EXTENDS GraphInterpreter, PackageCache, FiniteSetTheorems, TLAPS

-----------------------------------------------------------------------------
(* The templates. *)

\* The parts of a template have their types.
LEMMA TemplateParts ==
  ASSUME NEW t \in Templates
  PROVE  /\ t.kind \in [Node -> Kind]
         /\ t.branchCount \in [Node -> Nat]
         /\ t.edges \in Seq(Edge)
         /\ \A e \in DOMAIN t.edges : /\ t.edges[e].source \in 0 .. NodeCount
                                      /\ t.edges[e].target \in 0 .. NodeCount
  <1>1. t \in [kind : [Node -> Kind], branchCount : [Node -> Nat], edges : Seq(Edge)]
    BY TemplateAssumption DEF Template
  <1>2. t.edges \in Seq(Edge)
    BY <1>1
  <1>3. \A e \in DOMAIN t.edges : t.edges[e] \in Edge
    BY <1>2
  <1>4. QED
    BY <1>1, <1>2, <1>3 DEF Edge

\* Node and the entries' node ids.
LEMMA NodeRange == /\ NodeCount \in Nat
                   /\ Node \subseteq 0 .. NodeCount
                   /\ Nowhere \in 0 .. NodeCount
                   /\ Nowhere \notin Node
                   /\ 0 .. NodeCount = Node \cup {Nowhere}
  BY TemplateAssumption DEF Node, Nowhere

\* Sets of node ids are finite.
LEMMA NodesFinite ==
  /\ IsFiniteSet(0 .. NodeCount)
  /\ \A S \in SUBSET (0 .. NodeCount) : IsFiniteSet(S) /\ Cardinality(S) \in Nat
  <1>1. IsFiniteSet(0 .. NodeCount)
    BY NodeRange, FS_Interval
  <1>2. QED
    BY <1>1, FS_Subset, FS_CardinalityType

\* The edges a node follows are edges of the template that leave it.
LEMMA SelectedEdges ==
  ASSUME NEW t, NEW n, NEW handles
  PROVE  /\ Selected(t, n, handles) \subseteq DOMAIN t.edges
         /\ \A e \in Selected(t, n, handles) : t.edges[e].source = n
  BY DEF Selected, Outgoing

\* Sets of edges of a template are finite.
LEMMA EdgesFinite ==
  ASSUME NEW t \in Templates, NEW S \in SUBSET (DOMAIN t.edges)
  PROVE  IsFiniteSet(S) /\ Cardinality(S) \in Nat
  <1>1. IsFiniteSet(1 .. Len(t.edges))
    BY TemplateParts, FS_Interval
  <1>2. DOMAIN t.edges = 1 .. Len(t.edges)
    BY TemplateParts
  <1>3. QED
    BY <1>1, <1>2, FS_Subset, FS_CardinalityType

\* What the entries enqueued for a set of positions are.
LEMMA InOrderFacts ==
  ASSUME NEW S, NEW order \in InOrder(S), Cardinality(S) \in Nat
  PROVE  /\ order \in Seq(S)
         /\ Len(order) = Cardinality(S)
         /\ \A i \in 1 .. Cardinality(S) : order[i] \in S
         /\ \A x \in S : \E i \in 1 .. Cardinality(S) : order[i] = x
  BY DEF InOrder

-----------------------------------------------------------------------------
(* Type correctness. *)

\* Finishing the current node keeps the types.
LEMMA FinishNodeTyped ==
  ASSUME TypeOK, pc \in {"exec", "await"}, FinishNode(cur)
  PROVE  /\ queue' \in Seq(Entry)
         /\ completed' \in Seq(Node)
         /\ followed' \subseteq DOMAIN template.edges
         /\ outputs' \in [Node -> 0 .. NodeCount]
         /\ subflow' \in 0 .. NodeCount
         /\ cur' \in Entry
         /\ pc' = "loop"
         /\ UNCHANGED <<template, temporal, final, arrivals>>
  <1> USE NodeRange
  <1>1. /\ template \in Templates
        /\ cur.node \in Node /\ cur.from \in 0 .. NodeCount
        /\ cur.node \in 0 .. NodeCount
    BY DEF TypeOK, Entry
  <1>2. PICK handles : LET next == Selected(template, cur.node, handles)
                       IN  /\ \E order \in InOrder(next) :
                                queue' = queue \o [i \in 1 .. Cardinality(next) |->
                                     [node |-> template.edges[order[i]].target,
                                      from |-> cur.node]]
                           /\ followed' = followed \cup next
    BY DEF FinishNode
  <1> DEFINE next == Selected(template, cur.node, handles)
  <1>3. next \subseteq DOMAIN template.edges
    BY SelectedEdges
  <1>4. followed' \subseteq DOMAIN template.edges
    BY <1>2, <1>3 DEF TypeOK
  <1>5. PICK order \in InOrder(next) :
          queue' = queue \o [i \in 1 .. Cardinality(next) |->
                               [node |-> template.edges[order[i]].target,
                                from |-> cur.node]]
    BY <1>2
  <1>6. Cardinality(next) \in Nat
    BY <1>1, <1>3, EdgesFinite
  <1>7. \A i \in 1 .. Cardinality(next) :
          template.edges[order[i]].target \in 0 .. NodeCount
    BY <1>1, <1>3, <1>6, InOrderFacts, TemplateParts
  <1>8. [i \in 1 .. Cardinality(next) |->
           [node |-> template.edges[order[i]].target, from |-> cur.node]] \in Seq(Entry)
    <2> DEFINE pushed == [i \in 1 .. Cardinality(next) |->
                            [node |-> template.edges[order[i]].target, from |-> cur.node]]
    <2>1. \A i \in 1 .. Cardinality(next) :
            [node |-> template.edges[order[i]].target, from |-> cur.node] \in Entry
      BY <1>1, <1>7 DEF Entry
    <2>2. ASSUME NEW k \in Nat, k = Cardinality(next)
          PROVE  pushed \in Seq(Entry)
      <3> HIDE DEF next
      <3>1. pushed = [i \in 1 .. k |->
                        [node |-> template.edges[order[i]].target, from |-> cur.node]]
        BY <2>2
      <3>2. \A i \in 1 .. k :
              [node |-> template.edges[order[i]].target, from |-> cur.node] \in Entry
        BY <2>1, <2>2
      <3> HIDE DEF pushed
      <3>3. pushed \in [1 .. k -> Entry]
        BY <3>1, <3>2
      <3>4. QED
        BY <3>3
    <2>3. QED
      BY <1>6, <2>2
  <1>9. queue' \in Seq(Entry)
    BY <1>5, <1>8 DEF TypeOK
  <1>10. OutputOf(cur) \in 0 .. NodeCount
    BY <1>1 DEF OutputOf, TypeOK
  <1>11. /\ completed' \in Seq(Node)
         /\ outputs' \in [Node -> 0 .. NodeCount]
         /\ subflow' \in 0 .. NodeCount
         /\ cur' \in Entry
         /\ pc' = "loop"
         /\ UNCHANGED <<template, temporal, final, arrivals>>
    BY <1>1, <1>10 DEF FinishNode, TypeOK, Entry, NoEntry
  <1>12. QED
    BY <1>4, <1>9, <1>11

\* Taking an entry from the queue keeps the types.
LEMMA HeadTyped ==
  ASSUME TypeOK, NEW entry \in Entry, AtHead(entry)
  PROVE  /\ Tail(queue) \in Seq(Entry)
         /\ Arrivals(entry) \in [Node -> SUBSET Node]
  <1>1. Tail(queue) \in Seq(Entry)
    BY DEF AtHead, TypeOK
  <1>2. entry.from # Nowhere => entry.from \in Node
    BY NodeRange DEF Entry
  <1>3. QED
    BY <1>1, <1>2 DEF Arrivals, TypeOK

\* Every step keeps the types.
LEMMA NextTyped ==
  ASSUME TypeOK, [Next]_vars
  PROVE  TypeOK'
  <1> USE NodeRange
  <1>1. NoEntry \in Entry
    BY DEF NoEntry, Entry
  <1>2. ASSUME NEW result \in {"completed", "failed", "cancelled"}, Close(result)
        PROVE  TypeOK'
    BY <1>1, <1>2 DEF Close, TypeOK, graph, world
  <1>3. ASSUME pc \in {"exec", "await"}, FinishNode(cur),
               payload' \in 0 .. NodeCount, inbox' \in Seq(Node),
               UNCHANGED cancelRequested
        PROVE  TypeOK'
    BY <1>3, FinishNodeTyped DEF TypeOK
  <1>4. CASE Seed
    <2>1. PICK order \in InOrder(Roots(template)) :
            queue' = [i \in 1 .. Cardinality(Roots(template)) |->
                        [node |-> order[i], from |-> Nowhere]]
      BY <1>4 DEF Seed, SeedWith
    <2>2. Roots(template) \subseteq Node
      BY DEF Roots
    <2>3. Cardinality(Roots(template)) \in Nat
      BY <2>2, NodesFinite
    <2>4. \A i \in 1 .. Cardinality(Roots(template)) :
            [node |-> order[i], from |-> Nowhere] \in Entry
      BY <2>2, <2>3, InOrderFacts DEF Entry
    <2>5. queue' \in [1 .. Cardinality(Roots(template)) -> Entry]
      BY <2>1, <2>4
    <2>6. queue' \in Seq(Entry)
      BY <2>3, <2>5
    <2>7. QED
      BY <1>4, <2>6 DEF Seed, SeedWith, TypeOK, world
  <1>5. CASE BootFails
    BY <1>5, <1>2 DEF BootFails
  <1>6. CASE Dequeue
    <2>1. PICK entry \in Entry : Drop(entry) \/ Begin(entry)
      BY <1>6 DEF Dequeue
    <2>2. AtHead(entry)
      BY <2>1 DEF Drop, Begin
    <2>3. CASE Drop(entry)
      BY <2>2, <2>3, HeadTyped DEF Drop, TypeOK, control, world
    <2>4. CASE Begin(entry)
      BY <2>2, <2>4, HeadTyped DEF Begin, TypeOK, world
    <2>5. QED
      BY <2>1, <2>3, <2>4
  <1>7. CASE Execute
    <2>1. CASE RunNow
      BY <2>1, <1>3 DEF RunNow, TypeOK, world
    <2>2. CASE StartAwait
      BY <2>2 DEF StartAwait, TypeOK, graph, world
    <2>3. CASE StartRejected
      BY <2>3, <1>2 DEF StartRejected
    <2>4. CASE ThrowsPlainError
      BY <2>4, <1>1 DEF ThrowsPlainError, TypeOK, graph, world
    <2>5. QED
      BY <1>7, <2>1, <2>2, <2>3, <2>4 DEF Execute
  <1>8. CASE Answer
    <2>1. CASE Resolved
      BY <2>1, <1>3 DEF Resolved, Waiting, TypeOK, world
    <2>2. CASE ActivityFails
      BY <2>2, <1>2 DEF ActivityFails
    <2>3. CASE WebhookReceived
      <3>1. inbox[Len(inbox)] \in Node
        <4>1. inbox \in Seq(Node) /\ inbox # <<>>
          BY <2>3 DEF WebhookReceived, TypeOK
        <4>2. Len(inbox) \in 1 .. Len(inbox)
          BY <4>1
        <4>3. QED
          BY <4>1, <4>2
      <3>2. /\ payload' \in 0 .. NodeCount
            /\ inbox' \in Seq(Node)
            /\ UNCHANGED cancelRequested
        BY <2>3, <3>1 DEF WebhookReceived
      <3>3. pc \in {"exec", "await"} /\ FinishNode(cur)
        BY <2>3 DEF WebhookReceived, Waiting
      <3>4. QED
        BY <3>2, <3>3, <1>3
    <2>4. CASE WebhookTimesOut
      BY <2>4, <1>2 DEF WebhookTimesOut
    <2>5. CASE AwaitCancelled
      BY <2>5, <1>2 DEF AwaitCancelled
    <2>6. QED
      BY <1>8, <2>1, <2>2, <2>3, <2>4, <2>5 DEF Answer
  <1>9. CASE Child
    <2>1. CASE ChildCompletes
      BY <2>1, <1>3 DEF ChildCompletes, Waiting, TypeOK, world
    <2>2. CASE ChildFails \/ ChildCancelled
      BY <2>2, <1>2 DEF ChildFails, ChildCancelled
    <2>3. QED
      BY <1>9, <2>1, <2>2 DEF Child
  <1>10. CASE End
    <2>1. CASE StartFinish
      BY <2>1 DEF StartFinish, TypeOK, graph, world
    <2>2. CASE FinishRejected \/ FinishFails \/ Finish
      BY <2>2, <1>2 DEF FinishRejected, FinishFails, Finish
    <2>3. QED
      BY <1>10, <2>1, <2>2 DEF End
  <1>11. CASE RequestCancel
    BY <1>11 DEF RequestCancel, TypeOK, control, graph
  <1>12. ASSUME NEW w \in Webhooks, Signal(w)
         PROVE  TypeOK'
    BY <1>12 DEF Signal, Webhooks, TypeOK, control, graph
  <1>13. CASE UNCHANGED vars
    BY <1>13 DEF vars, control, graph, world, TypeOK
  <1>14. QED
    BY <1>4, <1>5, <1>6, <1>7, <1>8, <1>9, <1>10, <1>11, <1>12, <1>13
    DEF Next, Worker, Environment

\* The initial states have the types.
LEMMA InitTyped ==
  ASSUME Init
  PROVE  TypeOK
  <1>1. /\ Webhooks \cup {Nowhere} \subseteq 0 .. NodeCount
        /\ NoEntry \in Entry
    BY NodeRange DEF Webhooks, NoEntry, Entry
  <1>2. /\ queue \in Seq(Entry) /\ completed \in Seq(Node) /\ inbox \in Seq(Node)
        /\ arrivals \in [Node -> SUBSET Node]
        /\ outputs \in [Node -> 0 .. NodeCount]
    BY NodeRange DEF Init
  <1>3. payload \in 0 .. NodeCount
    BY <1>1 DEF Init
  <1>4. QED
    BY <1>1, <1>2, <1>3, NodeRange DEF Init, TypeOK

\* In every reachable state of a run each variable of the interpreter has the
\* type the code gives it: the traversal names only nodes and edges of its
\* template, and a node is being executed exactly where the code runs one.
THEOREM TypeCorrect == Spec => []TypeOK
  <1>1. Init => TypeOK
    BY InitTyped
  <1>2. TypeOK /\ [Next]_vars => TypeOK'
    BY NextTyped
  <1>3. QED
    BY <1>1, <1>2, PTL DEF Spec

-----------------------------------------------------------------------------
(* What the steps do to the queue and to the completed nodes. *)

\* Dequeuing loses the head and nothing else.
LEMMA TailEntries ==
  ASSUME NEW q \in Seq(Entry), q # <<>>
  PROVE  /\ Head(q) = q[1]
         /\ 1 \in DOMAIN q
         /\ \A i \in DOMAIN q : i = 1 \/ \E j \in DOMAIN Tail(q) : Tail(q)[j] = q[i]
         /\ \A j \in DOMAIN Tail(q) : \E i \in DOMAIN q : Tail(q)[j] = q[i]
  <1>1. /\ Len(q) \in Nat /\ Len(q) >= 1
        /\ DOMAIN q = 1 .. Len(q)
        /\ Tail(q) \in Seq(Entry)
        /\ Len(Tail(q)) = Len(q) - 1
        /\ DOMAIN Tail(q) = 1 .. Len(q) - 1
        /\ \A j \in 1 .. Len(q) - 1 : Tail(q)[j] = q[j + 1]
    OBVIOUS
  <1>2. \A i \in DOMAIN q : i = 1 \/ \E j \in DOMAIN Tail(q) : Tail(q)[j] = q[i]
    <2>1. ASSUME NEW i \in 1 .. Len(q), i # 1
          PROVE  i - 1 \in 1 .. Len(q) - 1 /\ Tail(q)[i - 1] = q[i]
      BY <1>1, <2>1
    <2>2. QED
      BY <1>1, <2>1
  <1>3. \A j \in DOMAIN Tail(q) : \E i \in DOMAIN q : Tail(q)[j] = q[i]
    <2>1. ASSUME NEW j \in 1 .. Len(q) - 1
          PROVE  j + 1 \in 1 .. Len(q) /\ Tail(q)[j] = q[j + 1]
      BY <1>1, <2>1
    <2>2. QED
      BY <1>1, <2>1
  <1>4. QED
    BY <1>1, <1>2, <1>3

\* Completing a node adds it at the end.
LEMMA CompletedGrows ==
  ASSUME completed \in Seq(Node), NEW n \in Node, completed' = Append(completed, n)
  PROVE  /\ Completed' = Completed \cup {n}
         /\ Len(completed') = Len(completed) + 1
         /\ Len(completed) \in Nat
         /\ DOMAIN completed = 1 .. Len(completed)
         /\ DOMAIN completed' = 1 .. Len(completed) + 1
         /\ \A i \in 1 .. Len(completed) : completed'[i] = completed[i]
         /\ completed'[Len(completed) + 1] = n
  <1>1. /\ Len(completed') = Len(completed) + 1
        /\ Len(completed) \in Nat
        /\ DOMAIN completed = 1 .. Len(completed)
        /\ DOMAIN completed' = 1 .. Len(completed) + 1
        /\ \A i \in 1 .. Len(completed) : completed'[i] = completed[i]
        /\ completed'[Len(completed) + 1] = n
    OBVIOUS
  <1>2. \A i \in DOMAIN completed' : completed'[i] \in Completed \cup {n}
    BY <1>1 DEF Completed
  <1>3. \A i \in DOMAIN completed : \E j \in DOMAIN completed' : completed'[j] = completed[i]
    BY <1>1
  <1>4. \E j \in DOMAIN completed' : completed'[j] = n
    BY <1>1
  <1>5. Completed' = Completed \cup {n}
    BY <1>2, <1>3, <1>4 DEF Completed
  <1>6. QED
    BY <1>1, <1>5

\* Finishing a node enqueues the targets of the edges it follows, each once,
\* behind the entries that were there.
LEMMA FinishNodeEffect ==
  ASSUME TypeOK, InRun, FinishNode(cur)
  PROVE  \E handles \in OutgoingHandles(KindOf(cur.node)) :
           LET next == Selected(template, cur.node, handles)
           IN  /\ followed' = followed \cup next
               /\ \A i \in DOMAIN queue : i \in DOMAIN queue' /\ queue'[i] = queue[i]
               /\ \A i \in DOMAIN queue' \ DOMAIN queue : \E e \in next :
                    queue'[i] = [node |-> template.edges[e].target, from |-> cur.node]
               /\ \A e \in next : \E i \in DOMAIN queue' :
                    queue'[i] = [node |-> template.edges[e].target, from |-> cur.node]
  <1>1. PICK handles \in OutgoingHandles(KindOf(cur.node)) :
          LET next == Selected(template, cur.node, handles)
          IN  /\ \E order \in InOrder(next) :
                   queue' = queue \o [i \in 1 .. Cardinality(next) |->
                              [node |-> template.edges[order[i]].target,
                               from |-> cur.node]]
              /\ followed' = followed \cup next
    BY DEF FinishNode
  <1> DEFINE next == Selected(template, cur.node, handles)
             entryOf(e) == [node |-> template.edges[e].target, from |-> cur.node]
  <1>2. PICK order \in InOrder(next) :
          queue' = queue \o [i \in 1 .. Cardinality(next) |-> entryOf(order[i])]
    BY <1>1
  <1>3. Cardinality(next) \in Nat
    BY SelectedEdges, EdgesFinite DEF TypeOK
  <1>4. PICK k \in Nat : k = Cardinality(next)
    BY <1>3
  <1> DEFINE pushed == [i \in 1 .. k |-> entryOf(order[i])]
  <1>5. queue' = queue \o pushed
    BY <1>2, <1>4
  <1>6. /\ \A i \in 1 .. k : order[i] \in next
        /\ \A e \in next : \E i \in 1 .. k : order[i] = e
    BY <1>3, <1>4, InOrderFacts
  <1>7. \A i \in 1 .. k : \E e \in next : pushed[i] = entryOf(e)
    BY <1>6
  <1>8. \A e \in next : \E i \in 1 .. k : pushed[i] = entryOf(e)
    BY <1>6
  <1>9. /\ Len(queue) \in Nat /\ DOMAIN queue = 1 .. Len(queue)
        /\ DOMAIN queue' = 1 .. Len(queue) + k
        /\ \A i \in 1 .. Len(queue) : queue'[i] = queue[i]
        /\ \A i \in 1 .. k : queue'[Len(queue) + i] = pushed[i]
    <2>1. queue \in Seq(Entry) /\ Len(queue) \in Nat /\ DOMAIN queue = 1 .. Len(queue)
      BY DEF TypeOK
    <2>2. pushed \in Seq({pushed[i] : i \in 1 .. k}) /\ Len(pushed) = k
      <3>2. pushed = [i \in 1 .. k |-> pushed[i]]
        OBVIOUS
      <3> HIDE DEF pushed
      <3>3. pushed \in [1 .. k -> {pushed[j] : j \in 1 .. k}]
        BY <3>2
      <3>4. PICK S : pushed \in [1 .. k -> S] /\ S = {pushed[j] : j \in 1 .. k}
        BY <3>3
      <3>5. pushed \in Seq(S) /\ Len(pushed) = k
        BY <1>4, <3>4
      <3>6. QED
        BY <3>4, <3>5
    <2> HIDE DEF pushed
    <2>3. PICK S : pushed \in Seq(S)
      BY <2>2
    <2>4. /\ queue \in Seq(Entry \cup S) /\ pushed \in Seq(Entry \cup S)
      BY <2>1, <2>3
    <2>5. /\ Len(queue \o pushed) = Len(queue) + k
          /\ DOMAIN (queue \o pushed) = 1 .. Len(queue) + k
      BY <2>1, <2>2, <2>4
    <2>6. \A i \in 1 .. Len(queue) : (queue \o pushed)[i] = queue[i]
      BY <2>1, <2>2, <2>4
    <2>7. \A i \in 1 .. k : (queue \o pushed)[Len(queue) + i] = pushed[i]
      BY <2>1, <2>2, <2>4
    <2>8. QED
      BY <1>5, <2>1, <2>5, <2>6, <2>7
  <1>10. \A i \in DOMAIN queue' \ DOMAIN queue : i - Len(queue) \in 1 .. k
                       /\ queue'[i] = pushed[i - Len(queue)]
    <2> HIDE DEF pushed
    <2>1. ASSUME NEW i \in 1 .. Len(queue) + k, i \notin 1 .. Len(queue)
          PROVE  i - Len(queue) \in 1 .. k /\ i = Len(queue) + (i - Len(queue))
      BY <1>9, <2>1
    <2>2. QED
      BY <1>9, <2>1
  <1>11. \A i \in DOMAIN queue' \ DOMAIN queue : \E e \in next : queue'[i] = entryOf(e)
    <2> HIDE DEF pushed, next
    <2>1. QED
      BY <1>7, <1>10
  <1>12. \A e \in next : \E i \in DOMAIN queue' : queue'[i] = entryOf(e)
    <2> HIDE DEF pushed, next
    <2>1. \A i \in 1 .. k : Len(queue) + i \in DOMAIN queue'
      BY <1>9
    <2>2. QED
      BY <1>8, <1>9, <2>1
  <1>13. \A i \in DOMAIN queue : i \in DOMAIN queue' /\ queue'[i] = queue[i]
    BY <1>9
  <1>14. QED
    BY <1>1, <1>11, <1>12, <1>13

-----------------------------------------------------------------------------
(* The queue invariant is preserved. *)

\* Finishing a node: its entry is served, its followed edges are queued.
LEMMA FinishNodeKeepsInvariant ==
  ASSUME QueueInvariant, TypeOK', InRun, FinishNode(cur)
  PROVE  QueueInvariant'
  <1> USE NodeRange
  <1>1. /\ TypeOK /\ NodeRunsOnce /\ EntriesJustified /\ FollowedFromCompleted
        /\ ArrivalsAccounted /\ NothingLost /\ Phases
    BY DEF QueueInvariant
  <1>2. /\ pc' = "loop" /\ completed' = Append(completed, cur.node)
        /\ template' = template /\ temporal' = temporal /\ arrivals' = arrivals
    BY DEF FinishNode
  <1>3. /\ cur.node \in Node /\ cur.node \notin Completed
        /\ completed \in Seq(Node)
    BY <1>1 DEF TypeOK, NodeRunsOnce, InRun
  <1>4. PICK handles \in OutgoingHandles(KindOf(cur.node)) :
           LET next == Selected(template, cur.node, handles)
           IN  /\ followed' = followed \cup next
               /\ \A i \in DOMAIN queue : i \in DOMAIN queue' /\ queue'[i] = queue[i]
               /\ \A i \in DOMAIN queue' \ DOMAIN queue : \E e \in next :
                    queue'[i] = [node |-> template.edges[e].target, from |-> cur.node]
               /\ \A e \in next : \E i \in DOMAIN queue' :
                    queue'[i] = [node |-> template.edges[e].target, from |-> cur.node]
    BY <1>1, FinishNodeEffect
  <1> DEFINE next == Selected(template, cur.node, handles)
  <1>5. \A e \in next : template.edges[e].source = cur.node
    BY SelectedEdges
  <1>6. /\ followed' = followed \cup next
        /\ \A i \in DOMAIN queue : i \in DOMAIN queue' /\ queue'[i] = queue[i]
        /\ \A i \in DOMAIN queue' \ DOMAIN queue : \E e \in next :
              queue'[i] = [node |-> template.edges[e].target, from |-> cur.node]
        /\ \A e \in next : \E i \in DOMAIN queue' :
              queue'[i] = [node |-> template.edges[e].target, from |-> cur.node]
    BY <1>4
  <1> HIDE DEF next
  <1>7. Completed' = Completed \cup {cur.node}
    BY <1>2, <1>3, CompletedGrows
  <1>8. NodeRunsOnce'
    <2>1. \A i, j \in DOMAIN completed' : completed'[i] = completed'[j] => i = j
      <3>1. /\ \A i, j \in 1 .. Len(completed) : completed[i] = completed[j] => i = j
            /\ \A i \in 1 .. Len(completed) : completed[i] # cur.node
        BY <1>1, <1>3 DEF NodeRunsOnce, Completed
      <3>2. QED
        BY <3>1, <1>2, <1>3, CompletedGrows
    <2>2. QED
      BY <2>1, <1>2 DEF NodeRunsOnce
  <1>9. EntriesJustified'
    <2>1. ASSUME NEW i \in DOMAIN queue'
          PROVE  Justified(queue[i])'
      <3>1. CASE i \in DOMAIN queue
        <4>1. Justified(queue[i]) /\ queue'[i] = queue[i]
          BY <1>1, <1>6, <3>1 DEF EntriesJustified
        <4>2. QED
          BY <4>1, <1>2, <1>6 DEF Justified
      <3>2. CASE i \notin DOMAIN queue
        <4>1. PICK e \in next :
                queue'[i] = [node |-> template.edges[e].target, from |-> cur.node]
          BY <1>6, <3>2
        <4>2. e \in followed' /\ template.edges[e].source = cur.node
          BY <1>5, <1>6, <4>1
        <4>3. QED
          BY <4>1, <4>2, <1>2 DEF Justified
      <3>3. QED
        BY <3>1, <3>2
    <2>2. QED
      BY <2>1, <1>2 DEF EntriesJustified, InRun
  <1>10. FollowedFromCompleted'
    BY <1>1, <1>2, <1>5, <1>6, <1>7 DEF FollowedFromCompleted
  <1>11. ArrivalsAccounted'
    <2> SUFFICES ASSUME NEW n \in Node
                 PROVE  /\ arrivals'[n] \subseteq SourcesOf(n)'
                        /\ KindOf(n)' = "merge_all" =>
                             SourcesOf(n)' \subseteq
                               arrivals'[n] \cup {queue'[i].from : i \in QueuedFor(n)'}
      BY DEF ArrivalsAccounted
    <2>1. /\ arrivals[n] \subseteq SourcesOf(n)
          /\ KindOf(n) = "merge_all" =>
               SourcesOf(n) \subseteq arrivals[n] \cup {queue[i].from : i \in QueuedFor(n)}
      BY <1>1 DEF ArrivalsAccounted
    <2>2. SourcesOf(n) \subseteq SourcesOf(n)'
      BY <1>2, <1>6 DEF SourcesOf
    <2>3. KindOf(n)' = KindOf(n)
      BY <1>2 DEF KindOf
    <2>4. ASSUME KindOf(n) = "merge_all", NEW s \in SourcesOf(n)'
          PROVE  s \in arrivals[n] \cup {queue'[i].from : i \in QueuedFor(n)'}
      <3>1. PICK e \in followed' : template.edges[e].target = n /\ template.edges[e].source = s
        BY <1>2 DEF SourcesOf
      <3>2. CASE e \in followed
        <4>1. s \in arrivals[n] \cup {queue[i].from : i \in QueuedFor(n)}
          BY <2>1, <2>4, <3>1, <3>2 DEF SourcesOf
        <4>2. \A i \in QueuedFor(n) : i \in QueuedFor(n)' /\ queue'[i].from = queue[i].from
          BY <1>6 DEF QueuedFor
        <4>3. QED
          BY <4>1, <4>2
      <3>3. CASE e \in next
        <4>1. PICK i \in DOMAIN queue' :
                queue'[i] = [node |-> template.edges[e].target, from |-> cur.node]
          BY <1>6, <3>3
        <4>2. i \in QueuedFor(n)' /\ queue'[i].from = s
          BY <4>1, <3>1, <3>3, <1>5 DEF QueuedFor
        <4>3. QED
          BY <4>2
      <3>4. QED
        BY <3>1, <3>2, <3>3, <1>6
    <2>5. QED
      BY <1>2, <2>1, <2>2, <2>3, <2>4
  <1>12. NothingLost'
    <2> SUFFICES ASSUME NEW n \in Node
                 PROVE  \/ n \notin Roots(template) /\ \A e \in followed' : template.edges[e].target # n
                        \/ n \in Completed'
                        \/ QueuedFor(n)' # {}
                        \/ Short(n)'
      BY <1>2 DEF NothingLost
    <2>1. CASE \E e \in next : template.edges[e].target = n
      <3>1. PICK e \in next : template.edges[e].target = n
        BY <2>1
      <3>2. \E i \in DOMAIN queue' : queue'[i].node = n
        BY <3>1, <1>6
      <3>3. QED
        BY <3>2 DEF QueuedFor
    <2>2. CASE \A e \in next : template.edges[e].target # n
      <3>1. \/ n \notin Roots(template) /\ \A e \in followed : template.edges[e].target # n
            \/ n \in Completed
            \/ cur.node = n
            \/ QueuedFor(n) # {}
            \/ Short(n)
        BY <1>1 DEF NothingLost, InRun
      <3>2. Short(n) => Short(n)'
        BY <1>2 DEF Short, KindOf
      <3>3. QueuedFor(n) # {} => QueuedFor(n)' # {}
        BY <1>6 DEF QueuedFor
      <3>4. QED
        BY <3>1, <3>2, <3>3, <2>2, <1>6, <1>7
    <2>3. QED
      BY <2>1, <2>2
  <1>13. Phases'
    <2>1. temporal' = "open"
      BY <1>1, <1>2 DEF Phases, TypeOK, InRun
    <2>2. QED
      BY <1>1, <1>2, <2>1 DEF Phases, InRun
  <1>14. QED
    BY <1>8, <1>9, <1>10, <1>11, <1>12, <1>13 DEF QueueInvariant

\* Arrivals after the head of the queue was looked at.
LEMMA ArrivalsEffect ==
  ASSUME TypeOK, NEW entry \in Entry
  PROVE  \A n \in Node :
           Arrivals(entry)[n] =
             IF n = entry.node /\ KindOf(n) = "merge_all" /\ entry.from # Nowhere
             THEN arrivals[n] \cup {entry.from} ELSE arrivals[n]
  BY NodeRange DEF Arrivals, TypeOK

\* Taking the head of the queue keeps the accounts of the joins: a source that
\* leaves the queue has arrived.
LEMMA DequeueKeepsArrivals ==
  ASSUME QueueInvariant, NEW entry \in Entry, AtHead(entry),
         queue' = Tail(queue), arrivals' = Arrivals(entry),
         UNCHANGED <<template, followed>>
  PROVE  /\ ArrivalsAccounted'
         /\ \A i \in DOMAIN queue' : Justified(queue[i])'
         /\ Justified(entry)'
         /\ \A n \in Node : n # entry.node /\ QueuedFor(n) # {} => QueuedFor(n)' # {}
         /\ \A n \in Node : n # entry.node => Short(n)' = Short(n)
  <1> USE NodeRange
  <1>1. /\ TypeOK /\ EntriesJustified /\ FollowedFromCompleted /\ ArrivalsAccounted
    BY DEF QueueInvariant
  <1>2. /\ queue \in Seq(Entry) /\ queue # <<>> /\ entry = Head(queue)
    BY <1>1 DEF AtHead, TypeOK
  <1>3. /\ entry = queue[1] /\ 1 \in DOMAIN queue
        /\ \A i \in DOMAIN queue : i = 1 \/ \E j \in DOMAIN queue' : queue'[j] = queue[i]
        /\ \A j \in DOMAIN queue' : \E i \in DOMAIN queue : queue'[j] = queue[i]
    BY <1>2, TailEntries
  <1>4. \A i \in DOMAIN queue : Justified(queue[i])
    BY <1>1 DEF EntriesJustified
  <1>5. Justified(entry)
    BY <1>3, <1>4
  <1>6. \A i \in DOMAIN queue' : Justified(queue[i])'
    <2>1. ASSUME NEW j \in DOMAIN queue'
          PROVE  Justified(queue[j])'
      <3>1. PICK i \in DOMAIN queue : queue'[j] = queue[i]
        BY <1>3
      <3>2. QED
        BY <3>1, <1>4 DEF Justified
    <2>2. QED
      BY <2>1
  <1>7. ArrivalsAccounted'
    <2> SUFFICES ASSUME NEW n \in Node
                 PROVE  /\ arrivals'[n] \subseteq SourcesOf(n)
                        /\ KindOf(n) = "merge_all" =>
                             SourcesOf(n) \subseteq
                               arrivals'[n] \cup {queue'[i].from : i \in QueuedFor(n)'}
      <3>1. \A m \in Node : SourcesOf(m)' = SourcesOf(m) /\ KindOf(m)' = KindOf(m)
        BY DEF SourcesOf, KindOf
      <3>2. QED
        BY <3>1 DEF ArrivalsAccounted
    <2>1. /\ arrivals[n] \subseteq SourcesOf(n)
          /\ KindOf(n) = "merge_all" =>
               SourcesOf(n) \subseteq arrivals[n] \cup {queue[i].from : i \in QueuedFor(n)}
      BY <1>1 DEF ArrivalsAccounted
    <2>2. arrivals'[n] = IF n = entry.node /\ KindOf(n) = "merge_all" /\ entry.from # Nowhere
                         THEN arrivals[n] \cup {entry.from} ELSE arrivals[n]
      BY <1>1, ArrivalsEffect
    <2>3. entry.from # Nowhere /\ n = entry.node => entry.from \in SourcesOf(n)
      BY <1>5 DEF Justified, SourcesOf
    <2>4. ASSUME KindOf(n) = "merge_all", NEW s \in SourcesOf(n)
          PROVE  s \in arrivals'[n] \cup {queue'[i].from : i \in QueuedFor(n)'}
      <3>1. s # Nowhere
        <4>1. PICK e \in followed : template.edges[e].source = s
          BY DEF SourcesOf
        <4>2. s \in Completed
          BY <4>1, <1>1 DEF FollowedFromCompleted
        <4>3. QED
          BY <4>2, <1>1 DEF Completed, TypeOK
      <3>2. CASE s \in arrivals[n]
        BY <3>2, <2>2
      <3>3. CASE s \notin arrivals[n]
        <4>1. PICK i \in QueuedFor(n) : queue[i].from = s
          BY <2>1, <2>4, <3>3
        <4>2. i \in DOMAIN queue /\ queue[i].node = n
          BY <4>1 DEF QueuedFor
        <4>3. CASE i = 1
          BY <4>1, <4>2, <4>3, <1>3, <2>2, <2>4, <3>1
        <4>4. CASE i # 1
          <5>1. PICK j \in DOMAIN queue' : queue'[j] = queue[i]
            BY <4>2, <4>4, <1>3
          <5>2. j \in QueuedFor(n)' /\ queue'[j].from = s
            BY <5>1, <4>1, <4>2 DEF QueuedFor
          <5>3. QED
            BY <5>2
        <4>5. QED
          BY <4>3, <4>4
      <3>4. QED
        BY <3>2, <3>3
    <2>5. QED
      BY <2>1, <2>2, <2>3, <2>4
  <1>8. \A n \in Node : n # entry.node /\ QueuedFor(n) # {} => QueuedFor(n)' # {}
    <2>1. ASSUME NEW n \in Node, n # entry.node, NEW i \in QueuedFor(n)
          PROVE  QueuedFor(n)' # {}
      <3>1. i \in DOMAIN queue /\ queue[i].node = n /\ i # 1
        BY <2>1, <1>3 DEF QueuedFor
      <3>2. PICK j \in DOMAIN queue' : queue'[j] = queue[i]
        BY <3>1, <1>3
      <3>3. QED
        BY <3>1, <3>2 DEF QueuedFor
    <2>2. QED
      BY <2>1
  <1>9. \A n \in Node : n # entry.node => Short(n)' = Short(n)
    BY <1>1, ArrivalsEffect DEF Short, KindOf
  <1>10. QED
    BY <1>5, <1>6, <1>7, <1>8, <1>9 DEF Justified

\* Dropping an entry: its node ran already, is short of branches or is unknown.
LEMMA DropKeepsInvariant ==
  ASSUME QueueInvariant, TypeOK', NEW entry \in Entry, Drop(entry)
  PROVE  QueueInvariant'
  <1> USE NodeRange
  <1>1. /\ TypeOK /\ NodeRunsOnce /\ FollowedFromCompleted /\ NothingLost /\ Phases
    BY DEF QueueInvariant
  <1>2. /\ AtHead(entry) /\ queue' = Tail(queue) /\ arrivals' = Arrivals(entry)
        /\ UNCHANGED <<template, followed, completed, pc, cur, temporal>>
        /\ pc = "loop"
    BY DEF Drop, AtHead, control
  <1>3. /\ ArrivalsAccounted'
        /\ \A i \in DOMAIN queue' : Justified(queue[i])'
        /\ \A n \in Node : n # entry.node /\ QueuedFor(n) # {} => QueuedFor(n)' # {}
        /\ \A n \in Node : n # entry.node => Short(n)' = Short(n)
    BY <1>2, DequeueKeepsArrivals
  <1>4. entry.node \in Node => Short(entry.node)' \/ entry.node \in Completed
    BY <1>2 DEF Drop, MustWait, Short, KindOf
  <1>5. NothingLost'
    <2> SUFFICES ASSUME NEW n \in Node
                 PROVE  \/ n \notin Roots(template) /\ \A e \in followed : template.edges[e].target # n
                        \/ n \in Completed
                        \/ QueuedFor(n)' # {}
                        \/ Short(n)'
      BY <1>2 DEF NothingLost, Completed
    <2>1. \/ n \notin Roots(template) /\ \A e \in followed : template.edges[e].target # n
          \/ n \in Completed
          \/ QueuedFor(n) # {}
          \/ Short(n)
      BY <1>1, <1>2 DEF NothingLost, InRun
    <2>2. QED
      BY <2>1, <1>3, <1>4
  <1>6. EntriesJustified'
    BY <1>2, <1>3 DEF EntriesJustified, InRun
  <1>7. NodeRunsOnce' /\ FollowedFromCompleted'
    BY <1>1, <1>2 DEF NodeRunsOnce, FollowedFromCompleted, Completed
  <1>8. Phases'
    BY <1>1, <1>2 DEF Phases, TypeOK
  <1>9. QED
    BY <1>3, <1>5, <1>6, <1>7, <1>8 DEF QueueInvariant

\* Beginning a node: it did not run yet, and a join has its branches.
LEMMA BeginKeepsInvariant ==
  ASSUME QueueInvariant, TypeOK', NEW entry \in Entry, Begin(entry)
  PROVE  QueueInvariant'
  <1> USE NodeRange
  <1>1. /\ TypeOK /\ NodeRunsOnce /\ FollowedFromCompleted /\ NothingLost /\ Phases
    BY DEF QueueInvariant
  <1>2. /\ AtHead(entry) /\ queue' = Tail(queue) /\ arrivals' = Arrivals(entry)
        /\ UNCHANGED <<template, followed, completed, temporal>>
        /\ pc = "loop" /\ pc' = "exec" /\ cur' = entry
        /\ entry.node \in Node /\ entry.node \notin Completed
    BY DEF Begin, AtHead
  <1>3. /\ ArrivalsAccounted'
        /\ \A i \in DOMAIN queue' : Justified(queue[i])'
        /\ Justified(entry)'
        /\ \A n \in Node : n # entry.node /\ QueuedFor(n) # {} => QueuedFor(n)' # {}
        /\ \A n \in Node : n # entry.node => Short(n)' = Short(n)
    BY <1>2, DequeueKeepsArrivals
  <1>4. ~ Short(entry.node)'
    BY <1>2 DEF Begin, MustWait, Short, KindOf
  <1>5. NothingLost'
    <2> SUFFICES ASSUME NEW n \in Node
                 PROVE  \/ n \notin Roots(template) /\ \A e \in followed : template.edges[e].target # n
                        \/ n \in Completed
                        \/ entry.node = n
                        \/ QueuedFor(n)' # {}
                        \/ Short(n)'
      BY <1>2 DEF NothingLost, Completed, InRun
    <2>1. \/ n \notin Roots(template) /\ \A e \in followed : template.edges[e].target # n
          \/ n \in Completed
          \/ QueuedFor(n) # {}
          \/ Short(n)
      BY <1>1, <1>2 DEF NothingLost, InRun
    <2>2. QED
      BY <2>1, <1>3
  <1>6. EntriesJustified'
    <2>1. Justified(cur)' /\ ~ Short(cur.node)'
      BY <1>2, <1>3, <1>4 DEF Justified, Short, KindOf
    <2>2. QED
      BY <2>1, <1>3 DEF EntriesJustified
  <1>7. NodeRunsOnce' /\ FollowedFromCompleted'
    BY <1>1, <1>2 DEF NodeRunsOnce, FollowedFromCompleted, Completed
  <1>8. Phases'
    BY <1>1, <1>2 DEF Phases, TypeOK
  <1>9. QED
    BY <1>3, <1>5, <1>6, <1>7, <1>8 DEF QueueInvariant

\* Seeding the queue with the roots.
LEMMA SeedKeepsInvariant ==
  ASSUME QueueInvariant, TypeOK', Seed
  PROVE  QueueInvariant'
  <1> USE NodeRange
  <1>1. /\ TypeOK /\ NodeRunsOnce /\ Phases
    BY DEF QueueInvariant
  <1>2. /\ pc = "boot" /\ pc' = "loop" /\ Roots(template) # {}
        /\ UNCHANGED <<template, followed, completed, arrivals, temporal>>
    BY DEF Seed, SeedWith
  <1>3. completed = <<>> /\ followed = {} /\ arrivals = [n \in Node |-> {}]
        /\ temporal = "open"
    BY <1>1, <1>2 DEF Phases, TypeOK
  <1> DEFINE k == Cardinality(Roots(template))
  <1>4. PICK order \in InOrder(Roots(template)) :
          queue' = [i \in 1 .. k |-> [node |-> order[i], from |-> Nowhere]]
    BY DEF Seed, SeedWith
  <1>5. k \in Nat
    BY NodesFinite DEF Roots
  <1>6. /\ DOMAIN queue' = 1 .. k
        /\ \A i \in 1 .. k : queue'[i] = [node |-> order[i], from |-> Nowhere]
        /\ \A i \in 1 .. k : order[i] \in Roots(template)
        /\ \A n \in Roots(template) : \E i \in 1 .. k : order[i] = n
    BY <1>4, <1>5, InOrderFacts
  <1> HIDE DEF k
  <1>7. EntriesJustified'
    BY <1>2, <1>6 DEF EntriesJustified, InRun, Justified
  <1>8. NothingLost'
    <2>1. ASSUME NEW n \in Roots(template)
          PROVE  QueuedFor(n)' # {}
      <3>1. PICK i \in 1 .. k : order[i] = n
        BY <1>6
      <3>2. i \in DOMAIN queue' /\ queue'[i].node = n
        BY <1>6, <3>1
      <3>3. QED
        BY <3>2 DEF QueuedFor
    <2>2. QED
      BY <2>1, <1>2, <1>3 DEF NothingLost
  <1>9. ArrivalsAccounted'
    BY <1>2, <1>3 DEF ArrivalsAccounted, SourcesOf
  <1>10. NodeRunsOnce' /\ FollowedFromCompleted'
    BY <1>2, <1>3 DEF NodeRunsOnce, FollowedFromCompleted
  <1>11. Phases'
    BY <1>2, <1>3 DEF Phases
  <1>12. QED
    BY <1>7, <1>8, <1>9, <1>10, <1>11 DEF QueueInvariant

\* Steps that only move the control: the accounts do not change.
LEMMA QuietKeepsInvariant ==
  ASSUME QueueInvariant, TypeOK', UNCHANGED <<template, graph>>,
         pc' = "boot" => pc = "boot",
         InRun' => InRun /\ cur' = cur,
         (pc' \in {"loop", "exec", "await", "finishing"} \/ temporal' = "completed")
           => /\ pc \in {"loop", "exec", "await", "finishing"} \/ temporal = "completed"
              /\ InRun => InRun',
         (pc' = "finishing" \/ temporal' = "completed") => queue = <<>>,
         (pc' = "closed") <=> (temporal' # "open")
  PROVE  QueueInvariant'
  <1>1. /\ TypeOK /\ NodeRunsOnce /\ EntriesJustified /\ FollowedFromCompleted
        /\ ArrivalsAccounted /\ NothingLost /\ Phases
    BY DEF QueueInvariant
  <1>2. UNCHANGED <<template, queue, completed, arrivals, followed, outputs, subflow>>
    BY DEF graph
  <1>3. NodeRunsOnce'
    BY <1>1, <1>2 DEF NodeRunsOnce, InRun, Completed
  <1>4. EntriesJustified'
    BY <1>1, <1>2 DEF EntriesJustified, Justified, Short, KindOf
  <1>5. FollowedFromCompleted'
    BY <1>1, <1>2 DEF FollowedFromCompleted, Completed
  <1>6. ArrivalsAccounted'
    BY <1>1, <1>2 DEF ArrivalsAccounted, SourcesOf, QueuedFor, KindOf
  <1>7. NothingLost'
    BY <1>1, <1>2 DEF NothingLost, QueuedFor, Short, KindOf, Completed
  <1>8. Phases'
    BY <1>1, <1>2 DEF Phases
  <1>9. QED
    BY <1>3, <1>4, <1>5, <1>6, <1>7, <1>8 DEF QueueInvariant

\* Every step keeps the queue invariant.
LEMMA NextKeepsInvariant ==
  ASSUME QueueInvariant, [Next]_vars
  PROVE  QueueInvariant'
  <1>1. TypeOK /\ TypeOK' /\ Phases
    BY NextTyped DEF QueueInvariant
  <1>2. ASSUME NEW result \in {"failed", "cancelled"}, Close(result)
        PROVE  QueueInvariant'
    BY <1>1, <1>2, QuietKeepsInvariant DEF Close, InRun
  <1>3. ASSUME InRun, FinishNode(cur)
        PROVE  QueueInvariant'
    BY <1>1, <1>3, FinishNodeKeepsInvariant
  <1>4. CASE Seed
    BY <1>1, <1>4, SeedKeepsInvariant
  <1>5. CASE BootFails
    BY <1>5, <1>2 DEF BootFails
  <1>6. CASE Dequeue
    BY <1>1, <1>6, DropKeepsInvariant, BeginKeepsInvariant DEF Dequeue
  <1>7. CASE Execute
    <2>1. CASE RunNow
      BY <2>1, <1>3 DEF RunNow, InRun
    <2>2. CASE StartAwait
      BY <2>2, <1>1, QuietKeepsInvariant DEF StartAwait, InRun, Phases, TypeOK
    <2>3. CASE StartRejected
      BY <2>3, <1>2 DEF StartRejected
    <2>4. CASE ThrowsPlainError
      BY <2>4, <1>1, QuietKeepsInvariant DEF ThrowsPlainError, InRun, Phases, TypeOK
    <2>5. QED
      BY <1>7, <2>1, <2>2, <2>3, <2>4 DEF Execute
  <1>8. CASE Answer
    <2>1. CASE Resolved \/ WebhookReceived
      BY <2>1, <1>3 DEF Resolved, WebhookReceived, Waiting, InRun
    <2>2. CASE ActivityFails \/ WebhookTimesOut \/ AwaitCancelled
      BY <2>2, <1>2 DEF ActivityFails, WebhookTimesOut, AwaitCancelled
    <2>3. QED
      BY <1>8, <2>1, <2>2 DEF Answer
  <1>9. CASE Child
    <2>1. CASE ChildCompletes
      BY <2>1, <1>3 DEF ChildCompletes, Waiting, InRun
    <2>2. CASE ChildFails \/ ChildCancelled
      BY <2>2, <1>2 DEF ChildFails, ChildCancelled
    <2>3. QED
      BY <1>9, <2>1, <2>2 DEF Child
  <1>10. CASE End
    <2>1. CASE StartFinish
      BY <2>1, <1>1, QuietKeepsInvariant DEF StartFinish, InRun, Phases, TypeOK
    <2>2. CASE FinishRejected \/ FinishFails
      BY <2>2, <1>2 DEF FinishRejected, FinishFails
    <2>3. CASE Finish
      BY <2>3, <1>1, QuietKeepsInvariant DEF Finish, Close, InRun, Phases
    <2>4. QED
      BY <1>10, <2>1, <2>2, <2>3 DEF End
  <1>11. CASE RequestCancel \/ (\E w \in Webhooks : Signal(w)) \/ UNCHANGED vars
    <2>1. UNCHANGED <<template, control, graph>>
      BY <1>11 DEF RequestCancel, Signal, vars
    <2>2. UNCHANGED <<pc, cur, temporal>>
      BY <2>1 DEF control
    <2>3. InRun' = InRun
      BY <2>2 DEF InRun
    <2>4. /\ (pc = "finishing" \/ temporal = "completed") => queue = <<>>
          /\ (pc = "closed") <=> (temporal # "open")
      BY <1>1 DEF Phases
    <2>5. /\ (pc' = "finishing" \/ temporal' = "completed") => queue = <<>>
          /\ (pc' = "closed") <=> (temporal' # "open")
      BY <2>2, <2>4
    <2>6. QED
      BY <1>1, <2>1, <2>2, <2>3, <2>5, QuietKeepsInvariant
  <1>12. QED
    BY <1>4, <1>5, <1>6, <1>7, <1>8, <1>9, <1>10, <1>11
    DEF Next, Worker, Environment

\* At every step the queue, the arrivals and the completed nodes together
\* account for every edge that was followed, and for nothing else: no branch of
\* a run is lost and none is invented.
THEOREM QueueAccounts == Spec => []QueueInvariant
  <1>1. Init => QueueInvariant
    <2> SUFFICES ASSUME Init PROVE QueueInvariant
      OBVIOUS
    <2>1. TypeOK
      BY InitTyped
    <2>2. /\ pc = "boot" /\ queue = <<>> /\ completed = <<>> /\ followed = {}
          /\ arrivals = [n \in Node |-> {}] /\ temporal = "open"
      BY DEF Init
    <2>3. ~ InRun
      BY <2>2 DEF InRun
    <2>4. NodeRunsOnce
      BY <2>2 DEF NodeRunsOnce
    <2>5. EntriesJustified
      BY <2>2, <2>3 DEF EntriesJustified
    <2>6. FollowedFromCompleted /\ ArrivalsAccounted
      BY <2>2 DEF FollowedFromCompleted, ArrivalsAccounted, SourcesOf
    <2>7. NothingLost /\ Phases
      BY <2>2 DEF NothingLost, Phases
    <2>8. QED
      BY <2>1, <2>4, <2>5, <2>6, <2>7 DEF QueueInvariant
  <1>2. QueueInvariant /\ [Next]_vars => QueueInvariant'
    BY NextKeepsInvariant
  <1>3. QED
    BY <1>1, <1>2, PTL DEF Spec

\* A node is executed at most once in a run, whatever the graph.
THEOREM RunsOnce == Spec => []NodeRunsOnce
  <1>1. QueueInvariant => NodeRunsOnce
    BY DEF QueueInvariant
  <1>2. QED
    BY <1>1, QueueAccounts, PTL

\* A run that is reported as completed has left no followed edge unserved but
\* those into AND-joins that are short of branches.
THEOREM CompletedStrandsNothing == Spec => []NothingStranded
  <1>1. QueueInvariant => NothingStranded
    <2> SUFFICES ASSUME QueueInvariant, temporal = "completed"
                 PROVE  /\ Roots(template) \subseteq Completed \cup
                             {n \in Node : KindOf(n) = "merge_all" /\ template.branchCount[n] > 0}
                        /\ \A e \in followed :
                             LET n == template.edges[e].target
                             IN  \/ n \in Completed \cup {Nowhere}
                                 \/ /\ KindOf(n) = "merge_all"
                                    /\ Cardinality(arrivals[n]) < template.branchCount[n]
      BY DEF NothingStranded
    <2>1. /\ queue = <<>> /\ ~ InRun /\ NothingLost /\ TypeOK
      BY DEF QueueInvariant, Phases, InRun
    <2>2. \A n \in Node : QueuedFor(n) = {}
      BY <2>1 DEF QueuedFor
    <2>3. \A n \in Node :
            (n \in Roots(template) \/ \E e \in followed : template.edges[e].target = n)
              => n \in Completed \/ Short(n)
      BY <2>1, <2>2 DEF NothingLost
    <2>4. \A n \in Node : Short(n) => KindOf(n) = "merge_all" /\ template.branchCount[n] > 0
      <3>1. \A n \in Node : Cardinality(arrivals[n]) \in Nat /\ template.branchCount[n] \in Nat
        <4>1. template \in Templates /\ arrivals \in [Node -> SUBSET Node]
          BY <2>1 DEF TypeOK
        <4>2. \A n \in Node : arrivals[n] \in SUBSET (0 .. NodeCount)
          BY <4>1, NodeRange
        <4>3. QED
          BY <4>1, <4>2, NodesFinite, TemplateParts
      <3>2. QED
        BY <3>1 DEF Short
    <2>5. \A e \in followed : template.edges[e].target \in Node \cup {Nowhere}
      BY <2>1, TemplateParts, NodeRange DEF TypeOK
    <2>6. QED
      BY <2>3, <2>4, <2>5 DEF Short, Roots
  <1>2. QED
    BY <1>1, QueueAccounts, PTL

-----------------------------------------------------------------------------
(* Refinement: the breadth-first interpreter implements the abstract dataflow *)
(* run, for every set of templates, and its completion order is causal.       *)
\* What the queue invariant says of the run the caller sees.
LEMMA StatusFacts ==
  ASSUME Phases, TypeOK
  PROVE  /\ pc \notin {"closed", "wedged"} => Status = "running" /\ temporal = "open"
         /\ pc = "wedged" => Status = "aborted"
         /\ pc = "closed" => Status = IF temporal = "completed" THEN "completed" ELSE "aborted"
  BY DEF Phases, TypeOK, Status

\* The abstract run counts and selects with operators of the same definition.
LEMMA SameOperators ==
  /\ \A S : Dataflow!Cardinality(S) = Cardinality(S)
  /\ \A k : Dataflow!OutgoingHandles(k) = OutgoingHandles(k)
  /\ \A t, n, h : Dataflow!Selected(t, n, h) = Selected(t, n, h)
  /\ \A t : Dataflow!Roots(t) = Roots(t)
  <1>1. \A S : Dataflow!Cardinality(S) = Cardinality(S)
    BY DEF Dataflow!Cardinality, Cardinality
  <1>2. \A k : Dataflow!OutgoingHandles(k) = OutgoingHandles(k)
    BY DEF Dataflow!OutgoingHandles, OutgoingHandles, Dataflow!Terminals, Terminals
  <1>3. \A t, n, h : Dataflow!Selected(t, n, h) = Selected(t, n, h)
    BY DEF Dataflow!Selected, Selected, Dataflow!Outgoing, Outgoing,
           Dataflow!IsUnconditional, IsUnconditional
  <1>4. \A t : Dataflow!Roots(t) = Roots(t)
    BY DEF Dataflow!Roots, Roots, Dataflow!Node, Node
  <1>5. QED
    BY <1>1, <1>2, <1>3, <1>4

\* The sources the abstract run counts at a join are those of the queue's
\* account.
LEMMA ArrivedSources ==
  ASSUME NEW n
  PROVE  Dataflow!Arrived(n) = SourcesOf(n)
  BY DEF Dataflow!Arrived, SourcesOf

\* The arrivals recorded at a join are at most the sources of followed edges.
LEMMA ArrivalsCounted ==
  ASSUME TypeOK, ArrivalsAccounted, NEW n \in Node
  PROVE  /\ Cardinality(arrivals[n]) \in Nat /\ Cardinality(SourcesOf(n)) \in Nat
         /\ template.branchCount[n] \in Nat
         /\ Cardinality(arrivals[n]) <= Cardinality(SourcesOf(n))
         /\ arrivals[n] = SourcesOf(n) => Cardinality(arrivals[n]) = Cardinality(SourcesOf(n))
  <1>1. template \in Templates /\ followed \subseteq DOMAIN template.edges
    BY DEF TypeOK
  <1>2. SourcesOf(n) \subseteq 0 .. NodeCount
    BY <1>1, TemplateParts DEF SourcesOf
  <1>3. IsFiniteSet(SourcesOf(n)) /\ Cardinality(SourcesOf(n)) \in Nat
    BY <1>2, NodesFinite
  <1>4. arrivals[n] \in SUBSET SourcesOf(n)
    BY DEF ArrivalsAccounted
  <1>5. arrivals[n] \in SUBSET (0 .. NodeCount)
    BY <1>2, <1>4
  <1>6. Cardinality(arrivals[n]) \in Nat
    BY <1>5, NodesFinite
  <1>7. Cardinality(arrivals[n]) <= Cardinality(SourcesOf(n))
    BY <1>3, <1>4, FS_Subset
  <1>8. template.branchCount[n] \in Nat
    BY <1>1, TemplateParts
  <1>9. QED
    BY <1>3, <1>6, <1>7, <1>8

\* A run that closes without success, or whose workflow task is stuck, aborts.
LEMMA ClosingAborts ==
  ASSUME QueueInvariant, QueueInvariant', pc \notin {"closed", "wedged"},
         UNCHANGED <<template, completed, followed>>,
         pc' = "wedged" \/ (pc' = "closed" /\ temporal' # "completed")
  PROVE  Dataflow!Abort
  <1>1. Phases /\ TypeOK /\ Phases' /\ TypeOK'
    BY DEF QueueInvariant
  <1>2. Status = "running" /\ Status' = "aborted"
    <2>1. Status = "running"
      BY <1>1, StatusFacts
    <2>2. Status' = "aborted"
      BY <1>1 DEF Phases, TypeOK, Status
    <2>3. QED
      BY <2>1, <2>2
  <1>3. Completed' = Completed
    BY DEF Completed
  <1>4. QED
    BY <1>2, <1>3 DEF Dataflow!Abort

\* Finishing a node runs it in the abstract run: it had been reached and, if
\* it is a join, enough sources had arrived.
LEMMA FinishNodeRuns ==
  ASSUME QueueInvariant, QueueInvariant', InRun, FinishNode(cur)
  PROVE  Dataflow!RunNode(cur.node)
  <1>1. /\ TypeOK /\ NodeRunsOnce /\ EntriesJustified /\ ArrivalsAccounted /\ Phases
        /\ Phases' /\ TypeOK'
    BY DEF QueueInvariant
  <1>2. /\ cur.node \in Node /\ cur.node \notin Completed
        /\ Justified(cur) /\ ~ Short(cur.node)
    BY <1>1 DEF InRun, TypeOK, NodeRunsOnce, EntriesJustified
  <1>3. /\ completed' = Append(completed, cur.node) /\ pc' = "loop"
        /\ UNCHANGED template
    BY DEF FinishNode
  <1>4. Status = "running" /\ Status' = "running"
    <2>1. Status = "running"
      BY <1>1, StatusFacts DEF InRun
    <2>2. Status' = "running"
      BY <1>1, <1>3 DEF Phases, Status
    <2>3. QED
      BY <2>1, <2>2
  <1>5. Completed' = Completed \cup {cur.node}
    BY <1>1, <1>2, <1>3, CompletedGrows DEF TypeOK
  <1>6. Dataflow!Reached(cur.node)
    BY <1>2, SameOperators DEF Justified, Dataflow!Reached
  <1>7. Dataflow!Joined(cur.node)
    <2> SUFFICES ASSUME KindOf(cur.node) = "merge_all"
                 PROVE  Cardinality(SourcesOf(cur.node)) >= template.branchCount[cur.node]
      BY SameOperators, ArrivedSources DEF KindOf, Dataflow!Joined
    <2>1. ~ (Cardinality(arrivals[cur.node]) < template.branchCount[cur.node])
      BY <1>2 DEF Short
    <2>2. QED
      BY <2>1, <1>1, <1>2, ArrivalsCounted
  <1>8. \E handles \in OutgoingHandles(template.kind[cur.node]) :
          followed' = followed \cup Selected(template, cur.node, handles)
    BY DEF FinishNode, KindOf
  <1>9. QED
    BY <1>2, <1>3, <1>4, <1>5, <1>6, <1>7, <1>8, SameOperators
    DEF Dataflow!RunNode, Dataflow!Ready

\* A run that is reported as completed has no node left that could run.
LEMMA FinishCompletes ==
  ASSUME QueueInvariant, QueueInvariant', Finish
  PROVE  Dataflow!Complete
  <1>1. /\ TypeOK /\ ArrivalsAccounted /\ NothingLost /\ Phases /\ Phases' /\ TypeOK'
    BY DEF QueueInvariant
  <1>2. /\ pc = "finishing" /\ pc' = "closed" /\ temporal' = "completed"
        /\ UNCHANGED <<template, completed, followed>>
    BY DEF Finish, Close, graph
  <1>3. Status = "running" /\ Status' = "completed"
    <2>1. Status = "running"
      BY <1>1, <1>2, StatusFacts
    <2>2. Status' = "completed"
      BY <1>2 DEF Status
    <2>3. QED
      BY <2>1, <2>2
  <1>4. queue = <<>> /\ ~ InRun /\ Roots(template) # {}
    BY <1>1, <1>2 DEF Phases, InRun
  <1>5. ASSUME NEW n \in Node, n \notin Completed, Dataflow!Reached(n), Dataflow!Joined(n)
        PROVE  FALSE
    <2>1. QueuedFor(n) = {}
      BY <1>4 DEF QueuedFor
    <2>2. n \in Roots(template) \/ \E e \in followed : template.edges[e].target = n
      BY <1>5, SameOperators DEF Dataflow!Reached
    <2>3. Short(n)
      BY <1>1, <1>2, <1>4, <1>5, <2>1, <2>2 DEF NothingLost
    <2>4. KindOf(n) = "merge_all"
          /\ Cardinality(SourcesOf(n)) >= template.branchCount[n]
      BY <1>5, <2>3, SameOperators, ArrivedSources DEF Short, KindOf, Dataflow!Joined
    <2>5. SourcesOf(n) = arrivals[n]
      BY <1>1, <2>1, <2>4 DEF ArrivalsAccounted
    <2>6. ~ Short(n)
      BY <2>4, <2>5, <1>1, ArrivalsCounted DEF Short
    <2>7. QED
      BY <2>3, <2>6
  <1>6. \A n \in Dataflow!Node : ~ Dataflow!Ready(n)
    BY <1>5 DEF Dataflow!Ready, Dataflow!Node, Node
  <1>7. Completed' = Completed
    BY <1>2 DEF Completed
  <1>8. QED
    BY <1>2, <1>3, <1>4, <1>6, <1>7, SameOperators DEF Dataflow!Complete

\* Steps the caller does not see.
LEMMA HiddenStutters ==
  ASSUME UNCHANGED <<template, completed, followed, temporal>>,
         pc = "wedged" <=> pc' = "wedged"
  PROVE  UNCHANGED Dataflow!dvars
  <1>1. Completed' = Completed
    BY DEF Completed
  <1>2. Status' = Status
    BY DEF Status
  <1>3. QED
    BY <1>1, <1>2 DEF Dataflow!dvars

\* Every step of the interpreter is a step of the abstract run or none.
LEMMA StepRefines ==
  ASSUME QueueInvariant, QueueInvariant', [Next]_vars
  PROVE  [Dataflow!DNext]_(Dataflow!dvars)
  <1>1. ASSUME NEW result \in {"failed", "cancelled"}, Close(result),
               pc \notin {"closed", "wedged"}
        PROVE  Dataflow!DNext
    <2>1. /\ pc' = "closed" /\ temporal' # "completed"
          /\ UNCHANGED <<template, completed, followed>>
      BY <1>1 DEF Close, graph
    <2>2. QED
      BY <1>1, <2>1, ClosingAborts DEF Dataflow!DNext
  <1>2. ASSUME InRun, FinishNode(cur)
        PROVE  Dataflow!DNext
    <2>1. cur.node \in Dataflow!Node
      BY <1>2 DEF QueueInvariant, TypeOK, InRun, Dataflow!Node, Node
    <2>2. QED
      BY <1>2, <2>1, FinishNodeRuns DEF Dataflow!DNext
  <1>3. CASE Seed
    BY <1>3, HiddenStutters DEF Seed, SeedWith
  <1>4. CASE BootFails
    BY <1>4, <1>1 DEF BootFails
  <1>5. CASE Dequeue
    <2>1. PICK entry \in Entry : Drop(entry) \/ Begin(entry)
      BY <1>5 DEF Dequeue
    <2>2. QED
      BY <2>1, HiddenStutters DEF Drop, Begin, AtHead, control
  <1>6. CASE Execute
    <2>1. CASE RunNow
      BY <2>1, <1>2 DEF RunNow, InRun
    <2>2. CASE StartAwait
      BY <2>2, HiddenStutters DEF StartAwait, graph
    <2>3. CASE StartRejected
      BY <2>3, <1>1 DEF StartRejected
    <2>4. CASE ThrowsPlainError
      BY <2>4, ClosingAborts DEF ThrowsPlainError, graph, Dataflow!DNext
    <2>5. QED
      BY <1>6, <2>1, <2>2, <2>3, <2>4 DEF Execute
  <1>7. CASE Answer
    <2>1. CASE Resolved \/ WebhookReceived
      BY <2>1, <1>2 DEF Resolved, WebhookReceived, Waiting, InRun
    <2>2. CASE ActivityFails \/ WebhookTimesOut \/ AwaitCancelled
      BY <2>2, <1>1 DEF ActivityFails, WebhookTimesOut, AwaitCancelled, Waiting
    <2>3. QED
      BY <1>7, <2>1, <2>2 DEF Answer
  <1>8. CASE Child
    BY <1>8, <1>1, <1>2 DEF Child, ChildCompletes, ChildFails, ChildCancelled, Waiting, InRun
  <1>9. CASE End
    <2>1. CASE StartFinish
      BY <2>1, HiddenStutters DEF StartFinish, graph
    <2>2. CASE FinishRejected \/ FinishFails
      BY <2>2, <1>1 DEF FinishRejected, FinishFails
    <2>3. CASE Finish
      BY <2>3, FinishCompletes DEF Dataflow!DNext
    <2>4. QED
      BY <1>9, <2>1, <2>2, <2>3 DEF End
  <1>10. CASE RequestCancel \/ (\E w \in Webhooks : Signal(w)) \/ UNCHANGED vars
    BY <1>10, HiddenStutters DEF RequestCancel, Signal, vars, control, graph
  <1>11. QED
    BY <1>3, <1>4, <1>5, <1>6, <1>7, <1>8, <1>9, <1>10 DEF Next, Worker, Environment

\* The queue, the arrivals and the order of the traversal are an
\* implementation of the abstract run: what the interpreter executes and
\* reports is what DataflowRun allows, for every set of templates.
THEOREM RefinesDataflow == Spec => ImplementsDataflow
  <1>1. Init => Dataflow!DInit
    BY DEF Init, Dataflow!DInit, Completed, Status
  <1>2. QueueInvariant /\ QueueInvariant' /\ [Next]_vars => [Dataflow!DNext]_(Dataflow!dvars)
    BY StepRefines
  <1>3. QED
    BY <1>1, <1>2, QueueAccounts, PTL DEF Spec, ImplementsDataflow, Dataflow!DSpec

-----------------------------------------------------------------------------
(* The order of completion. *)

\* Completing a node keeps what was said of the nodes before it.
LEMMA BeforeGrows ==
  ASSUME TypeOK, TypeOK', UNCHANGED template, followed \subseteq followed',
         NEW j \in DOMAIN completed,
         \/ completed' = completed
         \/ \E n \in Node : completed' = Append(completed, n)
  PROVE  /\ j \in DOMAIN completed' /\ completed'[j] = completed[j]
         /\ Before(j) \subseteq Before(j)'
  <1>1. \A i \in DOMAIN completed : i \in DOMAIN completed' /\ completed'[i] = completed[i]
    <2>1. CASE completed' = completed
      BY <2>1
    <2>2. CASE \E n \in Node : completed' = Append(completed, n)
      <3>1. /\ Len(completed) \in Nat
            /\ DOMAIN completed = 1 .. Len(completed)
            /\ DOMAIN completed' = 1 .. Len(completed) + 1
            /\ \A i \in 1 .. Len(completed) : completed'[i] = completed[i]
        BY <2>2, CompletedGrows DEF TypeOK
      <3>2. QED
        BY <3>1
    <2>3. QED
      BY <2>1, <2>2
  <1>2. QED
    BY <1>1 DEF Before, EdgeBetween

\* The step that completes a node of the run.
CompletesCur == InRun /\ FinishNode(cur)

\* Every step completes the current node or leaves the order alone.
LEMMA StepsThatComplete ==
  ASSUME TypeOK, [Next]_vars
  PROVE  \/ CompletesCur
         \/ UNCHANGED <<completed, followed, template>>
  <1>1. \A result : Close(result) => UNCHANGED <<completed, followed, template>>
    BY DEF Close, graph
  <1>2. CASE Seed \/ BootFails \/ Dequeue
    BY <1>1, <1>2 DEF Seed, SeedWith, BootFails, Dequeue, Drop, Begin
  <1>3. CASE Execute
    BY <1>1, <1>3 DEF Execute, RunNow, StartAwait, StartRejected, ThrowsPlainError,
       graph, CompletesCur, InRun
  <1>4. CASE Answer
    BY <1>1, <1>4 DEF Answer, Resolved, ActivityFails, WebhookReceived,
       WebhookTimesOut, AwaitCancelled, Waiting, CompletesCur, InRun
  <1>5. CASE Child
    BY <1>1, <1>5 DEF Child, ChildCompletes, ChildFails, ChildCancelled, Waiting,
       CompletesCur, InRun
  <1>6. CASE End
    BY <1>1, <1>6 DEF End, StartFinish, FinishRejected, FinishFails, Finish, graph
  <1>7. CASE Environment \/ UNCHANGED vars
    BY <1>7 DEF Environment, RequestCancel, Signal, vars, control, graph
  <1>8. QED
    BY <1>2, <1>3, <1>4, <1>5, <1>6, <1>7 DEF Next, Worker

\* What is known of the node that completes: it is at the end of the order and
\* the sources it was reached from are before it.
LEMMA CompletionFacts ==
  ASSUME QueueInvariant, CompletesCur, NEW j, j = Len(completed) + 1
  PROVE  /\ completed' = Append(completed, cur.node) /\ cur.node \in Node
         /\ UNCHANGED template /\ followed \subseteq followed'
         /\ DOMAIN completed' = DOMAIN completed \cup {j}
         /\ completed'[j] = cur.node
         /\ \A i \in DOMAIN completed : i < j /\ completed'[i] = completed[i]
         /\ \A s \in SourcesOf(cur.node) : \E i \in Before(j)' : completed[i] = s
  <1>1. /\ TypeOK /\ FollowedFromCompleted /\ cur.node \in Node
        /\ completed \in Seq(Node)
    BY DEF QueueInvariant, CompletesCur, TypeOK, InRun
  <1>2. /\ completed' = Append(completed, cur.node) /\ UNCHANGED template
        /\ followed \subseteq followed'
    BY DEF CompletesCur, FinishNode
  <1>3. /\ DOMAIN completed = 1 .. Len(completed) /\ Len(completed) \in Nat
        /\ DOMAIN completed' = 1 .. Len(completed) + 1
        /\ \A i \in 1 .. Len(completed) : completed'[i] = completed[i]
        /\ completed'[j] = cur.node
    BY <1>1, <1>2, CompletedGrows
  <1>4. /\ DOMAIN completed' = DOMAIN completed \cup {j}
        /\ \A i \in DOMAIN completed : i < j /\ completed'[i] = completed[i]
    BY <1>3
  <1>5. ASSUME NEW s \in SourcesOf(cur.node)
        PROVE  \E i \in Before(j)' : completed[i] = s
    <2>1. PICK e \in followed : /\ template.edges[e].target = cur.node
                                /\ template.edges[e].source = s
      BY DEF SourcesOf
    <2>2. PICK i \in DOMAIN completed : completed[i] = s
      BY <2>1, <1>1 DEF FollowedFromCompleted, Completed
    <2>3. i \in DOMAIN completed' /\ i < j /\ completed'[i] = s
      BY <2>2, <1>4
    <2>4. EdgeBetween(i, j)'
      BY <2>1, <2>3, <1>2, <1>3 DEF EdgeBetween
    <2>5. QED
      BY <2>2, <2>3, <2>4 DEF Before
  <1>6. QED
    BY <1>1, <1>2, <1>3, <1>4, <1>5

\* A node completes only after a node that led to it, or it is a root.
THEOREM CompletesInCausalOrder == Spec => []CausalOrder
  <1>1. Init => CausalOrder
    BY DEF Init, CausalOrder
  <1>2. QueueInvariant /\ QueueInvariant' /\ CausalOrder /\ [Next]_vars => CausalOrder'
    <2> SUFFICES ASSUME QueueInvariant, QueueInvariant', CausalOrder, [Next]_vars
                 PROVE  CausalOrder'
      OBVIOUS
    <2>1. TypeOK /\ TypeOK' /\ EntriesJustified
      BY DEF QueueInvariant
    <2>2. CASE UNCHANGED <<completed, followed, template>>
      BY <2>2 DEF CausalOrder, Before, EdgeBetween
    <2>3. CASE CompletesCur
      <3> PICK last : last = Len(completed) + 1
        OBVIOUS
      <3>1. ASSUME NEW j \in DOMAIN completed
            PROVE  completed'[j] \in Roots(template) \/ Before(j)' # {}
        <4>1. completed[j] \in Roots(template) \/ Before(j) # {}
          BY DEF CausalOrder, Before
        <4>2. completed'[j] = completed[j] /\ Before(j) \subseteq Before(j)'
          BY <2>1, <2>3, CompletionFacts, BeforeGrows
        <4>3. QED
          BY <4>1, <4>2
      <3>2. cur.node \in Roots(template) \/ SourcesOf(cur.node) # {}
        BY <2>1, <2>3 DEF EntriesJustified, CompletesCur, Justified, SourcesOf
      <3>3. completed'[last] \in Roots(template) \/ Before(last)' # {}
        BY <2>3, <3>2, CompletionFacts
      <3>4. DOMAIN completed' = DOMAIN completed \cup {last} /\ UNCHANGED template
        BY <2>3, CompletionFacts
      <3>5. \A j \in DOMAIN completed' : completed'[j] \in Roots(template)' \/ Before(j)' # {}
        BY <3>1, <3>3, <3>4
      <3>6. QED
        BY <3>5 DEF CausalOrder, Before
    <2>4. QED
      BY <2>1, <2>2, <2>3, StepsThatComplete
  <1>3. QED
    BY <1>1, <1>2, QueueAccounts, PTL DEF Spec

\* Positions in an order of completion are finitely many.
LEMMA PositionsFinite ==
  ASSUME NEW order \in Seq(Node), NEW S \in SUBSET DOMAIN order
  PROVE  IsFiniteSet(S) /\ Cardinality(S) \in Nat
  <1>1. DOMAIN order = 1 .. Len(order) /\ Len(order) \in Nat
    OBVIOUS
  <1>2. IsFiniteSet(1 .. Len(order))
    BY <1>1, FS_Interval
  <1>3. QED
    BY <1>1, <1>2, FS_Subset, FS_CardinalityType

\* Different sources completed at different positions.
LEMMA SourcesBefore ==
  ASSUME TypeOK', NEW n, NEW j,
         \A s \in SourcesOf(n) : \E i \in Before(j)' : completed[i] = s
  PROVE  Cardinality(SourcesOf(n)) <= Cardinality(Before(j)')
  <1> DEFINE position == [s \in SourcesOf(n) |-> CHOOSE i \in Before(j)' : completed[i] = s]
  <1>1. \A s \in SourcesOf(n) : position[s] \in Before(j)' /\ completed[position[s]] = s
    OBVIOUS
  <1>2. position \in [SourcesOf(n) -> Before(j)']
    BY <1>1
  <1>3. \A s, u \in SourcesOf(n) : position[s] = position[u] => s = u
    BY <1>1
  <1>4. position \in Injection(SourcesOf(n), Before(j)')
    BY <1>2, <1>3 DEF Injection, IsInjective
  <1>5. IsFiniteSet(Before(j)')
    BY PositionsFinite DEF Before, TypeOK
  <1>6. QED
    BY <1>4, <1>5, FS_Injection

\* An AND-join completes only after branchCount nodes that lead to it.
THEOREM JoinsWait == Spec => []JoinWaitsForBranches
  <1>1. Init => JoinWaitsForBranches
    BY DEF Init, JoinWaitsForBranches
  <1>2. QueueInvariant /\ QueueInvariant' /\ JoinWaitsForBranches /\ [Next]_vars
          => JoinWaitsForBranches'
    <2> SUFFICES ASSUME QueueInvariant, QueueInvariant', JoinWaitsForBranches, [Next]_vars
                 PROVE  JoinWaitsForBranches'
      OBVIOUS
    <2>1. TypeOK /\ TypeOK' /\ EntriesJustified /\ ArrivalsAccounted
      BY DEF QueueInvariant
    <2>2. CASE UNCHANGED <<completed, followed, template>>
      BY <2>2 DEF JoinWaitsForBranches, Before, EdgeBetween, KindOf
    <2>3. CASE CompletesCur
      <3> PICK last : last = Len(completed) + 1
        OBVIOUS
      <3>1. /\ DOMAIN completed' = DOMAIN completed \cup {last} /\ UNCHANGED template
            /\ completed'[last] = cur.node /\ cur.node \in Node
            /\ \A s \in SourcesOf(cur.node) : \E i \in Before(last)' : completed[i] = s
        BY <2>3, CompletionFacts
      <3>2. ASSUME NEW j \in DOMAIN completed, KindOf(completed[j]) = "merge_all"
            PROVE  /\ completed'[j] = completed[j]
                   /\ Cardinality(Before(j)') >= template.branchCount[completed[j]]
        <4>1. Cardinality(Before(j)) >= template.branchCount[completed[j]]
          BY <3>2 DEF JoinWaitsForBranches, Before
        <4>2. completed'[j] = completed[j] /\ Before(j) \subseteq Before(j)'
          BY <2>1, <2>3, CompletionFacts, BeforeGrows
        <4>3. /\ IsFiniteSet(Before(j)') /\ Cardinality(Before(j)') \in Nat
              /\ Cardinality(Before(j)) \in Nat
          BY <2>1, PositionsFinite DEF Before, TypeOK
        <4>4. Cardinality(Before(j)) <= Cardinality(Before(j)')
          BY <4>2, <4>3, FS_Subset
        <4>5. template.branchCount[completed[j]] \in Nat
          <5>1. completed[j] \in Node /\ template \in Templates
            BY <2>1 DEF TypeOK
          <5>2. QED
            BY <5>1, TemplateParts
        <4>6. QED
          BY <4>1, <4>2, <4>3, <4>4, <4>5
      <3>3. ASSUME KindOf(cur.node) = "merge_all"
            PROVE  Cardinality(Before(last)') >= template.branchCount[cur.node]
        <4>1. ~ (Cardinality(arrivals[cur.node]) < template.branchCount[cur.node])
          BY <3>3, <2>1, <2>3 DEF EntriesJustified, CompletesCur, Short
        <4>2. Cardinality(SourcesOf(cur.node)) <= Cardinality(Before(last)')
          BY <2>1, <3>1, SourcesBefore
        <4>3. Cardinality(Before(last)') \in Nat
          BY <2>1, PositionsFinite DEF Before, TypeOK
        <4>4. QED
          BY <4>1, <4>2, <4>3, <2>1, <3>1, ArrivalsCounted
      <3>4. \A j \in DOMAIN completed : completed'[j] = completed[j]
        BY <2>3, CompletionFacts
      <3>5. ASSUME NEW j \in DOMAIN completed', KindOf(completed'[j]) = "merge_all"
            PROVE  Cardinality(Before(j)') >= template.branchCount[completed'[j]]
        BY <3>1, <3>2, <3>3, <3>4, <3>5
      <3>6. QED
        BY <3>1, <3>5 DEF JoinWaitsForBranches, KindOf
    <2>4. QED
      BY <2>1, <2>2, <2>3, StepsThatComplete
  <1>3. QED
    BY <1>1, <1>2, QueueAccounts, PTL DEF Spec

-----------------------------------------------------------------------------
(* The answer to the caller. *)

Answering == {"response", "trigger_output"}

\* Whoever carries the data of an answering node is that node, and an
\* answering node that completed carries its own: the pass-through nodes copy
\* from the source of an edge, which no answering node is.
AnswersOwned ==
  AnswersAreTerminal =>
    /\ \A n \in Node : outputs[n] # Nowhere /\ KindOf(outputs[n]) \in Answering
                         => outputs[n] = n
    /\ \A n \in Completed : KindOf(n) \in Answering => outputs[n] = n

\* From the moment the run has computed finalOutput nothing completes any more.
FinalStands == pc = "finishing" \/ temporal = "completed" => IsFinalOutput(final)

AnswerInvariant == AnswersOwned /\ FinalStands

\* A step that completes no node leaves the outputs alone too.
LEMMA OutputsStay ==
  ASSUME TypeOK, [Next]_vars
  PROVE  \/ CompletesCur
         \/ UNCHANGED <<template, completed, outputs>>
  <1>1. \A result : Close(result) => UNCHANGED <<template, completed, outputs>>
    BY DEF Close, graph
  <1>2. CASE Seed \/ BootFails \/ Dequeue
    BY <1>1, <1>2 DEF Seed, SeedWith, BootFails, Dequeue, Drop, Begin
  <1>3. CASE Execute
    BY <1>1, <1>3 DEF Execute, RunNow, StartAwait, StartRejected, ThrowsPlainError,
       graph, CompletesCur, InRun
  <1>4. CASE Answer
    BY <1>1, <1>4 DEF Answer, Resolved, ActivityFails, WebhookReceived,
       WebhookTimesOut, AwaitCancelled, Waiting, CompletesCur, InRun
  <1>5. CASE Child
    BY <1>1, <1>5 DEF Child, ChildCompletes, ChildFails, ChildCancelled, Waiting,
       CompletesCur, InRun
  <1>6. CASE End
    BY <1>1, <1>6 DEF End, StartFinish, FinishRejected, FinishFails, Finish, graph
  <1>7. CASE Environment \/ UNCHANGED vars
    BY <1>7 DEF Environment, RequestCancel, Signal, vars, control, graph
  <1>8. QED
    BY <1>2, <1>3, <1>4, <1>5, <1>6, <1>7 DEF Next, Worker

\* The node that completes is given its own data, or a copy that is not the
\* data of an answering node.
LEMMA CompletionKeepsAnswers ==
  ASSUME QueueInvariant, CompletesCur, AnswersOwned
  PROVE  AnswersOwned'
  <1>1. /\ TypeOK /\ EntriesJustified
        /\ cur.node \in Node /\ cur.from \in Node \cup {Nowhere}
        /\ completed \in Seq(Node) /\ outputs \in [Node -> 0 .. NodeCount]
    BY NodeRange DEF QueueInvariant, CompletesCur, TypeOK, InRun, Entry
  <1>2. /\ UNCHANGED template
        /\ completed' = Append(completed, cur.node)
        /\ outputs' = [outputs EXCEPT ![cur.node] = OutputOf(cur)]
    BY DEF CompletesCur, FinishNode
  <1>3. Completed' = Completed \cup {cur.node}
    BY <1>1, <1>2, CompletedGrows
  <1>4. AnswersAreTerminal' <=> AnswersAreTerminal
    BY <1>2 DEF AnswersAreTerminal, KindOf
  <1>5. /\ outputs'[cur.node] = OutputOf(cur)
        /\ \A n \in Node \ {cur.node} : outputs'[n] = outputs[n]
    BY <1>1, <1>2
  <1> SUFFICES ASSUME AnswersAreTerminal
               PROVE  /\ \A n \in Node : outputs'[n] # Nowhere
                                           /\ KindOf(outputs'[n]) \in Answering
                                             => outputs'[n] = n
                      /\ \A n \in Completed' : KindOf(n) \in Answering => outputs'[n] = n
    BY <1>2, <1>4 DEF AnswersOwned, KindOf
  <1>6. ASSUME OutputOf(cur) # Nowhere, KindOf(OutputOf(cur)) \in Answering
        PROVE  OutputOf(cur) = cur.node
    <2>1. SUFFICES ASSUME KindOf(cur.node) \in PassThrough
                   PROVE  FALSE
      BY <2>1 DEF OutputOf
    <2>2. cur.from \in Node /\ OutputOf(cur) = outputs[cur.from]
      BY <2>1, <1>1, <1>6 DEF OutputOf
    <2>3. KindOf(cur.from) \in Answering
      BY <2>2, <1>6 DEF AnswersOwned
    <2>4. PICK e \in followed : template.edges[e].source = cur.from
      BY <2>2, <1>1, NodeRange DEF EntriesJustified, Justified, CompletesCur
    <2>5. e \in DOMAIN template.edges
      BY <1>1 DEF TypeOK
    <2>6. QED
      BY <2>2, <2>3, <2>4, <2>5 DEF AnswersAreTerminal, Answering
  <1>7. KindOf(cur.node) \in Answering => OutputOf(cur) = cur.node
    BY DEF OutputOf, PassThrough, Answering
  <1>8. Completed \subseteq Node
    BY <1>1 DEF Completed
  <1>9. QED
    BY <1>3, <1>5, <1>6, <1>7, <1>8 DEF AnswersOwned

\* Every step keeps the answers, and the final output once it is computed.
LEMMA NextKeepsAnswers ==
  ASSUME QueueInvariant, AnswerInvariant, [Next]_vars
  PROVE  AnswerInvariant'
  <1>1. TypeOK /\ Phases
    BY DEF QueueInvariant
  <1>2. CASE CompletesCur
    <2>1. AnswersOwned'
      BY <1>2, CompletionKeepsAnswers DEF AnswerInvariant
    <2>2. pc' = "loop" /\ temporal' = temporal /\ temporal # "completed"
      BY <1>1, <1>2 DEF CompletesCur, FinishNode, Phases, InRun
    <2>3. QED
      BY <2>1, <2>2 DEF AnswerInvariant, FinalStands
  <1>3. CASE UNCHANGED <<template, completed, outputs>>
    <2>1. AnswersOwned'
      BY <1>3 DEF AnswerInvariant, AnswersOwned, AnswersAreTerminal, KindOf, Completed
    <2>2. \/ StartFinish
          \/ /\ final' = final
             /\ pc' = "finishing" \/ temporal' = "completed" =>
                  pc = "finishing" \/ temporal = "completed"
      <3>1. \A result \in {"failed", "cancelled"} : Close(result) =>
              final' = final /\ pc' # "finishing" /\ temporal' # "completed"
        BY DEF Close
      <3>2. ASSUME FinishNode(cur)
            PROVE  final' = final /\ pc' # "finishing" /\ temporal' = temporal
        BY <3>2 DEF FinishNode
      <3>3. CASE Seed \/ BootFails \/ Dequeue
        BY <3>1, <3>3 DEF Seed, SeedWith, BootFails, Dequeue, Drop, Begin, control
      <3>4. CASE Execute
        BY <3>1, <3>2, <3>4 DEF Execute, RunNow, StartAwait, StartRejected, ThrowsPlainError
      <3>5. CASE Answer
        BY <3>1, <3>2, <3>5 DEF Answer, Resolved, ActivityFails, WebhookReceived,
           WebhookTimesOut, AwaitCancelled
      <3>6. CASE Child
        BY <3>1, <3>2, <3>6 DEF Child, ChildCompletes, ChildFails, ChildCancelled
      <3>7. CASE End
        BY <3>1, <3>7 DEF End, FinishRejected, FinishFails, Finish, Close
      <3>8. CASE Environment \/ UNCHANGED vars
        BY <3>8 DEF Environment, RequestCancel, Signal, vars, control
      <3>9. QED
        BY <3>3, <3>4, <3>5, <3>6, <3>7, <3>8 DEF Next, Worker
    <2>3. CASE StartFinish
      <3>1. IsFinalOutput(final')
        BY <2>3 DEF StartFinish
      <3>2. IsFinalOutput(final)'
        BY <3>1, <1>3 DEF IsFinalOutput, Envelopes, KindOf
      <3>3. QED
        BY <2>1, <3>2 DEF AnswerInvariant, FinalStands
    <2>4. CASE /\ final' = final
               /\ pc' = "finishing" \/ temporal' = "completed" =>
                    pc = "finishing" \/ temporal = "completed"
      <3>1. IsFinalOutput(final) => IsFinalOutput(final)'
        BY <2>4, <1>3 DEF IsFinalOutput, Envelopes, KindOf
      <3>2. QED
        BY <2>1, <2>4, <3>1 DEF AnswerInvariant, FinalStands
    <2>5. QED
      BY <2>2, <2>3, <2>4
  <1>4. QED
    BY <1>1, <1>2, <1>3, OutputsStay

\* A completed run returns the data of the answering node that completed last,
\* whatever ran beside it or after it.
THEOREM LatestResponseReturned == Spec => []ReturnsLatestResponse
  <1>1. Init => AnswerInvariant
    BY DEF Init, AnswerInvariant, AnswersOwned, FinalStands, Completed
  <1>2. QueueInvariant /\ AnswerInvariant /\ [Next]_vars => AnswerInvariant'
    BY NextKeepsAnswers
  <1>3. QueueInvariant /\ AnswerInvariant => ReturnsLatestResponse
    <2> SUFFICES ASSUME QueueInvariant, AnswerInvariant, temporal = "completed",
                        AnswersAreTerminal, NEW i \in Answers,
                        \A j \in Answers : j <= i
                 PROVE  final = completed[i]
      BY DEF ReturnsLatestResponse
    <2>1. /\ completed \in Seq(Node) /\ DOMAIN completed = 1 .. Len(completed)
          /\ Len(completed) \in Nat
          /\ \A j \in DOMAIN completed : completed[j] \in Completed /\ completed[j] \in Node
      BY DEF QueueInvariant, TypeOK, Completed
    <2>2. \A j \in Envelopes : KindOf(completed[j]) \in Answering
      BY <2>1 DEF AnswerInvariant, AnswersOwned, Envelopes, Answering
    <2>3. \A j \in Answers : j \in Envelopes /\ outputs[completed[j]] = completed[j]
      BY <2>1, NodeRange DEF AnswerInvariant, AnswersOwned, Envelopes, Answers, Answering
    <2>4. Envelopes = Answers /\ i \in DOMAIN completed
      BY <2>2, <2>3 DEF Envelopes, Answers, Answering
    <2>5. PICK j \in Answers : /\ \A k \in Answers : k <= j
                               /\ final = outputs[completed[j]]
      BY <2>1, <2>4 DEF AnswerInvariant, FinalStands, IsFinalOutput
    <2>6. j <= i /\ i <= j /\ i \in Nat /\ j \in Nat
      BY <2>1, <2>5 DEF Answers
    <2>7. QED
      BY <2>3, <2>5, <2>6
  <1>4. QED
    BY <1>1, <1>2, <1>3, QueueAccounts, PTL DEF Spec

-----------------------------------------------------------------------------
(* The package cache: installs exclude each other. *)

\* A call that moves is the only one that does.
LEMMA PutEffect ==
  ASSUME CacheTypes, NEW c \in Calls, NEW at \in Places, NEW got \in Reads,
         Put(c, at, got)
  PROVE  /\ call' \in [Calls -> [at : Places, got : Reads]]
         /\ call'[c] = [at |-> at, got |-> got]
         /\ \A d \in Calls \ {c} : call'[d] = call[d]
  <1>1. call' = [call EXCEPT ![c] = [at |-> at, got |-> got]]
    BY DEF Put, Call
  <1>2. QED
    BY <1>1 DEF CacheTypes

\* When the registered promise settles, the call that installed and those that
\* wait for it go on, and no other.
LEMMA SettleEffect ==
  ASSUME CacheTypes, NEW c \in Calls, NEW at \in Places, Settle(c, at)
  PROVE  /\ call' \in [Calls -> [at : Places, got : Reads]]
         /\ inflight' = None
         /\ call'[c].at = at
         /\ \A d \in Calls : \/ call'[d] = call[d]
                             \/ /\ call'[d] = [at |-> at, got |-> "install"]
                                /\ d = c \/ At(d, "waiting")
  <1>1. /\ inflight' = None
        /\ call' = [d \in Calls |-> IF d = c \/ At(d, "waiting")
                                      THEN [at |-> at, got |-> "install"] ELSE call[d]]
    BY DEF Settle, Call
  <1>2. QED
    BY <1>1 DEF CacheTypes, Reads

\* A miss joins the registered install, or registers one and starts it.
LEMMA JoinEffect ==
  ASSUME CacheTypes, OneInstaller, NEW c \in Calls, call[c].at \notin Installing,
         JoinOrInstall(c)
  PROVE  /\ call' \in [Calls -> [at : Places, got : Reads]]
         /\ inflight' \in Calls \cup {None} /\ redundant' \in BOOLEAN
         /\ OneInstaller'
         /\ \A d \in Calls \ {c} : call'[d] = call[d]
         /\ \/ call'[c].at = "waiting" /\ redundant' = redundant
            \/ /\ call'[c].at = "mkdir" /\ redundant' = (redundant \/ Valid)
               /\ \A d \in Calls : call[d].at \notin Installing
  <1>1. CASE inflight # None /\ Put(c, "waiting", None) /\ UNCHANGED <<inflight, redundant>>
    <2>1. /\ call' \in [Calls -> [at : Places, got : Reads]]
          /\ call'[c] = [at |-> "waiting", got |-> None]
          /\ \A d \in Calls \ {c} : call'[d] = call[d]
      BY <1>1, PutEffect DEF Places, Reads
    <2>2. QED
      BY <1>1, <2>1 DEF CacheTypes, OneInstaller, Installing
  <1>2. CASE /\ inflight = None /\ inflight' = c /\ Put(c, "mkdir", None)
             /\ redundant' = (redundant \/ Valid)
    <2>1. /\ call' \in [Calls -> [at : Places, got : Reads]]
          /\ call'[c] = [at |-> "mkdir", got |-> None]
          /\ \A d \in Calls \ {c} : call'[d] = call[d]
      BY <1>2, PutEffect DEF Places, Reads, Installing
    <2>2. \A d \in Calls : call[d].at \notin Installing
      BY <1>2, NoneAssumption DEF OneInstaller
    <2>3. OneInstaller'
      BY <1>2, <2>1, <2>2 DEF OneInstaller, Installing
    <2>4. redundant' \in BOOLEAN
      BY <1>2 DEF CacheTypes, Valid, MetaValid
    <2>5. QED
      BY <1>2, <2>1, <2>2, <2>3, <2>4
  <1>3. QED
    BY <1>1, <1>2 DEF JoinOrInstall

\* What the directory is worth while installs run, fail and are lost: nothing
\* is stored as fresh before the modules are whole, and an install that begins
\* over a fresh entry is one that was not needed.
DirectoryInvariant ==
  /\ \A c \in Calls : /\ call[c].at \in {"truncate", "write"} => modules = "whole"
                      /\ call[c].at \in {"stating", "statted"} => ~repeats
  /\ ~redundant /\ ~repeats =>
       /\ meta = "fresh" => modules = "whole"
       /\ \A c \in Calls : call[c].at \in {"mkdir", "tool"} => meta # "fresh"

\* A call that goes on outside an install leaves the directory alone.
LEMMA MovesKeepCache ==
  ASSUME CacheInvariant, DirectoryInvariant, NEW c \in Calls,
         NEW at \in Places \ Installing, NEW got \in Reads, Put(c, at, got),
         call[c].at \notin Installing,
         at \in {"stating", "statted"} => ~repeats,
         UNCHANGED <<list, disk, inflight, crashes, redundant>>, made' \in 0 .. MaxCalls
  PROVE  CacheInvariant' /\ DirectoryInvariant'
  <1>1. /\ call' \in [Calls -> [at : Places, got : Reads]]
        /\ call'[c] = [at |-> at, got |-> got]
        /\ \A d \in Calls \ {c} : call'[d] = call[d]
    BY PutEffect DEF CacheInvariant
  <1>2. UNCHANGED <<pip, repeats, meta, modules, inflight, crashes, redundant>>
    BY DEF list, disk
  <1>3. CacheTypes'
    BY <1>1, <1>2 DEF CacheInvariant, CacheTypes
  <1>4. OneInstaller'
    BY <1>1, <1>2 DEF CacheInvariant, OneInstaller
  <1>5. DirectoryInvariant'
    BY <1>1, <1>2 DEF DirectoryInvariant, Installing
  <1>6. QED
    BY <1>3, <1>4, <1>5 DEF CacheInvariant

\* A miss keeps both: the install it may begin is over an entry that is not
\* fresh, or it is recorded as redundant.
LEMMA MissesKeepCache ==
  ASSUME CacheInvariant, DirectoryInvariant, NEW c \in Calls,
         call[c].at \notin Installing, JoinOrInstall(c),
         UNCHANGED <<list, disk, made, crashes>>
  PROVE  CacheInvariant' /\ DirectoryInvariant'
  <1>1. UNCHANGED <<pip, repeats, meta, modules, made, crashes>>
    BY DEF list, disk
  <1>2. CacheTypes /\ OneInstaller
    BY DEF CacheInvariant
  <1>3. /\ call' \in [Calls -> [at : Places, got : Reads]]
        /\ inflight' \in Calls \cup {None} /\ redundant' \in BOOLEAN
        /\ OneInstaller'
        /\ \A d \in Calls \ {c} : call'[d] = call[d]
        /\ \/ call'[c].at = "waiting" /\ redundant' = redundant
           \/ /\ call'[c].at = "mkdir" /\ redundant' = (redundant \/ Valid)
              /\ \A d \in Calls : call[d].at \notin Installing
    BY <1>2, JoinEffect
  <1>4. CacheInvariant'
    BY <1>1, <1>2, <1>3 DEF CacheInvariant, CacheTypes
  <1>5. CASE call'[c].at = "waiting" /\ redundant' = redundant
    BY <1>1, <1>3, <1>4, <1>5 DEF DirectoryInvariant
  <1>6. CASE call'[c].at = "mkdir" /\ redundant' = (redundant \/ Valid)
    <2>1. \A d \in Calls : /\ call'[d].at \in {"truncate", "write"} => modules' = "whole"
                           /\ call'[d].at \in {"stating", "statted"} => ~repeats'
      BY <1>1, <1>3, <1>6 DEF DirectoryInvariant
    <2>2. ASSUME ~redundant', ~repeats'
          PROVE  /\ meta' = "fresh" => modules' = "whole"
                 /\ \A d \in Calls : call'[d].at \in {"mkdir", "tool"} => meta' # "fresh"
      BY <1>1, <1>6, <2>2 DEF DirectoryInvariant, Valid, MetaValid
    <2>3. QED
      BY <1>4, <2>1, <2>2 DEF DirectoryInvariant
  <1>7. QED
    BY <1>3, <1>4, <1>5, <1>6

\* The steps of the install: the one that is registered writes, and stores the
\* entry only after the tool has succeeded.
LEMMA InstallKeepsCache ==
  ASSUME CacheInvariant, DirectoryInvariant, NEW c \in Calls,
         \/ Starts(c) \/ ToolWrites(c) \/ ToolSucceeds(c) \/ MetaTruncated(c)
         \/ MetaWritten(c) \/ Fails(c)
  PROVE  CacheInvariant' /\ DirectoryInvariant'
  <1>1. CacheTypes /\ OneInstaller
    BY DEF CacheInvariant
  <1>2. call[c].at \in Installing
    BY DEF Starts, ToolWrites, ToolSucceeds, MetaTruncated, MetaWritten, Fails, At, Installing
  <1>3. inflight = c /\ \A d \in Calls \ {c} : call[d].at \notin Installing
    BY <1>1, <1>2 DEF OneInstaller
  <1>4. CASE Starts(c)
    <2>1. /\ call' \in [Calls -> [at : Places, got : Reads]]
          /\ call'[c] = [at |-> "tool", got |-> None]
          /\ \A d \in Calls \ {c} : call'[d] = call[d]
      BY <1>1, <1>4, PutEffect DEF Starts, Places, Reads, Installing
    <2>2. /\ UNCHANGED <<pip, repeats, meta, inflight, made, crashes, redundant>>
          /\ modules' \in {"absent", "partial", "whole"}
          /\ call[c].at = "mkdir"
      BY <1>1, <1>4 DEF Starts, list, At, CacheTypes
    <2>3. CacheInvariant'
      BY <1>1, <1>3, <2>1, <2>2 DEF CacheInvariant, CacheTypes, OneInstaller, Installing
    <2>4. DirectoryInvariant'
      BY <1>3, <2>1, <2>2 DEF DirectoryInvariant, Installing
    <2>5. QED
      BY <2>3, <2>4
  <1>5. CASE ToolWrites(c)
    <2>1. /\ UNCHANGED <<pip, repeats, meta, inflight, call, made, crashes, redundant>>
          /\ modules' = "partial" /\ call[c].at = "tool"
      BY <1>5 DEF ToolWrites, list, At
    <2>2. CacheInvariant'
      BY <1>1, <2>1 DEF CacheInvariant, CacheTypes, OneInstaller
    <2>3. DirectoryInvariant'
      BY <1>3, <2>1 DEF DirectoryInvariant, Installing
    <2>4. QED
      BY <2>2, <2>3
  <1>6. CASE ToolSucceeds(c) \/ MetaTruncated(c)
    <2>1. PICK at \in {"truncate", "write"} : Put(c, at, None)
      BY <1>6 DEF ToolSucceeds, MetaTruncated
    <2>2. /\ call' \in [Calls -> [at : Places, got : Reads]]
          /\ call'[c] = [at |-> at, got |-> None]
          /\ \A d \in Calls \ {c} : call'[d] = call[d]
      BY <1>1, <2>1, PutEffect DEF Places, Reads, Installing
    <2>3. /\ UNCHANGED <<pip, repeats, inflight, made, crashes, redundant>>
          /\ modules' = "whole" /\ (meta' = meta \/ meta' = "blank")
      BY <1>6 DEF ToolSucceeds, MetaTruncated, list, At, DirectoryInvariant
    <2>4. CacheInvariant'
      BY <1>1, <1>3, <2>2, <2>3 DEF CacheInvariant, CacheTypes, OneInstaller, Installing
    <2>5. DirectoryInvariant'
      BY <1>3, <2>2, <2>3 DEF DirectoryInvariant, Installing
    <2>6. QED
      BY <2>4, <2>5
  <1>7. CASE MetaWritten(c) \/ Fails(c)
    <2>1. PICK at \in {"using", "failed"} : Settle(c, at)
      BY <1>7 DEF MetaWritten, Fails
    <2>2. /\ call' \in [Calls -> [at : Places, got : Reads]]
          /\ inflight' = None
          /\ call'[c].at = at
          /\ \A d \in Calls : \/ call'[d] = call[d]
                              \/ call'[d] = [at |-> at, got |-> "install"]
      BY <1>1, <2>1, SettleEffect DEF Places
    <2>3. /\ UNCHANGED <<pip, repeats, modules, made, crashes, redundant>>
          /\ meta' = meta \/ (meta' = "fresh" /\ modules = "whole")
      BY <1>7 DEF MetaWritten, Fails, list, disk, At, DirectoryInvariant
    <2>4. \A d \in Calls : call'[d].at \notin Installing
      BY <1>3, <2>2 DEF Installing
    <2>5. CacheInvariant'
      BY <1>1, <2>2, <2>3, <2>4, NoneAssumption DEF CacheInvariant, CacheTypes, OneInstaller
    <2>6. DirectoryInvariant'
      BY <2>2, <2>3, <2>4 DEF DirectoryInvariant, Installing
    <2>7. QED
      BY <2>5, <2>6
  <1>8. QED
    BY <1>4, <1>5, <1>6, <1>7

LEMMA CacheNextKeeps ==
  ASSUME CacheInvariant, DirectoryInvariant, [CacheNext]_cacheVars
  PROVE  CacheInvariant' /\ DirectoryInvariant'
  <1>1. /\ CacheTypes
        /\ made \in 0 .. MaxCalls /\ \A c \in Calls : call[c] \in [at : Places, got : Reads]
    BY DEF CacheInvariant, CacheTypes
  <1>2. CASE Expire
    <2>1. /\ UNCHANGED <<pip, repeats, modules, inflight, call, made, crashes, redundant>>
          /\ meta' = "stale"
      BY <1>2 DEF Expire, list
    <2>2. QED
      BY <2>1 DEF CacheInvariant, CacheTypes, OneInstaller, DirectoryInvariant
  <1>3. CASE Crash
    <2>1. /\ UNCHANGED <<pip, repeats, meta, modules, made, redundant>>
          /\ inflight' = None /\ crashes' = crashes + 1 /\ crashes < MaxCrashes
          /\ call' = [c \in Calls |-> [at |-> "idle", got |-> None]]
      BY <1>3 DEF Crash, list, disk, Idle, Call
    <2>2. crashes' \in 0 .. MaxCrashes
      BY <1>1, <2>1, BoundsAssumption DEF CacheTypes
    <2>3. call' \in [Calls -> [at : Places, got : Reads]] /\ \A c \in Calls : call'[c].at = "idle"
      BY <2>1 DEF Places, Reads
    <2>4. CacheInvariant'
      BY <1>1, <2>1, <2>2, <2>3, NoneAssumption
      DEF CacheInvariant, CacheTypes, OneInstaller, Installing
    <2>5. DirectoryInvariant'
      BY <2>1, <2>3 DEF DirectoryInvariant
    <2>6. QED
      BY <2>4, <2>5
  <1>4. ASSUME NEW c \in Calls, Resolve(c) \/ MetaRead(c) \/ ModulesRead(c) \/ Hit(c) \/ Ends(c)
        PROVE  CacheInvariant' /\ DirectoryInvariant'
    <2>1. CASE Resolve(c)
      <3>1. made' \in 0 .. MaxCalls
        BY <1>1, <2>1, BoundsAssumption DEF Resolve
      <3>2. QED
        BY <2>1, <3>1, MovesKeepCache DEF Resolve, At, Installing, Places, Reads
    <2>2. CASE MetaRead(c)
      <3>1. meta \in Reads
        BY <1>1 DEF CacheTypes, Reads
      <3>2. QED
        BY <1>1, <2>2, <3>1, MovesKeepCache DEF MetaRead, At, Installing, Places
    <2>3. CASE ModulesRead(c)
      <3>1. modules \in Reads /\ ~repeats
        BY <1>1, <2>3 DEF CacheTypes, Reads, DirectoryInvariant, ModulesRead, At
      <3>2. QED
        BY <1>1, <2>3, <3>1, MovesKeepCache DEF ModulesRead, At, Installing, Places
    <2>4. CASE Hit(c)
      BY <1>1, <2>4, MovesKeepCache DEF Hit, At, Installing, Places, Reads
    <2>5. CASE Ends(c)
      BY <1>1, <2>5, MovesKeepCache DEF Ends, Installing, Places, Reads
    <2>6. QED
      BY <1>4, <2>1, <2>2, <2>3, <2>4, <2>5
  <1>5. ASSUME NEW c \in Calls, MetaChecked(c) \/ Miss(c)
        PROVE  CacheInvariant' /\ DirectoryInvariant'
    <2>1. call[c].at \notin Installing
      BY <1>5 DEF MetaChecked, Miss, At, Installing
    <2>2. CASE JoinOrInstall(c) /\ UNCHANGED <<list, disk, made, crashes>>
      BY <2>1, <2>2, MissesKeepCache
    <2>3. CASE /\ MetaValid(call[c].got) /\ Put(c, "stating", None)
               /\ UNCHANGED <<inflight, redundant, list, disk, made, crashes>>
      BY <1>1, <2>1, <2>3, MovesKeepCache DEF MetaValid, Installing, Places, Reads
    <2>4. QED
      BY <1>5, <2>2, <2>3 DEF MetaChecked, Miss
  <1>6. CASE UNCHANGED cacheVars
    BY <1>6 DEF cacheVars, list, disk, CacheInvariant, CacheTypes, OneInstaller,
       DirectoryInvariant
  <1>7. QED
    BY <1>2, <1>3, <1>4, <1>5, <1>6, InstallKeepsCache DEF CacheNext, Goes

\* At most one install runs over a directory, and it is the registered one,
\* however calls, failures and crashes interleave.
THEOREM InstallsExcludeEachOther == CacheSpec => [](CacheInvariant /\ DirectoryInvariant)
  <1>1. CacheInit => CacheInvariant /\ DirectoryInvariant
    <2> SUFFICES ASSUME CacheInit PROVE CacheInvariant /\ DirectoryInvariant
      OBVIOUS
    <2>1. /\ call \in [Calls -> [at : Places, got : Reads]]
          /\ \A c \in Calls : call[c].at = "idle"
      BY DEF CacheInit, Idle, Call, Places, Reads
    <2>2. /\ pip \in BOOLEAN /\ repeats \in BOOLEAN /\ redundant \in BOOLEAN
          /\ meta = "none" /\ modules = "absent" /\ inflight = None
          /\ made = 0 /\ crashes = 0
      BY DEF CacheInit
    <2>3. 0 \in 0 .. MaxCalls /\ 0 \in 0 .. MaxCrashes
      BY BoundsAssumption
    <2>4. CacheInvariant
      BY <2>1, <2>2, <2>3, NoneAssumption DEF CacheInvariant, CacheTypes, OneInstaller, Installing
    <2>5. DirectoryInvariant
      BY <2>1, <2>2 DEF DirectoryInvariant
    <2>6. QED
      BY <2>4, <2>5
  <1>2. CacheInvariant /\ DirectoryInvariant /\ [CacheNext]_cacheVars
          => CacheInvariant' /\ DirectoryInvariant'
    BY CacheNextKeeps
  <1>3. QED
    BY <1>1, <1>2, PTL DEF CacheSpec

\* Who is given the directory is given it whole, unless the entry expired since
\* it was read or an install that was not needed is touching it.
THEOREM DirectoriesAreWhole == CacheSpec => GivenWhole
  <1> DEFINE Given == \A c \in Calls :
               (~At(c, "using") /\ call'[c].at = "using") =>
                 \/ modules' = "whole"
                 \/ call'[c].got = "hit" /\ (redundant \/ meta # "fresh")
  <1>1. CacheInvariant /\ DirectoryInvariant /\ [CacheNext]_cacheVars => [Given]_cacheVars
    <2> SUFFICES ASSUME CacheInvariant, DirectoryInvariant, CacheNext
                 PROVE  Given
      OBVIOUS
    <2> SUFFICES ASSUME NEW d \in Calls, call[d].at # "using", call'[d].at = "using"
                 PROVE  \/ modules' = "whole"
                        \/ call'[d].got = "hit" /\ (redundant \/ meta # "fresh")
      BY DEF At
    <2>1. CacheTypes /\ OneInstaller /\ \A c \in Calls : call[c] \in [at : Places, got : Reads]
      BY DEF CacheInvariant, CacheTypes
    <2>2. ASSUME NEW c \in Calls, NEW at \in Places, NEW got \in Reads, Put(c, at, got),
                 at # "using"
          PROVE  FALSE
      <3>1. CacheTypes /\ Put(c, at, got)
        BY <2>1, <2>2
      <3>2. /\ call'[c] = [at |-> at, got |-> got]
            /\ \A e \in Calls \ {c} : call'[e] = call[e]
        BY <3>1, PutEffect
      <3>3. QED
        BY <2>2, <3>2
    <2>3. ~ (Expire \/ Crash)
      BY DEF Expire, Crash, Idle, Call
    <2>4. PICK c \in Calls : Resolve(c) \/ Goes(c) \/ Ends(c)
      BY <2>3 DEF CacheNext
    <2>5. CASE Hit(c)
      <3>1. /\ call' \in [Calls -> [at : Places, got : Reads]]
            /\ call'[c] = [at |-> "using", got |-> "hit"]
            /\ \A e \in Calls \ {c} : call'[e] = call[e]
        BY <2>1, <2>5, PutEffect DEF Hit, Places, Reads
      <3>2. d = c /\ UNCHANGED <<meta, modules>> /\ ~repeats
        BY <2>5, <3>1 DEF Hit, disk, At, DirectoryInvariant
      <3>3. QED
        BY <3>1, <3>2 DEF DirectoryInvariant
    <2>6. CASE MetaWritten(c)
      BY <2>6 DEF MetaWritten, At, DirectoryInvariant
    <2>7. CASE Fails(c)
      <3>1. CacheTypes /\ Settle(c, "failed") /\ "failed" \in Places
        BY <2>1, <2>7 DEF Fails, Places
      <3>2. \/ call'[d] = call[d]
            \/ call'[d] = [at |-> "failed", got |-> "install"]
        BY <3>1, SettleEffect
      <3>3. QED
        BY <3>2
    <2>8. CASE Resolve(c) \/ MetaRead(c) \/ ModulesRead(c) \/ Starts(c)
               \/ ToolSucceeds(c) \/ MetaTruncated(c) \/ Ends(c)
      <3>1. meta \in Reads /\ modules \in Reads /\ None \in Reads
        BY <2>1 DEF CacheTypes, Reads
      <3>2. \A at \in {"reading", "metaRead", "statted", "tool", "truncate", "write", "idle"} :
              at \in Places /\ at # "using"
        BY DEF Places, Installing
      <3>3. QED
        BY <2>2, <2>8, <3>1, <3>2 DEF Resolve, MetaRead, ModulesRead, Starts, ToolSucceeds,
           MetaTruncated, Ends
    <2>9. CASE ToolWrites(c)
      BY <2>9 DEF ToolWrites
    <2>10. CASE MetaChecked(c) \/ Miss(c)
      <3>1. \A at \in {"stating", "waiting", "mkdir"} : at \in Places /\ at # "using"
        BY DEF Places, Installing
      <3>2. None \in Reads
        BY DEF Reads
      <3>3. QED
        BY <2>2, <2>10, <3>1, <3>2 DEF MetaChecked, Miss, JoinOrInstall
    <2>11. QED
      BY <2>4, <2>5, <2>6, <2>7, <2>8, <2>9, <2>10 DEF Goes
  <1>2. CacheSpec => [][Given]_cacheVars
    BY <1>1, InstallsExcludeEachOther, PTL DEF CacheSpec
  <1>3. QED
    BY <1>2 DEF GivenWhole
=============================================================================
