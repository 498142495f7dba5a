------------------------ MODULE WebhookInboundProofs ------------------------
(***************************************************************************)
(* The inductive invariants of WebhookInbound, for any requests and manual *)
(* starts: a request's own run works on that request, and without faults   *)
(* no request is executed twice, nor accepted before a run has it.         *)
(***************************************************************************)
EXTENDS WebhookInbound, FiniteSetTheorems, TLAPS

\* A step of the system: one of the actions, for some request or execution.
LEMMA NextCases ==
  ASSUME Next
  PROVE  \/ Deactivate
         \/ \E r \in Requests : \/ Lookup(r) \/ FindWaiting(r) \/ SendSignal(r)
                                \/ SignalFails(r) \/ StorePayload(r)
                                \/ Result(r) \/ WaitTimesOut(r)
         \/ \E m \in Manual : ManualStart(m)
         \/ \E x \in Runs : \/ StartExecution(x) \/ StartFails(x)
                            \/ RecordStarted(x) \/ RecordStartedFails(x)
                            \/ ReachWebhook(x) \/ ReceiveSignal(x)
                            \/ WebhookTimesOut(x) \/ Report(x) \/ CloseRun(x)
BY DEF Next, Inbound, Editor, Worker, Runs

\* A delivered signal is the last of the inbox, before it stand the others.
LEMMA DeliveredSignals ==
  ASSUME inbox \in [Runs -> Seq(Requests)], NEW r \in Requests,
         target[r] \in Runs, Deliver(r)
  PROVE  /\ inbox' \in [Runs -> Seq(Requests)]
         /\ \A x \in Runs : \A i \in 1..Len(inbox'[x]) :
              \/ i \in 1..Len(inbox[x]) /\ inbox'[x][i] = inbox[x][i]
              \/ x = target[r] /\ inbox'[x][i] = r
<1>1. inbox' = [inbox EXCEPT ![target[r]] = Append(inbox[target[r]], r)]
  BY DEF Deliver
<1>2. \A s \in Seq(Requests) :
        /\ Append(s, r) \in Seq(Requests)
        /\ \A i \in 1..Len(Append(s, r)) :
             (i \in 1..Len(s) /\ Append(s, r)[i] = s[i]) \/ Append(s, r)[i] = r
  OBVIOUS
<1> HIDE DEF Runs
<1> QED  BY <1>1, <1>2

\* The order number given to a record is a number.
LEMMA OrderNumbers ==
  ASSUME FiniteAssumption
  PROVE  Cardinality({y \in Runs : startedAt[y] > 0}) + 1 \in Nat
<1>1. IsFiniteSet(Runs)
  BY FiniteAssumption, FS_Union DEF Runs
<1>2. IsFiniteSet({y \in Runs : startedAt[y] > 0})
  BY <1>1, FS_Subset, Zenon
<1>3. Cardinality({y \in Runs : startedAt[y] > 0}) \in Nat
  BY <1>2, FS_CardinalityType, Zenon
<1> QED  BY <1>3

-----------------------------------------------------------------------------
LEMMA InitEstablishes == Init => InboundInvariant
<1> SUFFICES ASSUME Init PROVE InboundInvariant
  OBVIOUS
<1> USE DEF Init
<1>1. endpointActive \in BOOLEAN /\ workflowActive \in BOOLEAN /\ faulty \in BOOLEAN
  BY Zenon
<1>2. TypeOK
  <2>1. \A x \in Runs : inbox[x] \in Seq(Requests)
    BY SMT
  <2>2. inbox \in [Runs -> Seq(Requests)]
    BY <2>1, SMT
  <2>3. \A r \in Requests : handler[r] = "idle"
    BY SMT DEF Runs
  <2> QED  BY <1>1, <2>2, <2>3, SMT DEF TypeOK, FlagsOK, CallersOK, RunsOK
<1>3. OwnPayload /\ RunsHavePayload
  BY SMT DEF OwnPayload, RunsHavePayload, Runs
<1>4. SignalledStaysSignalled
  <2>1. \A x \in Runs : \A r \in Requests : ~ SignalledTo(x, r)
    BY NamesAssumption, SMT DEF SignalledTo, Runs
  <2> QED  BY <2>1, SMT DEF SignalledStaysSignalled, SignalsHeld, Runs
<1> QED  BY <1>2, <1>3, <1>4 DEF InboundInvariant

\* The flags stay Boolean.
LEMMA FlagTypes == TypeOK /\ Next => FlagsOK'
<1> SUFFICES ASSUME TypeOK, Next PROVE FlagsOK'
  OBVIOUS
<1> USE DEF TypeOK, FlagsOK, workflow, caller
<1>1. CASE Deactivate
  BY <1>1, Zenon DEF Deactivate
<1>2. CASE \E r \in Requests : \/ Lookup(r) \/ FindWaiting(r) \/ SendSignal(r)
                             \/ SignalFails(r) \/ StorePayload(r)
                             \/ Result(r) \/ WaitTimesOut(r)
  BY <1>2, Zenon DEF Lookup, FindWaiting, SendSignal, SignalFails, StorePayload,
                     Result, WaitTimesOut
<1>3. CASE \E m \in Manual : ManualStart(m)
  BY <1>3, Zenon DEF ManualStart
<1>4. CASE \E x \in Runs : \/ StartExecution(x) \/ StartFails(x)
                         \/ RecordStarted(x) \/ RecordStartedFails(x)
                         \/ ReachWebhook(x) \/ ReceiveSignal(x)
                         \/ WebhookTimesOut(x) \/ Report(x) \/ CloseRun(x)
  BY <1>4, Zenon DEF StartExecution, StartFails, RecordStarted, RecordStartedFails,
                     ReachWebhook, ReceiveSignal, WebhookTimesOut, Report, CloseRun
<1> QED  BY <1>1, <1>2, <1>3, <1>4, NextCases, Zenon

-----------------------------------------------------------------------------
(* One lemma per actor: what its steps preserve of types, payloads and        *)
(* signals.                                                                   *)
\* The endpoint is looked up.
LEMMA LookupPreserves ==
  ASSUME CallersOK, RunsOK, OwnPayload, RunsHavePayload, NEW r \in Requests,
         Lookup(r)
  PROVE  /\ CallersOK' /\ RunsOK' /\ OwnPayload' /\ RunsHavePayload'
         /\ SignalsHeld => SignalsHeld'
<1> USE NamesAssumption
<1>r. r \in Runs
  BY DEF Runs
<1> HIDE DEF Runs
<1>1. /\ handler[r] = "idle"
      /\ \/ handler' = [handler EXCEPT ![r] = "find"] /\ reply' = reply
         \/ /\ handler' = [handler EXCEPT ![r] = "replied"]
            /\ reply' = [reply EXCEPT ![r] = "error"]
      /\ UNCHANGED <<target, row, startedAt, run, payload, inbox>>
  BY Zenon DEF Lookup, Goes, Ends
<1>p. OwnPayload' /\ RunsHavePayload'
  BY <1>1, SMT DEF OwnPayload, RunsHavePayload
<1>2. CASE handler' = [handler EXCEPT ![r] = "find"] /\ reply' = reply
  <2>1. CallersOK' /\ RunsOK'
    BY <1>r, <1>1, <1>2, SMT DEF CallersOK, RunsOK
  <2>2. SignalsHeld => SignalsHeld'
    BY <1>r, <1>1, <1>2, SMT DEF SignalsHeld, SignalledTo, CallersOK, RunsOK
  <2> QED  BY <1>p, <2>1, <2>2
<1>3. CASE /\ handler' = [handler EXCEPT ![r] = "replied"]
            /\ reply' = [reply EXCEPT ![r] = "error"]
  <2>1. CallersOK' /\ RunsOK'
    BY <1>r, <1>1, <1>3, SMT DEF CallersOK, RunsOK
  <2>2. SignalsHeld => SignalsHeld'
    BY <1>r, <1>1, <1>3, SMT DEF SignalsHeld, SignalledTo, CallersOK, RunsOK
  <2> QED  BY <1>p, <2>1, <2>2
<1> QED  BY <1>1, <1>2, <1>3, <1>p

\* A running execution is found, or none.
LEMMA FindPreserves ==
  ASSUME CallersOK, RunsOK, OwnPayload, RunsHavePayload, NEW r \in Requests,
         FindWaiting(r)
  PROVE  /\ CallersOK' /\ RunsOK' /\ OwnPayload' /\ RunsHavePayload'
         /\ SignalsHeld => SignalsHeld'
<1> USE NamesAssumption
<1>r. r \in Runs
  BY DEF Runs
<1> HIDE DEF Runs
<1>1. /\ handler[r] = "find"
      /\ \/ \E x \in Runs : /\ target' = [target EXCEPT ![r] = x]
                            /\ handler' = [handler EXCEPT ![r] = "signal"]
         \/ handler' = [handler EXCEPT ![r] = "start"] /\ target' = target
      /\ UNCHANGED <<reply, row, startedAt, run, payload, inbox>>
  BY Zenon DEF FindWaiting, Goes
<1>p. OwnPayload' /\ RunsHavePayload'
  BY <1>1, SMT DEF OwnPayload, RunsHavePayload
<1>2. CASE \E x \in Runs : /\ target' = [target EXCEPT ![r] = x]
                        /\ handler' = [handler EXCEPT ![r] = "signal"]
  <2>0. PICK x \in Runs : /\ target' = [target EXCEPT ![r] = x]
                         /\ handler' = [handler EXCEPT ![r] = "signal"]
    BY <1>2
  <2>1. CallersOK' /\ RunsOK'
    BY <1>r, <1>1, <2>0, SMT DEF CallersOK, RunsOK
  <2>2. SignalsHeld => SignalsHeld'
    BY <1>r, <1>1, <2>0, SMT DEF SignalsHeld, SignalledTo, CallersOK, RunsOK
  <2> QED  BY <1>p, <2>1, <2>2
<1>3. CASE handler' = [handler EXCEPT ![r] = "start"] /\ target' = target
  <2>1. CallersOK' /\ RunsOK'
    BY <1>r, <1>1, <1>3, SMT DEF CallersOK, RunsOK
  <2>2. SignalsHeld => SignalsHeld'
    BY <1>r, <1>1, <1>3, SMT DEF SignalsHeld, SignalledTo, CallersOK, RunsOK
  <2> QED  BY <1>p, <2>1, <2>2
<1> QED  BY <1>1, <1>2, <1>3, <1>p

\* The wait for the result ends.
LEMMA AnswerPreserves ==
  ASSUME CallersOK, RunsOK, OwnPayload, RunsHavePayload, NEW r \in Requests,
         Result(r) \/ WaitTimesOut(r)
  PROVE  /\ CallersOK' /\ RunsOK' /\ OwnPayload' /\ RunsHavePayload'
         /\ SignalsHeld => SignalsHeld'
<1> USE NamesAssumption
<1>r. r \in Runs
  BY DEF Runs
<1> HIDE DEF Runs
<1>1. /\ handler[r] = "await" /\ handler' = [handler EXCEPT ![r] = "replied"]
      /\ \E kind \in {"response", "received"} : reply' = [reply EXCEPT ![r] = kind]
      /\ UNCHANGED <<target, row, startedAt, run, payload, inbox>>
  BY Zenon DEF Result, WaitTimesOut, Goes, Ends
<1>2. CallersOK' /\ RunsOK'
  BY <1>r, <1>1, SMT DEF CallersOK, RunsOK
<1>3. OwnPayload' /\ RunsHavePayload'
  BY <1>1, SMT DEF OwnPayload, RunsHavePayload
<1>4. SignalsHeld => SignalsHeld'
  BY <1>r, <1>1, SMT DEF SignalsHeld, SignalledTo, CallersOK, RunsOK
<1> QED  BY <1>2, <1>3, <1>4

\* The signal is sent and accepted, or not accepted.
LEMMA SignalPreserves ==
  ASSUME CallersOK, RunsOK, OwnPayload, RunsHavePayload, NEW r \in Requests,
         SendSignal(r)
  PROVE  /\ CallersOK' /\ RunsOK' /\ OwnPayload' /\ RunsHavePayload'
         /\ SignalsHeld => SignalsHeld'
<1> USE NamesAssumption
<1>r. r \in Runs
  BY DEF Runs
<1> HIDE DEF Runs
<1>1. handler[r] = "signal" /\ UNCHANGED <<target, reply, row, startedAt, run, payload>>
  BY Zenon DEF SendSignal
<1>p. OwnPayload' /\ RunsHavePayload'
  BY <1>1, SMT DEF OwnPayload, RunsHavePayload
<1>2. inbox \in [Runs -> Seq(Requests)] /\ target[r] \in Runs
  BY <1>r, <1>1, SMT DEF CallersOK, RunsOK
<1>3. CASE Deliver(r) /\ handler' = [handler EXCEPT ![r] = "store"]
  <2>0. handler' = [handler EXCEPT ![r] = "store"]
    BY <1>3
  <2>1. /\ inbox' \in [Runs -> Seq(Requests)]
        /\ \A x \in Runs : \A i \in 1..Len(inbox'[x]) :
             \/ i \in 1..Len(inbox[x]) /\ inbox'[x][i] = inbox[x][i]
             \/ x = target[r] /\ inbox'[x][i] = r
    BY <1>2, <1>3, DeliveredSignals
  <2>2. RunsOK'
    <3>1. inbox' \in [Runs -> Seq(Requests)]
      BY <2>1
    <3> QED  BY <1>1, <3>1, SMT DEF RunsOK
  <2>3. CallersOK'
    BY <1>r, <1>1, <2>0, SMT DEF CallersOK
  <2>4. ASSUME NEW x \in Runs, NEW q \in Requests, SignalledTo(x, q)'
        PROVE  SignalledTo(x, q) \/ (q = r /\ x = target[r])
    BY <1>1, <2>1, <2>4, SMT DEF SignalledTo
  <2>5. ASSUME SignalsHeld PROVE SignalsHeld'
    <3>1. \A q \in Requests :
            handler'[q] \in {"idle", "find", "signal", "store", "start"} => run'[q] = "none"
      BY <1>r, <1>1, <2>0, <2>5, SMT DEF SignalsHeld, CallersOK
    <3>2. ASSUME NEW x \in Runs, NEW q \in Requests, SignalledTo(x, q)'
          PROVE  /\ handler'[q] \in {"store", "await", "replied"}
                 /\ target'[q] = x /\ run'[q] = "none"
      <4>1. CASE q = r /\ x = target[r]
        BY <1>r, <1>1, <2>0, <2>5, <4>1, SMT DEF SignalsHeld, CallersOK
      <4>2. CASE SignalledTo(x, q)
        <5>1. handler[q] \in {"store", "await", "replied"} /\ target[q] = x /\ run[q] = "none"
          BY <2>5, <4>2 DEF SignalsHeld
        <5>2. q \in Runs
          BY DEF Runs
        <5> QED  BY <1>r, <1>1, <2>0, <5>1, <5>2, SMT DEF CallersOK
      <4> QED  BY <2>4, <3>2, <4>1, <4>2
    <3> QED  BY <3>1, <3>2 DEF SignalsHeld
  <2> QED  BY <1>p, <2>2, <2>3, <2>5
<1>4. CASE inbox' = inbox /\ handler' = [handler EXCEPT ![r] = "start"]
  <2>1. CallersOK' /\ RunsOK'
    BY <1>r, <1>1, <1>4, SMT DEF CallersOK, RunsOK
  <2>2. SignalsHeld => SignalsHeld'
    BY <1>r, <1>1, <1>4, SMT DEF SignalsHeld, SignalledTo, CallersOK, RunsOK
  <2> QED  BY <1>p, <2>1, <2>2
<1>6. \/ Deliver(r) /\ handler' = [handler EXCEPT ![r] = "store"]
      \/ inbox' = inbox /\ handler' = [handler EXCEPT ![r] = "start"]
  BY Zenon DEF SendSignal, Goes
<1> QED  BY <1>3, <1>4, <1>p, <1>6

\* The signal fails, delivered or not.
LEMMA SignalFailurePreserves ==
  ASSUME CallersOK, RunsOK, OwnPayload, RunsHavePayload, NEW r \in Requests,
         SignalFails(r)
  PROVE  /\ CallersOK' /\ RunsOK' /\ OwnPayload' /\ RunsHavePayload'
<1> USE NamesAssumption
<1>r. r \in Runs
  BY DEF Runs
<1> HIDE DEF Runs
<1>1. /\ handler[r] = "signal" /\ handler' = [handler EXCEPT ![r] = "start"]
      /\ UNCHANGED <<target, reply, row, startedAt, run, payload>>
  BY Zenon DEF SignalFails, Goes
<1>2. inbox' \in [Runs -> Seq(Requests)]
  <2>1. inbox \in [Runs -> Seq(Requests)] /\ target[r] \in Runs
    BY <1>r, <1>1, SMT DEF CallersOK, RunsOK
  <2>2. Deliver(r) \/ inbox' = inbox
    BY Zenon DEF SignalFails
  <2> QED  BY <2>1, <2>2, DeliveredSignals
<1>3. CallersOK'
  BY <1>r, <1>1, SMT DEF CallersOK
<1>4. RunsOK'
  BY <1>1, <1>2, SMT DEF RunsOK
<1>5. OwnPayload' /\ RunsHavePayload'
  BY <1>1, SMT DEF OwnPayload, RunsHavePayload
<1> QED  BY <1>3, <1>4, <1>5

\* The signalled execution's payload is stored, or a new one starts.
LEMMA StorePreserves ==
  ASSUME CallersOK, RunsOK, OwnPayload, RunsHavePayload, NEW r \in Requests,
         StorePayload(r)
  PROVE  /\ CallersOK' /\ RunsOK' /\ OwnPayload' /\ RunsHavePayload'
         /\ (SignalsHeld => SignalsHeld') \/ faulty'
<1> USE NamesAssumption
<1>r. r \in Runs
  BY DEF Runs
<1> HIDE DEF Runs
<1>1. /\ handler[r] = "store"
      /\ \E place \in {"await", "start"} : handler' = [handler EXCEPT ![r] = place]
      /\ UNCHANGED <<target, reply, row, startedAt, run, payload, inbox>>
  BY Zenon DEF StorePayload, Goes
<1>2. CallersOK' /\ RunsOK'
  BY <1>r, <1>1, SMT DEF CallersOK, RunsOK
<1>3. OwnPayload' /\ RunsHavePayload'
  BY <1>1, SMT DEF OwnPayload, RunsHavePayload
<1>4. CASE handler' = [handler EXCEPT ![r] = "await"]
  <2>1. SignalsHeld => SignalsHeld'
    BY <1>r, <1>1, <1>4, SMT DEF SignalsHeld, SignalledTo, CallersOK, RunsOK
  <2> QED  BY <1>2, <1>3, <2>1
<1>5. CASE faulty'
  BY <1>2, <1>3, <1>5
<1>6. handler' = [handler EXCEPT ![r] = "await"] \/ faulty'
  BY Zenon DEF StorePayload, Goes
<1> QED  BY <1>4, <1>5, <1>6

-----------------------------------------------------------------------------
(* Starts. *)
\* The editor or the API starts an execution.
LEMMA ManualStartPreserves ==
  ASSUME CallersOK, RunsOK, OwnPayload, RunsHavePayload, NEW m \in Manual,
         ManualStart(m)
  PROVE  /\ CallersOK' /\ RunsOK' /\ OwnPayload' /\ RunsHavePayload'
         /\ SignalsHeld => SignalsHeld'
<1> USE NamesAssumption
<1>r. m \in Runs
  BY DEF Runs
<1> HIDE DEF Runs
<1>1. /\ handler[m] = "idle" /\ handler' = [handler EXCEPT ![m] = "start"]
      /\ UNCHANGED <<target, reply, row, startedAt, run, payload, inbox>>
  BY Zenon DEF ManualStart, Goes
<1>2. m \notin Requests
  OBVIOUS
<1>3. CallersOK' /\ RunsOK'
  BY <1>r, <1>1, <1>2, SMT DEF CallersOK, RunsOK
<1>4. OwnPayload' /\ RunsHavePayload'
  BY <1>1, SMT DEF OwnPayload, RunsHavePayload
<1>5. SignalsHeld => SignalsHeld'
  BY <1>r, <1>1, <1>2, SMT DEF SignalsHeld, SignalledTo, CallersOK, RunsOK
<1> QED  BY <1>3, <1>4, <1>5

\* The answer of a request that is over has its type.
LEMMA EndsTypes ==
  ASSUME CallersOK, NEW x \in Runs, NEW kind \in {"error", "received", "response"},
         Ends(x, kind)
  PROVE  /\ handler' = [handler EXCEPT ![x] = "replied"]
         /\ reply' \in [Requests -> {"none", "error", "received", "response"}]
<1>1. handler' = [handler EXCEPT ![x] = "replied"]
  BY DEF Ends, Goes
<1>2. CASE x \in Requests
  <2>1. reply' = [reply EXCEPT ![x] = kind]
    BY <1>2 DEF Ends
  <2> QED  BY <1>1, <1>2, <2>1, SMT DEF CallersOK
<1>3. CASE x \notin Requests
  <2>1. reply' = reply
    BY <1>3 DEF Ends
  <2> QED  BY <1>1, <2>1, SMT DEF CallersOK
<1> QED  BY <1>2, <1>3

\* A start that fails or is refused ends without having opened a run.
LEMMA RefusalPreserves ==
  ASSUME CallersOK, RunsOK, OwnPayload, RunsHavePayload, NEW x \in Runs,
         handler[x] \in {"start", "update"}, Ends(x, "error"),
         row' \in [Runs -> {"none", "running", "ended"}],
         UNCHANGED <<target, startedAt, run, payload, inbox>>
  PROVE  /\ CallersOK' /\ RunsOK' /\ OwnPayload' /\ RunsHavePayload'
         /\ SignalsHeld => SignalsHeld'
<1>1. /\ handler' = [handler EXCEPT ![x] = "replied"]
      /\ reply' \in [Requests -> {"none", "error", "received", "response"}]
  BY EndsTypes
<1>2. \A r \in Requests : r \in Runs
  BY DEF Runs
<1> HIDE DEF Runs
<1>3. CallersOK'
  BY <1>1, <1>2, SMT DEF CallersOK
<1>4. RunsOK'
  BY SMT DEF RunsOK
<1>5. OwnPayload' /\ RunsHavePayload'
  BY SMT DEF OwnPayload, RunsHavePayload
<1>6. SignalsHeld => SignalsHeld'
  BY <1>1, <1>2, SMT DEF SignalsHeld, SignalledTo, CallersOK, RunsOK
<1> QED  BY <1>3, <1>4, <1>5, <1>6

\* A run is opened, with the request that starts it as its payload.
LEMMA OpenPreserves ==
  ASSUME CallersOK, RunsOK, OwnPayload, RunsHavePayload, NEW x \in Runs,
         handler[x] = "start", OpenRun(x), NEW place \in {"update", "replied"},
         handler' = [handler EXCEPT ![x] = place],
         reply' \in [Requests -> {"none", "error", "received", "response"}],
         row' \in [Runs -> {"none", "running", "ended"}],
         UNCHANGED <<target, startedAt, inbox>>
  PROVE  /\ CallersOK' /\ RunsOK' /\ OwnPayload' /\ RunsHavePayload'
         /\ SignalsHeld => SignalsHeld'
<1> USE NamesAssumption
<1>1. /\ run' = [run EXCEPT ![x] = "ready"]
      /\ payload' \in [Runs -> Requests \cup {None}]
      /\ \A y \in Runs : payload'[y] = IF y = x /\ x \in Requests THEN x ELSE payload[y]
  <2>1. CASE x \in Requests
    <3>1. payload' = [payload EXCEPT ![x] = x] /\ run' = [run EXCEPT ![x] = "ready"]
      BY <2>1 DEF OpenRun
    <3> QED  BY <2>1, <3>1, SMT DEF RunsOK
  <2>2. CASE x \notin Requests
    <3>1. payload' = payload /\ run' = [run EXCEPT ![x] = "ready"]
      BY <2>2 DEF OpenRun
    <3> QED  BY <2>2, <3>1, SMT DEF RunsOK
  <2> QED  BY <2>1, <2>2
<1>2. \A r \in Requests : r \in Runs /\ r # None
  BY DEF Runs
<1> HIDE DEF Runs
<1>3. CallersOK'
  BY <1>2, SMT DEF CallersOK
<1>4. RunsOK'
  BY <1>1, SMT DEF RunsOK
<1>5. OwnPayload' /\ RunsHavePayload'
  BY <1>1, <1>2, SMT DEF OwnPayload, RunsHavePayload, RunsOK
<1>6. SignalsHeld => SignalsHeld'
  <2>1. ASSUME NEW y \in Runs, NEW q \in Requests, SignalledTo(y, q)'
        PROVE  SignalledTo(y, q)
    BY <1>1, <2>1, SMT DEF SignalledTo
  <2>2. ASSUME SignalsHeld, NEW q \in Requests,
               handler'[q] \in {"idle", "find", "signal", "store", "start"}
        PROVE  run'[q] = "none"
    BY <1>1, <1>2, <2>2, SMT DEF SignalsHeld, CallersOK, RunsOK
  <2>3. ASSUME SignalsHeld, NEW y \in Runs, NEW q \in Requests, SignalledTo(y, q)'
        PROVE  /\ handler'[q] \in {"store", "await", "replied"}
               /\ target'[q] = y /\ run'[q] = "none"
    <3>1. /\ handler[q] \in {"store", "await", "replied"}
          /\ target[q] = y /\ run[q] = "none"
      BY <2>1, <2>3 DEF SignalsHeld
    <3> QED  BY <1>1, <1>2, <3>1, SMT DEF CallersOK, RunsOK
  <2> QED  BY <2>2, <2>3 DEF SignalsHeld
<1> QED  BY <1>3, <1>4, <1>5, <1>6

\* startExecution opens the run, is refused, or fails.
LEMMA StartPreserves ==
  ASSUME CallersOK, RunsOK, OwnPayload, RunsHavePayload, NEW x \in Runs,
         StartExecution(x) \/ StartFails(x)
  PROVE  /\ CallersOK' /\ RunsOK' /\ OwnPayload' /\ RunsHavePayload'
         /\ SignalsHeld => SignalsHeld'
<1>1. handler[x] = "start" /\ UNCHANGED <<target, startedAt, inbox>>
  BY Zenon DEF StartExecution, StartFails
<1>2. row' \in [Runs -> {"none", "running", "ended"}]
  <2>1. row' = row \/ row' = [row EXCEPT ![x] = "ended"]
    BY Zenon DEF StartExecution, StartFails
  <2>2. CASE row' = row
    BY <2>2 DEF RunsOK
  <2>3. CASE row' = [row EXCEPT ![x] = "ended"]
    BY <2>3, SMT DEF RunsOK
  <2> QED  BY <2>1, <2>2, <2>3
<1>3. CASE OpenRun(x) /\ Goes(x, "update") /\ UNCHANGED reply
  <2>1. reply' \in [Requests -> {"none", "error", "received", "response"}]
    BY <1>3 DEF CallersOK
  <2> QED  BY <1>1, <1>2, <1>3, <2>1, OpenPreserves DEF Goes
<1>4. CASE OpenRun(x) /\ Ends(x, "error")
  <2>1. /\ handler' = [handler EXCEPT ![x] = "replied"]
        /\ reply' \in [Requests -> {"none", "error", "received", "response"}]
    BY <1>4, EndsTypes
  <2> QED  BY <1>1, <1>2, <1>4, <2>1, OpenPreserves
<1>5. CASE UNCHANGED <<run, payload>> /\ Ends(x, "error")
  BY <1>1, <1>2, <1>5, RefusalPreserves
<1>6. \/ OpenRun(x) /\ Goes(x, "update") /\ UNCHANGED reply
      \/ OpenRun(x) /\ Ends(x, "error")
      \/ UNCHANGED <<run, payload>> /\ Ends(x, "error")
  BY Zenon DEF StartExecution, StartFails
<1> QED  BY <1>3, <1>4, <1>5, <1>6

\* The second UPDATE of startExecution, or its failure.
LEMMA RecordPreserves ==
  ASSUME CallersOK, RunsOK, OwnPayload, RunsHavePayload, FiniteAssumption, NEW x \in Runs,
         RecordStarted(x) \/ RecordStartedFails(x)
  PROVE  /\ CallersOK' /\ RunsOK' /\ OwnPayload' /\ RunsHavePayload'
         /\ SignalsHeld => SignalsHeld'
<1> USE NamesAssumption
<1>1. CASE RecordStartedFails(x)
  <2>1. /\ handler[x] = "update" /\ Ends(x, "error")
        /\ UNCHANGED <<target, startedAt, run, payload, inbox>>
    BY <1>1, Zenon DEF RecordStartedFails
  <2>2. row' \in [Runs -> {"none", "running", "ended"}]
    <3>1. row' = [row EXCEPT ![x] = "ended"]
      BY <1>1, Zenon DEF RecordStartedFails
    <3> QED  BY <3>1, SMT DEF RunsOK
  <2> QED  BY <2>1, <2>2, RefusalPreserves
<1>2. CASE RecordStarted(x)
  <2>1. /\ handler[x] = "update" /\ row' = [row EXCEPT ![x] = "running"]
        /\ UNCHANGED <<reply, run, payload, inbox>>
        /\ \/ /\ x \in Requests /\ target' = [target EXCEPT ![x] = x]
              /\ handler' = [handler EXCEPT ![x] = "await"]
           \/ /\ x \in Manual /\ target' = target
              /\ handler' = [handler EXCEPT ![x] = "replied"]
    BY <1>2, Zenon DEF RecordStarted, Goes
  <2>2. startedAt' \in [Runs -> Nat]
    <3> DEFINE order == Cardinality({y \in Runs : startedAt[y] > 0}) + 1
    <3>1. order \in Nat /\ startedAt' = [startedAt EXCEPT ![x] = order]
      BY <1>2, OrderNumbers, Zenon DEF RecordStarted
    <3> HIDE DEF order
    <3> QED  BY <3>1, SMT DEF RunsOK
  <2>3. \A r \in Requests : r \in Runs /\ r \notin Manual
    BY DEF Runs
  <2> HIDE DEF Runs
  <2>4. RunsOK'
    <3>1. row' = [row EXCEPT ![x] = "running"] /\ UNCHANGED <<run, payload, inbox>>
      BY <2>1
    <3> QED  BY <2>2, <3>1, SMT DEF RunsOK
  <2>5. OwnPayload' /\ RunsHavePayload'
    BY <2>1, SMT DEF OwnPayload, RunsHavePayload
  <2>6. CASE /\ x \in Requests /\ target' = [target EXCEPT ![x] = x]
             /\ handler' = [handler EXCEPT ![x] = "await"]
    <3>1. CallersOK'
      BY <2>1, <2>3, <2>6, SMT DEF CallersOK
    <3>2. SignalsHeld => SignalsHeld'
      BY <2>1, <2>3, <2>6, SMT DEF SignalsHeld, SignalledTo, CallersOK, RunsOK
    <3> QED  BY <2>4, <2>5, <3>1, <3>2
  <2>7. CASE /\ x \in Manual /\ target' = target
             /\ handler' = [handler EXCEPT ![x] = "replied"]
    <3>1. CallersOK'
      BY <2>1, <2>3, <2>7, SMT DEF CallersOK
    <3>2. SignalsHeld => SignalsHeld'
      BY <2>1, <2>3, <2>7, SMT DEF SignalsHeld, SignalledTo, CallersOK, RunsOK
    <3> QED  BY <2>4, <2>5, <3>1, <3>2
  <2> QED  BY <2>1, <2>6, <2>7
<1> QED  BY <1>1, <1>2

-----------------------------------------------------------------------------
(* Runs. *)
\* A step of a run that moves it and changes neither payload nor inbox; a run
\* may move to the webhook node's wait only without a payload.
LEMMA MovePreserves ==
  ASSUME CallersOK, RunsOK, OwnPayload, RunsHavePayload, NEW x \in Runs,
         run[x] # "none",
         NEW place \in {"waiting", "busy", "reported", "gaveUp",
                        "answered", "completed", "failed"},
         place = "waiting" => payload[x] = None,
         run' = [run EXCEPT ![x] = place],
         row' \in [Runs -> {"none", "running", "ended"}],
         UNCHANGED <<handler, target, reply, startedAt, payload, inbox>>
  PROVE  /\ CallersOK' /\ RunsOK' /\ OwnPayload' /\ RunsHavePayload'
         /\ SignalsHeld => SignalsHeld'
<1> USE NamesAssumption
<1>1. \A r \in Requests : r \in Runs /\ r # None
  BY DEF Runs
<1> HIDE DEF Runs
<1>2. CallersOK'
  BY SMT DEF CallersOK
<1>3. RunsOK'
  <2>1. run' \in [Runs -> {"none", "ready", "waiting", "busy", "reported", "gaveUp",
                          "answered", "completed", "failed"}]
    BY SMT DEF RunsOK
  <2> QED  BY <2>1, SMT DEF RunsOK
<1>4. OwnPayload' /\ RunsHavePayload'
  BY <1>1, SMT DEF OwnPayload, RunsHavePayload, RunsOK
<1>5. SignalsHeld => SignalsHeld'
  BY <1>1, SMT DEF SignalsHeld, SignalledTo, CallersOK, RunsOK
<1> QED  BY <1>2, <1>3, <1>4, <1>5

\* A waiting run takes the last of its signals.
LEMMA ReceivePreserves ==
  ASSUME CallersOK, RunsOK, OwnPayload, RunsHavePayload, NEW x \in Runs,
         ReceiveSignal(x)
  PROVE  /\ CallersOK' /\ RunsOK' /\ OwnPayload' /\ RunsHavePayload'
         /\ SignalsHeld => SignalsHeld'
<1> USE NamesAssumption
<1>1. /\ run[x] = "waiting" /\ inbox[x] # <<>>
      /\ run' = [run EXCEPT ![x] = "busy"]
      /\ payload' = [payload EXCEPT ![x] = inbox[x][Len(inbox[x])]]
      /\ inbox' = [inbox EXCEPT ![x] = <<>>]
      /\ UNCHANGED <<handler, target, reply, row, startedAt>>
  BY Zenon DEF ReceiveSignal, At, caller
<1>2. PICK last \in Requests : /\ Len(inbox[x]) \in 1..Len(inbox[x])
                               /\ last = inbox[x][Len(inbox[x])]
  <2>1. inbox[x] \in Seq(Requests)
    BY DEF RunsOK
  <2> QED  BY <1>1, <2>1, SMT
<1>3. payload' = [payload EXCEPT ![x] = last]
  BY <1>1, <1>2
<1>4. \A r \in Requests : r \in Runs
  BY DEF Runs
<1> HIDE DEF Runs
<1>5. CallersOK'
  BY <1>1, SMT DEF CallersOK
<1>6. RunsOK'
  <2>1. inbox' \in [Runs -> Seq(Requests)]
    <3>1. <<>> \in Seq(Requests)
      OBVIOUS
    <3> QED  BY <1>1, <3>1, SMT DEF RunsOK
  <2> QED  BY <1>1, <1>3, <2>1, SMT DEF RunsOK
<1>7. OwnPayload' /\ RunsHavePayload'
  BY <1>1, <1>3, <1>4, SMT DEF OwnPayload, RunsHavePayload, RunsOK
<1>8. ASSUME NEW y \in Runs, NEW q \in Requests, SignalledTo(y, q)'
      PROVE  SignalledTo(y, q)
  <2>1. CASE y = x
    <3>1. inbox'[y] = <<>> /\ payload'[y] = last
      BY <1>1, <1>3, <2>1, SMT DEF RunsOK
    <3>2. q = last /\ y # q
      BY <1>8, <3>1, SMT DEF SignalledTo
    <3> QED  BY <1>2, <2>1, <3>2 DEF SignalledTo
  <2>2. CASE y # x
    <3>1. inbox'[y] = inbox[y] /\ payload'[y] = payload[y]
      BY <1>1, <1>3, <2>2, SMT DEF RunsOK
    <3> QED  BY <1>8, <3>1 DEF SignalledTo
  <2> QED  BY <2>1, <2>2
<1>9. SignalsHeld => SignalsHeld'
  <2>1. \A q \in Requests : run'[q] = run[q]
    BY <1>1, <1>4, SMT DEF RunsHavePayload, RunsOK
  <2> QED  BY <1>1, <1>8, <2>1 DEF SignalsHeld
<1> QED  BY <1>5, <1>6, <1>7, <1>9

\* The steps of a run.
LEMMA WorkerPreserves ==
  ASSUME CallersOK, RunsOK, OwnPayload, RunsHavePayload, NEW x \in Runs, Worker(x)
  PROVE  /\ CallersOK' /\ RunsOK' /\ OwnPayload' /\ RunsHavePayload'
         /\ SignalsHeld => SignalsHeld'
<1> USE DEF At, caller
<1>1. CASE ReachWebhook(x)
  <2>1. /\ run[x] = "ready"
        /\ UNCHANGED <<handler, target, reply, row, startedAt, payload, inbox>>
    BY <1>1, Zenon DEF ReachWebhook
  <2>2. row' \in [Runs -> {"none", "running", "ended"}]
    BY <2>1 DEF RunsOK
  <2>3. run[x] # "none"
    BY <2>1
  <2>4. CASE payload[x] = None /\ run' = [run EXCEPT ![x] = "waiting"]
    BY <2>1, <2>2, <2>3, <2>4, MovePreserves
  <2>5. CASE run' = [run EXCEPT ![x] = "busy"]
    BY <2>1, <2>2, <2>3, <2>5, MovePreserves
  <2> QED  BY <1>1, <2>4, <2>5, Zenon DEF ReachWebhook
<1>2. CASE ReceiveSignal(x)
  BY <1>2, ReceivePreserves
<1>3. CASE WebhookTimesOut(x) \/ Report(x)
  <2>1. /\ run[x] # "none" /\ row' = [row EXCEPT ![x] = "ended"]
        /\ UNCHANGED <<handler, target, reply, startedAt, payload, inbox>>
    BY <1>3, Zenon DEF WebhookTimesOut, Report
  <2>2. PICK place \in {"gaveUp", "reported"} : run' = [run EXCEPT ![x] = place]
    BY <1>3, Zenon DEF WebhookTimesOut, Report
  <2>3. row' \in [Runs -> {"none", "running", "ended"}]
    BY <2>1, SMT DEF RunsOK
  <2>4. /\ place \in {"waiting", "busy", "reported", "gaveUp",
                      "answered", "completed", "failed"}
        /\ place # "waiting"
    OBVIOUS
  <2> QED  BY <2>1, <2>2, <2>3, <2>4, MovePreserves
<1>4. CASE CloseRun(x)
  <2>1. /\ run[x] # "none"
        /\ UNCHANGED <<handler, target, reply, row, startedAt, payload, inbox>>
    BY <1>4, Zenon DEF CloseRun
  <2>2. PICK place \in {"answered", "completed", "failed"} : run' = [run EXCEPT ![x] = place]
    BY <1>4, Zenon DEF CloseRun
  <2>3. row' \in [Runs -> {"none", "running", "ended"}]
    BY <2>1 DEF RunsOK
  <2>4. /\ place \in {"waiting", "busy", "reported", "gaveUp",
                      "answered", "completed", "failed"}
        /\ place # "waiting"
    OBVIOUS
  <2> QED  BY <2>1, <2>2, <2>3, <2>4, MovePreserves
<1> QED  BY <1>1, <1>2, <1>3, <1>4 DEF Worker

-----------------------------------------------------------------------------
\* No step takes back that a call failed.
LEMMA FaultsStay == Next /\ faulty => faulty'
<1> SUFFICES ASSUME Next, faulty PROVE faulty'
  OBVIOUS
<1> USE DEF workflow, caller
<1>1. CASE Deactivate
  BY <1>1, Zenon DEF Deactivate
<1>2. CASE \E r \in Requests : \/ Lookup(r) \/ FindWaiting(r) \/ SendSignal(r)
                             \/ SignalFails(r) \/ StorePayload(r)
                             \/ Result(r) \/ WaitTimesOut(r)
  BY <1>2, Zenon DEF Lookup, FindWaiting, SendSignal, SignalFails, StorePayload,
                     Result, WaitTimesOut
<1>3. CASE \E m \in Manual : ManualStart(m)
  BY <1>3, Zenon DEF ManualStart
<1>4. CASE \E x \in Runs : \/ StartExecution(x) \/ StartFails(x)
                         \/ RecordStarted(x) \/ RecordStartedFails(x)
                         \/ ReachWebhook(x) \/ ReceiveSignal(x)
                         \/ WebhookTimesOut(x) \/ Report(x) \/ CloseRun(x)
  BY <1>4, Zenon DEF StartExecution, StartFails, RecordStarted, RecordStartedFails,
                     ReachWebhook, ReceiveSignal, WebhookTimesOut, Report, CloseRun
<1> QED  BY <1>1, <1>2, <1>3, <1>4, NextCases, Zenon

LEMMA StepPreserves == InboundInvariant /\ Next => InboundInvariant'
<1> SUFFICES ASSUME InboundInvariant, Next PROVE InboundInvariant'
  OBVIOUS
<1>1. TypeOK /\ CallersOK /\ RunsOK /\ OwnPayload /\ RunsHavePayload
  BY DEF InboundInvariant, TypeOK
<1>2. FlagsOK'
  BY <1>1, FlagTypes
<1>3. /\ CallersOK' /\ RunsOK' /\ OwnPayload' /\ RunsHavePayload'
      /\ (SignalsHeld => SignalsHeld') \/ faulty'
  <2>1. CASE Deactivate
    <3>1. UNCHANGED <<handler, target, reply, row, startedAt, run, payload, inbox>>
      BY <2>1 DEF Deactivate, caller
    <3> QED  BY <1>1, <3>1 DEF CallersOK, RunsOK, OwnPayload, RunsHavePayload, SignalsHeld,
                               SignalledTo
  <2>2. ASSUME NEW r \in Requests,
               \/ Lookup(r) \/ FindWaiting(r) \/ SendSignal(r)
               \/ SignalFails(r) \/ StorePayload(r) \/ Result(r) \/ WaitTimesOut(r)
        PROVE  /\ CallersOK' /\ RunsOK' /\ OwnPayload' /\ RunsHavePayload'
               /\ (SignalsHeld => SignalsHeld') \/ faulty'
    <3>1. CASE Lookup(r)
      BY <1>1, <3>1, LookupPreserves
    <3>2. CASE FindWaiting(r)
      BY <1>1, <3>2, FindPreserves
    <3>3. CASE SendSignal(r)
      BY <1>1, <3>3, SignalPreserves
    <3>4. CASE SignalFails(r)
      <4>1. faulty'
        BY <3>4, Zenon DEF SignalFails
      <4> QED  BY <1>1, <3>4, <4>1, SignalFailurePreserves
    <3>5. CASE StorePayload(r)
      BY <1>1, <3>5, StorePreserves
    <3>6. CASE Result(r) \/ WaitTimesOut(r)
      BY <1>1, <3>6, AnswerPreserves
    <3> QED  BY <2>2, <3>1, <3>2, <3>3, <3>4, <3>5, <3>6
  <2>3. ASSUME NEW m \in Manual, ManualStart(m)
        PROVE  /\ CallersOK' /\ RunsOK' /\ OwnPayload' /\ RunsHavePayload'
               /\ SignalsHeld => SignalsHeld'
    BY <1>1, <2>3, ManualStartPreserves
  <2>4. ASSUME NEW x \in Runs,
               \/ StartExecution(x) \/ StartFails(x)
               \/ RecordStarted(x) \/ RecordStartedFails(x) \/ Worker(x)
        PROVE  /\ CallersOK' /\ RunsOK' /\ OwnPayload' /\ RunsHavePayload'
               /\ SignalsHeld => SignalsHeld'
    BY <1>1, <2>4, FiniteAssumption, StartPreserves, RecordPreserves, WorkerPreserves
  <2>5. \/ Deactivate
        \/ \E r \in Requests : \/ Lookup(r) \/ FindWaiting(r) \/ SendSignal(r)
                               \/ SignalFails(r) \/ StorePayload(r)
                               \/ Result(r) \/ WaitTimesOut(r)
        \/ \E m \in Manual : ManualStart(m)
        \/ \E x \in Runs : \/ StartExecution(x) \/ StartFails(x)
                           \/ RecordStarted(x) \/ RecordStartedFails(x) \/ Worker(x)
    BY NextCases, Zenon DEF Worker
  <2> QED  BY <2>1, <2>2, <2>3, <2>4, <2>5
<1>4. SignalledStaysSignalled'
  BY <1>3, FaultsStay, Zenon DEF InboundInvariant, SignalledStaysSignalled
<1> QED  BY <1>2, <1>3, <1>4 DEF InboundInvariant, TypeOK

-----------------------------------------------------------------------------
\* Every step of handlers, runs and deactivation keeps the inductive
\* invariant: a signalled request never starts an execution of its own.
THEOREM InboundInvariantHolds == Spec => []InboundInvariant
<1>1. InboundInvariant /\ UNCHANGED vars => InboundInvariant'
  BY DEF InboundInvariant, TypeOK, FlagsOK, CallersOK, RunsOK, OwnPayload, RunsHavePayload,
         SignalledStaysSignalled, SignalsHeld, SignalledTo, vars, workflow, caller
<1> QED  BY <1>1, InitEstablishes, StepPreserves, PTL DEF Spec

\* The variables keep their types.
THEOREM InboundTypes == Spec => []TypeOK
<1>1. InboundInvariant => TypeOK
  BY DEF InboundInvariant
<1> QED  BY <1>1, InboundInvariantHolds, PTL

\* A run that a request started works on that request to its end.
THEOREM RunsKeepTheirRequest == Spec => []OwnPayload
<1>1. InboundInvariant => OwnPayload
  BY DEF InboundInvariant
<1> QED  BY <1>1, InboundInvariantHolds, PTL

\* Without faults no request is executed by two runs, however many requests
\* and runs there are.
THEOREM RequestsHandledOnce == Spec => []HandledOnce
<1>1. InboundInvariant => HandledOnce
  <2> SUFFICES ASSUME InboundInvariant, ~ faulty, NEW r \in Requests
               PROVE  Cardinality(Handling(r)) <= 1
    BY DEF HandledOnce
  <2>1. \A x, y \in Handling(r) : x = y
    <3> SUFFICES ASSUME NEW x \in Handling(r), NEW y \in Handling(r), x # y PROVE FALSE
      OBVIOUS
    <3>1. x \in Runs /\ y \in Runs /\ payload[x] = r /\ payload[y] = r /\ r # None
      BY NamesAssumption DEF Handling
    <3>2. SignalsHeld /\ RunsHavePayload
      BY DEF InboundInvariant, SignalledStaysSignalled
    <3>3. \A z \in Runs : z # r /\ payload[z] = r => target[r] = z /\ run[r] = "none"
      BY <3>2 DEF SignalsHeld, SignalledTo
    <3>4. x # r => y = r
      BY <3>1, <3>3
    <3> QED  BY <3>1, <3>2, <3>3, <3>4 DEF RunsHavePayload
  <2>2. CASE Handling(r) = {}
    BY <2>2, FS_EmptySet, SMT
  <2>3. CASE Handling(r) # {}
    <3>1. PICK x : Handling(r) = {x}
      BY <2>1, <2>3, Zenon
    <3>2. Cardinality(Handling(r)) = 1
      BY <3>1, FS_Singleton, Zenon
    <3> QED  BY <3>2, SMT
  <2> QED  BY <2>2, <2>3
<1> QED  BY <1>1, InboundInvariantHolds, PTL

-----------------------------------------------------------------------------
(* The inductive invariant behind LostOnlyToAnother. *)
\* A run without a payload waits for one, or has given up.
PayloadlessRuns ==
  \A x \in Runs : payload[x] = None => run[x] \in {"none", "ready", "waiting", "gaveUp", "failed"}

\* Only a handler that is done has answered, and one that has started a run
\* knows it open.
HandlersInOrder ==
  /\ \A r \in Requests : reply[r] \in {"received", "response"} => handler[r] = "replied"
  /\ \A x \in Runs : handler[x] = "update" => run[x] # "none"

\* x got r, or another request took its place; or it is still in x's inbox.
DeliveredTo(x, r) ==
  /\ run[x] # "none"
  /\ payload[x] # None \/ \E i \in 1..Len(inbox[x]) : inbox[x][i] = r

Delivered(r) == target[r] \in Runs /\ DeliveredTo(target[r], r)

Accepted(r) == handler[r] \in {"store", "await"} \/ reply[r] \in {"received", "response"}

AcceptedIsDelivered == \A r \in Requests : Accepted(r) => Delivered(r)

\* Without faults a request is not accepted before a run has it.
DeliveryInvariant ==
  /\ PayloadlessRuns /\ HandlersInOrder
  /\ ~ faulty => AcceptedIsDelivered

LEMMA DeliveryInit == Init => DeliveryInvariant
<1> SUFFICES ASSUME Init PROVE DeliveryInvariant
  OBVIOUS
<1>1. /\ \A x \in Runs : handler[x] = "idle" /\ run[x] = "none"
      /\ \A r \in Requests : r \in Runs /\ reply[r] = "none"
  BY SMT DEF Init, Runs
<1> QED  BY <1>1 DEF DeliveryInvariant, PayloadlessRuns, HandlersInOrder, AcceptedIsDelivered,
                      Accepted

\* No step takes back what was delivered: a run keeps its signals until it
\* takes one, and its payload to its end.
LEMMA DeliveredStays ==
  ASSUME TypeOK, Next, NEW t \in Runs, NEW q \in Requests, DeliveredTo(t, q)
  PROVE  DeliveredTo(t, q)'
<1> USE NamesAssumption
<1>1. RunsOK
  BY DEF TypeOK
<1>2. \A r \in Requests : r \in Runs /\ r # None
  BY DEF Runs
<1>3. CASE UNCHANGED <<run, payload, inbox>>
  BY <1>3 DEF DeliveredTo
<1>4. ASSUME NEW r \in Requests, target[r] \in Runs, Deliver(r), UNCHANGED <<run, payload>>
      PROVE  DeliveredTo(t, q)'
  <2>1. inbox' = [inbox EXCEPT ![target[r]] = Append(inbox[target[r]], r)]
    BY <1>4 DEF Deliver
  <2>2. inbox[target[r]] \in Seq(Requests) /\ inbox \in [Runs -> Seq(Requests)]
    BY <1>1, <1>4 DEF RunsOK
  <2>3. \A i \in 1..Len(inbox[t]) : i \in 1..Len(inbox'[t]) /\ inbox'[t][i] = inbox[t][i]
    <3>1. CASE t = target[r]
      BY <2>1, <2>2, <3>1
    <3>2. CASE t # target[r]
      BY <2>1, <2>2, <3>2
    <3> QED  BY <3>1, <3>2
  <2> QED  BY <1>4, <2>3 DEF DeliveredTo
<1>5. ASSUME NEW x \in Runs, OpenRun(x), UNCHANGED inbox
      PROVE  DeliveredTo(t, q)'
  <2>1. run'[t] # "none" /\ (payload[t] # None => payload'[t] # None)
    BY <1>1, <1>2, <1>5, SMT DEF OpenRun, DeliveredTo, RunsOK
  <2> QED  BY <1>5, <2>1 DEF DeliveredTo
<1>6. ASSUME NEW x \in Runs, NEW place \in {"waiting", "busy", "gaveUp", "reported",
                                            "answered", "completed", "failed"},
             At(x, place), UNCHANGED <<payload, inbox>>
      PROVE  DeliveredTo(t, q)'
  <2>1. run'[t] # "none"
    BY <1>1, <1>6 DEF At, DeliveredTo, RunsOK
  <2> QED  BY <1>6, <2>1 DEF DeliveredTo
<1>7. ASSUME NEW x \in Runs, ReceiveSignal(x)
      PROVE  DeliveredTo(t, q)'
  <2>1. /\ inbox[x] # <<>> /\ run' = [run EXCEPT ![x] = "busy"]
        /\ payload' = [payload EXCEPT ![x] = inbox[x][Len(inbox[x])]]
        /\ inbox' = [inbox EXCEPT ![x] = <<>>]
    BY <1>7 DEF ReceiveSignal, At
  <2>2. inbox[x][Len(inbox[x])] \in Requests
    <3>1. inbox[x] \in Seq(Requests)
      BY <1>1 DEF RunsOK
    <3> QED  BY <2>1, <3>1
  <2>3. CASE x = t
    <3>1. run'[t] = "busy" /\ payload'[t] \in Requests
      BY <1>1, <2>1, <2>2, <2>3 DEF RunsOK
    <3> QED  BY <1>2, <3>1 DEF DeliveredTo
  <2>4. CASE x # t
    <3>1. run'[t] = run[t] /\ payload'[t] = payload[t] /\ inbox'[t] = inbox[t]
      BY <1>1, <2>1, <2>4 DEF RunsOK
    <3> QED  BY <3>1 DEF DeliveredTo
  <2> QED  BY <2>3, <2>4
<1>8. CASE Deactivate
  BY <1>3, <1>8, Zenon DEF Deactivate
<1>9. CASE \E m \in Manual : ManualStart(m)
  BY <1>3, <1>9, Zenon DEF ManualStart
<1>10. ASSUME NEW r \in Requests,
              \/ Lookup(r) \/ FindWaiting(r) \/ SendSignal(r) \/ SignalFails(r)
              \/ StorePayload(r) \/ Result(r) \/ WaitTimesOut(r)
       PROVE  DeliveredTo(t, q)'
  <2>1. CASE Lookup(r) \/ FindWaiting(r) \/ StorePayload(r) \/ Result(r) \/ WaitTimesOut(r)
    BY <1>3, <2>1, Zenon DEF Lookup, FindWaiting, StorePayload, Result, WaitTimesOut
  <2>2. CASE SendSignal(r) \/ SignalFails(r)
    <3>1. handler[r] = "signal" /\ UNCHANGED <<run, payload>>
      BY <2>2, Zenon DEF SendSignal, SignalFails
    <3>2. target[r] \in Runs
      BY <3>1 DEF TypeOK, CallersOK
    <3>3. Deliver(r) \/ UNCHANGED inbox
      BY <2>2, Zenon DEF SendSignal, SignalFails
    <3> QED  BY <1>3, <1>4, <3>1, <3>2, <3>3
  <2> QED  BY <1>10, <2>1, <2>2
<1>11. ASSUME NEW x \in Runs,
              \/ StartExecution(x) \/ StartFails(x) \/ RecordStarted(x)
              \/ RecordStartedFails(x) \/ ReachWebhook(x) \/ ReceiveSignal(x)
              \/ WebhookTimesOut(x) \/ Report(x) \/ CloseRun(x)
       PROVE  DeliveredTo(t, q)'
  <2>1. CASE RecordStarted(x) \/ RecordStartedFails(x)
    BY <1>3, <2>1, Zenon DEF RecordStarted, RecordStartedFails
  <2>2. CASE StartExecution(x) \/ StartFails(x)
    <3>1. UNCHANGED inbox /\ (OpenRun(x) \/ UNCHANGED <<run, payload>>)
      BY <2>2, Zenon DEF StartExecution, StartFails
    <3> QED  BY <1>3, <1>5, <3>1
  <2>3. CASE ReachWebhook(x) \/ WebhookTimesOut(x) \/ Report(x) \/ CloseRun(x)
    <3>1. UNCHANGED <<payload, inbox>>
      BY <2>3, Zenon DEF ReachWebhook, WebhookTimesOut, Report, CloseRun
    <3>2. \E place \in {"waiting", "busy", "gaveUp", "reported", "answered", "completed",
                        "failed"} : At(x, place)
      <4>1. CASE ReachWebhook(x)
        BY <4>1 DEF ReachWebhook
      <4>2. CASE WebhookTimesOut(x) \/ Report(x) \/ CloseRun(x)
        BY <4>2, Zenon DEF WebhookTimesOut, Report, CloseRun
      <4> QED  BY <2>3, <4>1, <4>2
    <3> QED  BY <1>6, <3>1, <3>2
  <2> QED  BY <1>7, <1>11, <2>1, <2>2, <2>3
<1> QED  BY <1>8, <1>9, <1>10, <1>11, NextCases

\* A run that is open or over was opened once and for all, and takes its payload
\* no later than it leaves the webhook node.
LEMMA RunSteps ==
  ASSUME TypeOK, Next
  PROVE  /\ \A y \in Runs : run[y] # "none" => run'[y] # "none"
         /\ PayloadlessRuns => PayloadlessRuns'
<1> USE NamesAssumption
<1>1. RunsOK
  BY DEF TypeOK
<1>2. \A r \in Requests : r \in Runs /\ r # None
  BY DEF Runs
<1>3. CASE UNCHANGED <<run, payload>>
  BY <1>3 DEF PayloadlessRuns
<1>4. ASSUME NEW x \in Runs, OpenRun(x)
      PROVE  /\ \A y \in Runs : run[y] # "none" => run'[y] # "none"
             /\ PayloadlessRuns => PayloadlessRuns'
  BY <1>1, <1>2, <1>4, SMT DEF OpenRun, RunsOK, PayloadlessRuns
<1>5. ASSUME NEW x \in Runs,
             NEW place \in {"waiting", "busy", "gaveUp", "reported", "answered", "completed",
                            "failed"},
             At(x, place), UNCHANGED payload,
             payload[x] # None \/ place \in {"waiting", "gaveUp", "failed"}
      PROVE  /\ \A y \in Runs : run[y] # "none" => run'[y] # "none"
             /\ PayloadlessRuns => PayloadlessRuns'
  BY <1>1, <1>5, SMT DEF At, RunsOK, PayloadlessRuns
<1>6. ASSUME NEW x \in Runs, ReceiveSignal(x)
      PROVE  /\ \A y \in Runs : run[y] # "none" => run'[y] # "none"
             /\ PayloadlessRuns => PayloadlessRuns'
  <2>1. /\ inbox[x] # <<>> /\ run' = [run EXCEPT ![x] = "busy"]
        /\ payload' = [payload EXCEPT ![x] = inbox[x][Len(inbox[x])]]
    BY <1>6 DEF ReceiveSignal, At
  <2>2. inbox[x][Len(inbox[x])] \in Requests
    <3>1. inbox[x] \in Seq(Requests)
      BY <1>1 DEF RunsOK
    <3> QED  BY <2>1, <3>1
  <2>3. payload'[x] # None /\ run'[x] = "busy"
    BY <1>1, <1>2, <2>1, <2>2 DEF RunsOK
  <2>4. \A y \in Runs \ {x} : payload'[y] = payload[y] /\ run'[y] = run[y]
    BY <1>1, <2>1 DEF RunsOK
  <2> QED  BY <2>3, <2>4 DEF PayloadlessRuns
<1>7. CASE Deactivate \/ \E m \in Manual : ManualStart(m)
  BY <1>3, <1>7, Zenon DEF Deactivate, ManualStart
<1>8. CASE \E r \in Requests : \/ Lookup(r) \/ FindWaiting(r) \/ SendSignal(r)
                               \/ SignalFails(r) \/ StorePayload(r)
                               \/ Result(r) \/ WaitTimesOut(r)
  BY <1>3, <1>8, Zenon DEF Lookup, FindWaiting, SendSignal, SignalFails, StorePayload,
                           Result, WaitTimesOut
<1>9. ASSUME NEW x \in Runs,
             \/ StartExecution(x) \/ StartFails(x) \/ RecordStarted(x)
             \/ RecordStartedFails(x) \/ ReachWebhook(x) \/ ReceiveSignal(x)
             \/ WebhookTimesOut(x) \/ Report(x) \/ CloseRun(x)
      PROVE  /\ \A y \in Runs : run[y] # "none" => run'[y] # "none"
             /\ PayloadlessRuns => PayloadlessRuns'
  <2>1. CASE RecordStarted(x) \/ RecordStartedFails(x)
    BY <1>3, <2>1, Zenon DEF RecordStarted, RecordStartedFails
  <2>2. CASE StartExecution(x) \/ StartFails(x)
    <3>1. OpenRun(x) \/ UNCHANGED <<run, payload>>
      BY <2>2, Zenon DEF StartExecution, StartFails
    <3> QED  BY <1>3, <1>4, <3>1
  <2>3. CASE ReachWebhook(x)
    <3>1. PICK place \in {"waiting", "busy"} :
            At(x, place) /\ (place = "busy" => payload[x] # None)
      BY <2>3 DEF ReachWebhook
    <3>2. UNCHANGED payload
      BY <2>3 DEF ReachWebhook
    <3> QED  BY <1>5, <3>1, <3>2
  <2>4. CASE WebhookTimesOut(x)
    BY <1>5, <2>4 DEF WebhookTimesOut
  <2>5. ASSUME Report(x) \/ CloseRun(x), PayloadlessRuns
        PROVE  PayloadlessRuns'
    <3>1. run[x] \in {"busy", "reported"} => payload[x] # None
      BY <2>5 DEF PayloadlessRuns
    <3>2. UNCHANGED payload
      BY <2>5 DEF Report, CloseRun
    <3>3. \/ payload[x] # None /\ \E place \in {"reported", "answered", "completed", "failed"} :
                                    At(x, place)
          \/ At(x, "failed")
      BY <2>5, <3>1 DEF Report, CloseRun
    <3> QED  BY <1>5, <2>5, <3>2, <3>3
  <2>6. CASE Report(x) \/ CloseRun(x)
    <3>1. \E place \in {"reported", "answered", "completed", "failed"} : At(x, place)
      BY <2>6, Zenon DEF Report, CloseRun
    <3>2. \A y \in Runs : run[y] # "none" => run'[y] # "none"
      BY <1>1, <3>1 DEF At, RunsOK
    <3> QED  BY <2>5, <2>6, <3>2
  <2> QED  BY <1>6, <1>9, <2>1, <2>2, <2>3, <2>4, <2>6
<1> QED  BY <1>7, <1>8, <1>9, NextCases

\* A handler moves by itself, and comes to a place only from those before it.
Advances(x, place) ==
  /\ x \in Runs /\ handler[x] # "replied" /\ handler' = [handler EXCEPT ![x] = place]
  /\ \A q \in Requests \ {x} : target'[q] = target[q] /\ reply'[q] = reply[q]
  /\ \/ place \in {"find", "signal", "start"} /\ reply' = reply
     \/ place = "update" /\ OpenRun(x) /\ reply' = reply
     \/ /\ place = "store" /\ Open(target[x]) /\ Deliver(x)
        /\ UNCHANGED <<run, payload, target, reply>>
        /\ x \in Requests /\ handler[x] = "signal"
     \/ place = "await" /\ handler[x] = "store" /\ UNCHANGED <<target, reply>>
     \/ /\ place = "await" /\ handler[x] = "update" /\ target'[x] = x
        /\ UNCHANGED <<run, payload, reply>>
     \/ /\ place = "replied" /\ target' = target
        /\ x \in Requests => reply'[x] = "error" \/ handler[x] = "await"

LEMMA CallerSteps ==
  ASSUME TypeOK, Next
  PROVE  \/ UNCHANGED <<handler, target, reply>>
         \/ \E x \in Runs, place \in {"find", "signal", "store", "start", "update", "await",
                                      "replied"} : Advances(x, place)
<1> USE NamesAssumption
<1>1. CallersOK
  BY DEF TypeOK
<1>2. \A r \in Requests : r \in Runs /\ r \notin Manual
  BY DEF Runs
<1>3. ASSUME NEW x \in Runs, NEW kind, Ends(x, kind), handler[x] # "replied",
             UNCHANGED target, kind = "error" \/ handler[x] = "await"
      PROVE  Advances(x, "replied")
  BY <1>1, <1>3, SMT DEF Ends, Goes, Advances, CallersOK
<1>4. CASE Deactivate
  BY <1>4 DEF Deactivate, caller
<1>5. ASSUME NEW m \in Manual, ManualStart(m)
      PROVE  Advances(m, "start")
  BY <1>5 DEF ManualStart, Goes, Advances, Runs
<1>6. ASSUME NEW r \in Requests,
             \/ Lookup(r) \/ FindWaiting(r) \/ SendSignal(r) \/ SignalFails(r)
             \/ StorePayload(r) \/ Result(r) \/ WaitTimesOut(r)
      PROVE  \E x \in Runs, place \in {"find", "signal", "store", "start", "update", "await",
                                       "replied"} : Advances(x, place)
  <2>1. CASE Lookup(r)
    BY <1>2, <1>3, <2>1 DEF Lookup, Goes, Advances
  <2>2. CASE FindWaiting(r)
    <3>1. \A q \in Requests \ {r} : target'[q] = target[q]
      BY <1>1, <2>2 DEF FindWaiting, CallersOK
    <3> QED  BY <1>2, <2>2, <3>1 DEF FindWaiting, Goes, Advances
  <2>3. CASE SendSignal(r)
    BY <1>2, <2>3 DEF SendSignal, Goes, Advances
  <2>4. CASE SignalFails(r)
    BY <1>2, <2>4 DEF SignalFails, Goes, Advances
  <2>5. CASE StorePayload(r)
    BY <1>2, <2>5 DEF StorePayload, Goes, Advances
  <2>6. CASE Result(r) \/ WaitTimesOut(r)
    BY <1>2, <1>3, <2>6 DEF Result, WaitTimesOut
  <2> QED  BY <1>6, <2>1, <2>2, <2>3, <2>4, <2>5, <2>6
<1>7. ASSUME NEW x \in Runs,
             \/ StartExecution(x) \/ StartFails(x) \/ RecordStarted(x)
             \/ RecordStartedFails(x) \/ ReachWebhook(x) \/ ReceiveSignal(x)
             \/ WebhookTimesOut(x) \/ Report(x) \/ CloseRun(x)
      PROVE  \/ UNCHANGED <<handler, target, reply>>
             \/ \E place \in {"find", "signal", "store", "start", "update", "await",
                              "replied"} : Advances(x, place)
  <2>1. CASE StartExecution(x)
    BY <1>3, <2>1 DEF StartExecution, Goes, Advances
  <2>2. CASE StartFails(x) \/ RecordStartedFails(x)
    BY <1>3, <2>2 DEF StartFails, RecordStartedFails
  <2>3. CASE RecordStarted(x)
    <3>1. /\ handler[x] = "update" /\ UNCHANGED <<reply, run, payload, inbox>>
          /\ \/ /\ x \in Requests /\ target' = [target EXCEPT ![x] = x]
                /\ handler' = [handler EXCEPT ![x] = "await"]
             \/ /\ x \in Manual /\ target' = target
                /\ handler' = [handler EXCEPT ![x] = "replied"]
      BY <2>3, Zenon DEF RecordStarted, Goes
    <3>2. CASE x \in Requests /\ target' = [target EXCEPT ![x] = x]
               /\ handler' = [handler EXCEPT ![x] = "await"]
      <4>1. target'[x] = x /\ \A q \in Requests \ {x} : target'[q] = target[q]
        BY <1>1, <3>2 DEF CallersOK
      <4> QED  BY <3>1, <3>2, <4>1 DEF Advances
    <3>3. CASE x \in Manual /\ target' = target /\ handler' = [handler EXCEPT ![x] = "replied"]
      BY <1>2, <3>1, <3>3 DEF Advances
    <3> QED  BY <3>1, <3>2, <3>3
  <2>4. CASE ReachWebhook(x) \/ ReceiveSignal(x) \/ WebhookTimesOut(x) \/ Report(x) \/ CloseRun(x)
    BY <2>4, Zenon DEF ReachWebhook, ReceiveSignal, WebhookTimesOut, Report, CloseRun, caller
  <2> QED  BY <1>7, <2>1, <2>2, <2>3, <2>4
<1>8. \A m \in Manual : m \in Runs
  BY DEF Runs
<1> HIDE DEF Runs
<1> QED  BY <1>4, <1>5, <1>6, <1>7, <1>8, NextCases

\* What a step leaves at the target of a request.
LEMMA DeliveredAtTarget ==
  ASSUME NEW r \in Requests, NEW t \in Runs, DeliveredTo(t, r)', target'[r] = t
  PROVE  Delivered(r)'
BY DEF Delivered, DeliveredTo

\* The delivered signal is in the inbox.
LEMMA DeliveryDelivers ==
  ASSUME TypeOK, NEW x \in Requests, handler[x] = "signal", Open(target[x]), Deliver(x),
         UNCHANGED <<run, payload, target>>
  PROVE  Delivered(x)'
<1>1. PICK t \in Runs : t = target[x]
  BY DEF TypeOK, CallersOK
<1>2. inbox \in [Runs -> Seq(Requests)]
  BY DEF TypeOK, RunsOK
<1>3. inbox'[t] = Append(inbox[t], x)
  BY <1>1, <1>2 DEF Deliver
<1>4. Len(inbox[t]) + 1 \in 1..Len(inbox'[t]) /\ inbox'[t][Len(inbox[t]) + 1] = x
  <2>1. inbox[t] \in Seq(Requests)
    BY <1>2
  <2> QED  BY <1>3, <2>1
<1>5. run'[t] # "none"
  BY <1>1 DEF Open
<1>6. \E i \in 1..Len(inbox'[t]) : inbox'[t][i] = x
  BY <1>4
<1>7. DeliveredTo(t, x)'
  BY <1>5, <1>6 DEF DeliveredTo
<1> QED  BY <1>1, <1>7, DeliveredAtTarget

LEMMA DeliveryStep ==
  InboundInvariant /\ InboundInvariant' /\ DeliveryInvariant /\ [Next]_vars => DeliveryInvariant'
<1> SUFFICES ASSUME InboundInvariant, InboundInvariant', DeliveryInvariant, [Next]_vars
             PROVE  DeliveryInvariant'
  OBVIOUS
<1>1. CASE UNCHANGED vars
  <2>1. UNCHANGED <<handler, target, reply, run, payload, inbox, faulty>>
    BY <1>1 DEF vars, caller
  <2> QED  BY <2>1 DEF DeliveryInvariant, PayloadlessRuns, HandlersInOrder,
                       AcceptedIsDelivered, Accepted, Delivered, DeliveredTo
<1>2. CASE Next
  <2>1. TypeOK /\ OwnPayload /\ PayloadlessRuns /\ HandlersInOrder
    BY DEF InboundInvariant, DeliveryInvariant
  <2>2. PayloadlessRuns' /\ \A y \in Runs : run[y] # "none" => run'[y] # "none"
    BY <1>2, <2>1, RunSteps
  <2>3. /\ handler \in [Runs -> {"idle", "find", "signal", "store", "start", "update",
                                 "await", "replied"}]
        /\ run \in [Runs -> {"none", "ready", "waiting", "busy", "reported", "gaveUp",
                             "answered", "completed", "failed"}]
        /\ \A r \in Requests : r \in Runs
    BY <2>1 DEF TypeOK, CallersOK, RunsOK, Runs
  <2>4. ASSUME NEW q \in Requests, AcceptedIsDelivered, Accepted(q), target'[q] = target[q]
        PROVE  Delivered(q)'
    <3>1. target[q] \in Runs /\ DeliveredTo(target[q], q)
      BY <2>4 DEF AcceptedIsDelivered, Delivered
    <3>2. \A t \in Runs : DeliveredTo(t, q) => DeliveredTo(t, q)'
      BY <1>2, <2>1, DeliveredStays
    <3> QED  BY <2>4, <3>1, <3>2, DeliveredAtTarget
  <2>5. CASE UNCHANGED <<handler, target, reply>>
    <3>1. HandlersInOrder'
      BY <2>1, <2>2, <2>5 DEF HandlersInOrder
    <3>2. ASSUME ~ faulty' PROVE AcceptedIsDelivered'
      <4>1. AcceptedIsDelivered
        BY <1>2, <3>2, FaultsStay DEF DeliveryInvariant
      <4>2. \A q \in Requests : Accepted(q)' = Accepted(q)
        BY <2>5 DEF Accepted
      <4> QED  BY <2>4, <2>5, <4>1, <4>2 DEF AcceptedIsDelivered, Delivered
    <3> QED  BY <2>2, <3>1, <3>2 DEF DeliveryInvariant
  <2>6. ASSUME NEW x \in Runs,
               NEW place \in {"find", "signal", "store", "start", "update", "await", "replied"},
               Advances(x, place)
        PROVE  DeliveryInvariant'
    <3>1. /\ handler'[x] = place /\ handler[x] # "replied"
          /\ \A y \in Runs \ {x} : handler'[y] = handler[y]
          /\ \A q \in Requests \ {x} : target'[q] = target[q] /\ reply'[q] = reply[q]
      BY <2>3, <2>6 DEF Advances
    <3>2. HandlersInOrder'
      <4>1. ASSUME NEW q \in Requests, reply'[q] \in {"received", "response"}
            PROVE  handler'[q] = "replied"
        <5>1. CASE q # x
          BY <2>1, <2>3, <3>1, <4>1, <5>1 DEF HandlersInOrder
        <5>2. CASE q = x
          <6>1. reply[x] \notin {"received", "response"}
            BY <2>1, <3>1, <5>2 DEF HandlersInOrder
          <6> QED  BY <2>6, <3>1, <4>1, <5>2, <6>1 DEF Advances
        <5> QED  BY <5>1, <5>2
      <4>2. ASSUME NEW y \in Runs, handler'[y] = "update"
            PROVE  run'[y] # "none"
        <5>1. CASE y # x
          BY <2>1, <2>2, <3>1, <4>2, <5>1 DEF HandlersInOrder
        <5>2. CASE y = x
          <6>1. OpenRun(x)
            BY <2>6, <3>1, <4>2, <5>2 DEF Advances
          <6> QED  BY <2>3, <5>2, <6>1 DEF OpenRun
        <5> QED  BY <5>1, <5>2
      <4> QED  BY <4>1, <4>2 DEF HandlersInOrder
    <3>3. ASSUME ~ faulty', NEW q \in Requests, Accepted(q)'
          PROVE  Delivered(q)'
      <4>1. AcceptedIsDelivered
        BY <1>2, <3>3, FaultsStay DEF DeliveryInvariant
      <4>2. CASE q # x
        <5>1. Accepted(q) /\ target'[q] = target[q]
          BY <2>3, <3>1, <3>3, <4>2 DEF Accepted
        <5> QED  BY <2>4, <4>1, <5>1
      <4>3. CASE q = x
        <5>1. reply[x] \notin {"received", "response"}
          BY <2>1, <3>1, <4>3 DEF HandlersInOrder
        <5>2. CASE /\ place = "store" /\ Open(target[x]) /\ Deliver(x)
                   /\ UNCHANGED <<run, payload, target, reply>>
                   /\ x \in Requests /\ handler[x] = "signal"
          <6>1. Delivered(x)'
            BY <2>1, <4>3, <5>2, DeliveryDelivers
          <6> QED  BY <4>3, <6>1
        <5>3. CASE place = "await" /\ handler[x] = "store" /\ UNCHANGED <<target, reply>>
          <6>1. Accepted(q) /\ target'[q] = target[q]
            BY <4>3, <5>3 DEF Accepted
          <6> QED  BY <2>4, <4>1, <6>1
        <5>4. CASE /\ place = "await" /\ handler[x] = "update" /\ target'[x] = x
                   /\ UNCHANGED <<run, payload, reply>>
          <6>1. run[x] # "none" /\ payload[x] = x /\ x # None
            BY <2>1, <4>3, <5>4, NamesAssumption DEF HandlersInOrder, OwnPayload
          <6>2. run'[x] # "none" /\ payload'[x] # None
            BY <5>4, <6>1
          <6>3. DeliveredTo(x, x)'
            BY <6>2 DEF DeliveredTo
          <6> QED  BY <2>3, <4>3, <5>4, <6>3, DeliveredAtTarget
        <5>5. CASE /\ place = "replied" /\ target' = target
                   /\ x \in Requests => reply'[x] = "error" \/ handler[x] = "await"
          <6>1. handler[x] = "await"
            BY <3>1, <3>3, <4>3, <5>5 DEF Accepted
          <6>2. Accepted(q) /\ target'[q] = target[q]
            BY <4>3, <5>5, <6>1 DEF Accepted
          <6> QED  BY <2>4, <4>1, <6>2
        <5>6. CASE place \in {"find", "signal", "start", "update"} /\ reply' = reply
          BY <3>1, <3>3, <4>3, <5>1, <5>6 DEF Accepted
        <5> QED  BY <2>6, <5>2, <5>3, <5>4, <5>5, <5>6 DEF Advances
      <4> QED  BY <4>2, <4>3
    <3> QED  BY <2>2, <3>2, <3>3 DEF DeliveryInvariant, AcceptedIsDelivered, Delivered
  <2> QED  BY <1>2, <2>1, <2>5, <2>6, CallerSteps
<1> QED  BY <1>1, <1>2

-----------------------------------------------------------------------------
\* The inductive invariant of what callers are told: handleInbound accepts no
\* request before a run has it, as its payload or as a signal.
THEOREM DeliveryInvariantHolds == Spec => []DeliveryInvariant
<1>1. Init => DeliveryInvariant
  BY DeliveryInit
<1>2. InboundInvariant /\ InboundInvariant' /\ DeliveryInvariant /\ [Next]_vars
        => DeliveryInvariant'
  BY DeliveryStep
<1>3. Spec => []InboundInvariant
  BY InboundInvariantHolds
<1> QED  BY <1>1, <1>2, <1>3, PTL DEF Spec

\* Without faults a request that was accepted and then executed by no run was
\* signalled to a run that took another one, or had given up waiting.
THEOREM LostOnlyToAnotherHolds == Spec => []LostOnlyToAnother
<1>1. InboundInvariant /\ DeliveryInvariant => LostOnlyToAnother
  <2> SUFFICES ASSUME InboundInvariant, DeliveryInvariant, ~ faulty, NEW r \in Requests,
                      reply[r] \in {"received", "response"}, Handling(r) = {},
                      ~ Open(target[r])
               PROVE  \/ payload[target[r]] \in Requests \ {r}
                      \/ payload[target[r]] = None /\ run[target[r]] = "failed"
    BY DEF LostOnlyToAnother
  <2> DEFINE t == target[r]
  <2>1. t \in Runs /\ run[t] # "none"
    BY DEF DeliveryInvariant, AcceptedIsDelivered, Delivered, Accepted, DeliveredTo
  <2>2. payload[t] \in Requests \cup {None} /\ payload[t] # r
    BY <2>1 DEF InboundInvariant, TypeOK, RunsOK, Handling
  <2>3. payload[t] = None => run[t] \in {"ready", "waiting", "gaveUp", "failed"}
    BY <2>1 DEF DeliveryInvariant, PayloadlessRuns
  <2> QED  BY <2>2, <2>3 DEF Open
<1> QED  BY <1>1, InboundInvariantHolds, DeliveryInvariantHolds, PTL
=============================================================================
