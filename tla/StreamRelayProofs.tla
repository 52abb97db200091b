-------------------------- MODULE StreamRelayProofs --------------------------
(***************************************************************************)
(* Proofs about one streamed completion, for any upstreams, cut into reads *)
(* anywhere, and a client that leaves at any moment.                       *)
(***************************************************************************)
EXTENDS StreamRelay, FiniteSetTheorems, SequenceTheorems, TLAPS

\* Only a claude provider enqueues, and only while nobody has closed its stream.
OwnStreams ==
    /\ DOMAIN producer = {"fed", "running", "state"}
    /\ scenario.kind = "http" => ~producer.running /\ queue = <<>>
    /\ body = "broken" => scenario.kind = "http"
    /\ producer.running => body \in {"open", "cancelled"}

\* A stream is cancelled because the client left, and stays so.
Cancelled ==
    /\ body = "cancelled" => clientClosed
    /\ clientClosed => /\ client = "gone" /\ phase # "routing"
                       /\ body \in {"cancelled", "broken"} /\ queue = <<>>

\* What the request log and the virtual key have of the request.
Logged ==
    /\ phase \in {"routing", "relaying", "ended"}
    /\ phase # "ended" => log = <<>> /\ charged = 0
    /\ phase = "ended" => \E status : /\ log = <<status>>
                                      /\ charged = IF status = "success" THEN 1 ELSE 0
    /\ heartbeat <=> phase = "relaying"

\* An upstream that did not fail was blamed once at most, and then its loop is over.
Blamed == ~broke => \/ failures = 0
                    \/ failures = 1 /\ clientClosed /\ ~producer.running

\* The inductive invariant
RelayIInv == OwnStreams /\ Cancelled /\ Logged /\ Blamed

-----------------------------------------------------------------------------
LEMMA RelayInit == Init => RelayIInv
<1> SUFFICES ASSUME Init PROVE RelayIInv
  OBVIOUS
<1>1. /\ phase = "routing" /\ clientClosed = FALSE /\ heartbeat = FALSE /\ body = "open"
      /\ queue = <<>> /\ log = <<>> /\ charged = 0 /\ failures = 0
  BY DEF Init
<1>2. producer.running = (scenario.kind \in {"api", "cli"})
  BY DEF Init
<1>3. DOMAIN producer = {"fed", "running", "state"}
  BY DEF Init
<1>4. scenario.kind = "http" => ~producer.running
  BY <1>2
<1>5. OwnStreams
  BY <1>1, <1>3, <1>4 DEF OwnStreams
<1> QED
  BY <1>1, <1>5 DEF RelayIInv, Cancelled, Logged, Blamed

\* A request that ends is logged once, and charged if it is a success.
LEMMA EndsOnce ==
    ASSUME RelayIInv, NEW status, phase # "ended", phase' = "ended", heartbeat' = FALSE,
           log' = Append(log, status), charged' = IF status = "success" THEN charged + 1 ELSE charged
    PROVE  Logged'
<1>1. log' = <<status>> /\ charged' = IF status = "success" THEN 1 ELSE 0
  BY DEF RelayIInv, Logged
<1> QED
  BY <1>1 DEF Logged

LEMMA RelayStep == RelayIInv /\ [Next]_vars => RelayIInv'
<1> SUFFICES ASSUME RelayIInv, [Next]_vars PROVE RelayIInv'
  OBVIOUS
<1>1. OwnStreams /\ Cancelled /\ Logged /\ Blamed
  BY DEF RelayIInv
<1>2. CASE Routed
  <2>1. /\ phase = "routing" /\ phase' = "relaying" /\ heartbeat' = TRUE
        /\ UNCHANGED <<scenario, client, clientClosed, body, log, charged, producer, queue, failures, broke>>
    BY <1>2 DEF Routed, producerVars
  <2> QED
    BY <1>1, <2>1 DEF RelayIInv, OwnStreams, Cancelled, Logged, Blamed
<1>3. CASE RoutedWithoutBody
  <2>1. /\ phase = "routing" /\ phase' = "ended" /\ log' = Append(log, "success")
        /\ charged' = charged + 1
        /\ UNCHANGED <<scenario, client, clientClosed, heartbeat, body, producer, queue, failures, broke>>
    BY <1>3 DEF RoutedWithoutBody, producerVars
  <2>2. Logged'
    <3>1. log' = <<"success">> /\ charged' = 1
      BY <1>1, <2>1 DEF Logged
    <3> QED
      BY <1>1, <2>1, <3>1 DEF Logged
  <2> QED
    BY <1>1, <2>1, <2>2 DEF RelayIInv, OwnStreams, Cancelled, Blamed
<1>4. CASE RouteFails
  <2>1. PICK status \in {"error", "all_providers_failed"} :
           /\ phase = "routing" /\ phase' = "ended" /\ log' = Append(log, status)
           /\ producer' = [producer EXCEPT !.running = FALSE]
           /\ UNCHANGED <<scenario, client, clientClosed, heartbeat, body, charged, queue, failures, broke>>
    BY <1>4 DEF RouteFails
  <2>2. Logged'
    <3>1. log' = <<status>> /\ charged' = 0 /\ status # "success"
      BY <1>1, <2>1 DEF Logged
    <3> QED
      BY <1>1, <2>1, <3>1 DEF Logged
  <2> QED
    BY <1>1, <2>1, <2>2 DEF RelayIInv, OwnStreams, Cancelled, Blamed
<1>5. CASE ClientLeaves
  BY <1>1, <1>5 DEF ClientLeaves, relayVars, RelayIInv, OwnStreams, Cancelled, Logged, Blamed
<1>6. CASE Read
  <2>1. UNCHANGED <<scenario, phase, clientClosed, heartbeat, log, charged, client, body,
                    producer, queue, failures, broke>>
    BY <1>6 DEF Read, routeVars
  <2> QED
    BY <1>1, <2>1 DEF RelayIInv, OwnStreams, Cancelled, Logged, Blamed
<1>7. CASE ReadQueued
  <2>1. /\ queue # <<>> /\ queue' = Tail(queue)
        /\ UNCHANGED <<scenario, phase, clientClosed, heartbeat, log, charged, client, body,
                       producer, failures, broke>>
    BY <1>7 DEF ReadQueued, routeVars
  <2> QED
    BY <1>1, <2>1 DEF RelayIInv, OwnStreams, Cancelled, Logged, Blamed
<1>8. CASE Finish \/ FinishBroken
  <2>1. PICK status \in {"success", "error"} :
           EndRelay(status) /\ NothingToRead /\ UNCHANGED <<scenario, client, clientClosed, body, producerVars>>
    BY <1>8 DEF Finish, FinishBroken
  <2>2. /\ phase = "relaying" /\ phase' = "ended" /\ heartbeat' = FALSE
        /\ log' = Append(log, status)
        /\ charged' = IF status = "success" THEN charged + 1 ELSE charged
    BY <2>1 DEF EndRelay, NothingToRead
  <2>3. Logged'
    BY <2>2, EndsOnce
  <2>4. UNCHANGED <<scenario, client, clientClosed, body, producer, queue, failures, broke>>
    BY <2>1 DEF producerVars
  <2> QED
    BY <1>1, <2>2, <2>3, <2>4 DEF RelayIInv, OwnStreams, Cancelled, Blamed
<1>9. CASE Heartbeat
  <2>1. UNCHANGED <<scenario, phase, clientClosed, heartbeat, log, charged, client, body,
                    producer, queue, failures, broke>>
    BY <1>9 DEF Heartbeat, routeVars, producerVars
  <2> QED
    BY <1>1, <2>1 DEF RelayIInv, OwnStreams, Cancelled, Logged, Blamed
<1>10. CASE UpstreamEnds
  <2>1. /\ scenario.kind = "http" /\ body = "open"
        /\ \/ body' = "closed" /\ UNCHANGED broke
           \/ body' = "broken" /\ broke' = TRUE
        /\ UNCHANGED <<scenario, phase, clientClosed, heartbeat, log, charged, client,
                       producer, queue, failures>>
    BY <1>10 DEF UpstreamEnds, routeVars
  <2> QED
    BY <1>1, <2>1 DEF RelayIInv, OwnStreams, Cancelled, Logged, Blamed
<1>11. CASE Produce
  <2> DEFINE r == Produced(Upstream[producer.fed + 1])
             chunks == r.chunks
             bad == r.failed
             throws == chunks # <<>> /\ body # "open"
             events == [i \in DOMAIN chunks |-> EventOf(chunks[i])]
  <2>1. /\ producer.running
        /\ producer'.running = ~throws /\ DOMAIN producer' = {"fed", "running", "state"}
        /\ queue' = IF throws THEN queue ELSE queue \o events
        /\ failures' = failures + (IF bad THEN 1 ELSE 0) + (IF throws THEN 1 ELSE 0)
        /\ broke' = (broke \/ bad)
        /\ UNCHANGED <<scenario, phase, clientClosed, heartbeat, log, charged, client, body>>
    BY <1>11 DEF Produce, routeVars
  <2>2. chunks = <<>> => events = <<>>
    OBVIOUS
  <2> HIDE DEF r, chunks, bad, events
  <2>3. clientClosed => queue' = <<>>
    BY <1>1, <2>1, <2>2 DEF Cancelled
  <2>4. OwnStreams' /\ Cancelled' /\ Logged'
    BY <1>1, <2>1, <2>3 DEF OwnStreams, Cancelled, Logged
  <2>5. ASSUME ~broke'
        PROVE  \/ failures' = 0
               \/ failures' = 1 /\ clientClosed' /\ ~producer'.running
    <3>1. ~broke /\ ~bad
      BY <2>1, <2>5, Zenon
    <3>2. failures = 0
      BY <1>1, <2>1, <3>1 DEF Blamed
    <3>3. failures' = IF throws THEN 1 ELSE 0
      BY <2>1, <3>1, <3>2
    <3> QED
      BY <1>1, <2>1, <3>3 DEF OwnStreams, Cancelled
  <2> QED
    BY <2>4, <2>5 DEF RelayIInv, Blamed
<1>12. ASSUME NEW chunks, NEW failed \in BOOLEAN, Close(chunks, failed), producer.running,
              ~broke' => ~broke /\ ~failed,
              UNCHANGED <<routeVars, client>>
       PROVE  RelayIInv'
  <2>1. /\ ~producer'.running /\ DOMAIN producer' = DOMAIN producer
        /\ \/ /\ body = "open" /\ body' = "closed"
              /\ failures' = failures + (IF failed THEN 1 ELSE 0)
           \/ body # "open" /\ failures' = failures + 1 /\ UNCHANGED <<queue, body>>
        /\ UNCHANGED <<scenario, phase, clientClosed, heartbeat, log, charged, client>>
    BY <1>12 DEF Close, routeVars
  <2>2. OwnStreams' /\ Cancelled' /\ Logged'
    BY <1>1, <1>12, <2>1 DEF OwnStreams, Cancelled, Logged
  <2>3. CASE ~broke'
    <3>1. failures = 0 /\ ~failed
      BY <1>1, <1>12, <2>3 DEF Blamed
    <3>2. failures' = 0 \/ (failures' = 1 /\ body # "open")
      BY <2>1, <3>1
    <3> QED
      BY <1>1, <1>12, <2>1, <2>2, <3>2 DEF RelayIInv, OwnStreams, Cancelled, Blamed
  <2> QED
    BY <2>2, <2>3 DEF RelayIInv, Blamed
<1>13. CASE ProducerEnds
  BY <1>12, <1>13 DEF ProducerEnds
<1>14. CASE ProducerBreaks
  BY <1>12, <1>14 DEF ProducerBreaks
<1>15. CASE UNCHANGED vars
  BY <1>1, <1>15 DEF vars, RelayIInv, OwnStreams, Cancelled, Logged, Blamed
<1> QED
  BY <1>2, <1>3, <1>4, <1>5, <1>6, <1>7, <1>8, <1>9, <1>10, <1>11, <1>13, <1>14, <1>15
     DEF Next, Ended

LEMMA RelaySafe == Spec => []RelayIInv
  BY RelayInit, RelayStep, PTL DEF Spec

\* A provider is blamed for the error events its loop has relayed, and once more when the
\* loop is over.
Blames ==
    /\ producer.fed \in Nat /\ failures \in Nat
    /\ failures <= Cardinality(ErrorsHandled) + (IF producer.running THEN 0 ELSE 1)

LEMMA HandledSize ==
    ASSUME producer.fed \in Nat
    PROVE  IsFiniteSet(ErrorsHandled) /\ Cardinality(ErrorsHandled) \in Nat
<1>1. IsFiniteSet(1 .. producer.fed)
  BY FS_Interval
<1>2. IsFiniteSet(ErrorsHandled)
  BY <1>1, FS_Subset DEF ErrorsHandled
<1> QED
  BY <1>2, FS_CardinalityType

LEMMA BlamesInit == Init => Blames
<1> SUFFICES ASSUME Init PROVE Blames
  OBVIOUS
<1>1. producer.fed = 0 /\ failures = 0
  BY DEF Init
<1> QED
  BY <1>1, HandledSize DEF Blames

\* The loop stays where it is in its upstream's events.
LEMMA BlamesKept ==
    ASSUME Blames, scenario' = scenario, producer'.fed = producer.fed,
           ~producer.running => ~producer'.running,
           \/ failures' = failures
           \/ failures' = failures + 1 /\ producer.running /\ ~producer'.running
    PROVE  Blames'
<1>1. ErrorsHandled' = ErrorsHandled
  BY DEF ErrorsHandled, Upstream
<1>2. PICK size \in Nat : size = Cardinality(ErrorsHandled)
  BY HandledSize DEF Blames
<1>3. producer.fed \in Nat /\ failures \in Nat
  BY DEF Blames
<1>4. CASE producer.running
  <2>1. failures <= size
    BY <1>2, <1>4 DEF Blames
  <2>2. CASE producer'.running
    BY <1>1, <1>2, <1>3, <2>1, <2>2 DEF Blames
  <2>3. CASE ~producer'.running
    BY <1>1, <1>2, <1>3, <2>1, <2>3 DEF Blames
  <2> QED
    BY <2>2, <2>3
<1>5. CASE ~producer.running
  <2>1. failures <= size + 1 /\ failures' = failures /\ ~producer'.running
    BY <1>2, <1>5 DEF Blames
  <2> QED
    BY <1>1, <1>2, <1>3, <2>1 DEF Blames
<1> QED
  BY <1>4, <1>5

\* Only an error event is reported while the loop goes on.
LEMMA ReportsErrors ==
    ASSUME NEW evt, Produced(evt).failed
    PROVE  scenario.kind = "api" /\ evt.type = "error"
<1>1. CASE scenario.kind = "api"
  <2>1. ApiEvent(producer.state, evt).failed
    BY <1>1 DEF Produced
  <2> QED
    BY <1>1, <2>1 DEF ApiEvent
<1>2. CASE scenario.kind # "api"
  <2>1. CliEvent(producer.state, evt).failed
    BY <1>2 DEF Produced
  <2> QED
    BY <2>1 DEF CliEvent
<1> QED
  BY <1>1, <1>2

LEMMA BlamesStep == OwnStreams /\ Blames /\ [Next]_vars => Blames'
<1> SUFFICES ASSUME OwnStreams, Blames, [Next]_vars PROVE Blames'
  OBVIOUS
<1>1. DOMAIN producer = {"fed", "running", "state"}
  BY DEF OwnStreams
<1>2. producer.fed \in Nat /\ failures \in Nat
  BY DEF Blames
<1>3. CASE UNCHANGED <<scenario, producer, failures>>
  BY <1>2, <1>3, BlamesKept
<1>4. CASE RouteFails
  <2>1. producer' = [producer EXCEPT !.running = FALSE] /\ UNCHANGED <<scenario, failures>>
    BY <1>4 DEF RouteFails
  <2>2. producer'.fed = producer.fed /\ ~producer'.running
    BY <1>1, <2>1
  <2> QED
    BY <1>2, <2>1, <2>2, BlamesKept
<1>5. CASE Produce
  <2> DEFINE evt == Upstream[producer.fed + 1]
             bad == Produced(evt).failed
             throws == Produced(evt).chunks # <<>> /\ body # "open"
             error == scenario.kind = "api" /\ evt.type = "error"
  <2>1. /\ producer.running /\ scenario' = scenario
        /\ producer'.fed = producer.fed + 1
        /\ failures' = failures + (IF bad THEN 1 ELSE 0) + (IF throws THEN 1 ELSE 0)
    BY <1>5 DEF Produce, routeVars
  <2>2. throws => ~producer'.running
    BY <1>5 DEF Produce
  <2>3. bad => error
    BY ReportsErrors
  <2>4. Upstream' = Upstream
    BY <2>1 DEF Upstream
  <2>5. PICK size \in Nat : IsFiniteSet(ErrorsHandled) /\ size = Cardinality(ErrorsHandled)
    BY <1>2, HandledSize
  <2>6. /\ ErrorsHandled' = IF error THEN ErrorsHandled \cup {producer.fed + 1} ELSE ErrorsHandled
        /\ producer.fed + 1 \notin ErrorsHandled
    BY <1>2, <2>1, <2>4 DEF ErrorsHandled
  <2> HIDE DEF evt, bad, throws, error
  <2>7. Cardinality(ErrorsHandled)' = size + (IF error THEN 1 ELSE 0)
    <3>1. CASE error
      BY <2>5, <2>6, <3>1, FS_AddElement
    <3>2. CASE ~error
      BY <2>5, <2>6, <3>2
    <3> QED
      BY <3>1, <3>2
  <2>8. failures <= size
    BY <2>1, <2>5 DEF Blames
  <2>9. failures' \in Nat /\ failures' <= Cardinality(ErrorsHandled)' + (IF throws THEN 1 ELSE 0)
    BY <1>2, <2>1, <2>3, <2>7, <2>8
  <2>10. CASE throws
    BY <1>2, <2>1, <2>2, <2>9, <2>10 DEF Blames
  <2>11. CASE ~throws
    BY <1>2, <2>1, <2>7, <2>9, <2>11 DEF Blames
  <2> QED
    BY <2>10, <2>11
<1>6. ASSUME NEW chunks, NEW failed \in BOOLEAN, Close(chunks, failed), producer.running,
             scenario' = scenario
      PROVE  Blames'
  <2>1. producer' = [producer EXCEPT !.running = FALSE]
    BY <1>6 DEF Close
  <2>2. producer'.fed = producer.fed /\ ~producer'.running
    BY <1>1, <2>1
  <2>3. failures' = failures + 1 \/ failures' = failures + (IF failed THEN 1 ELSE 0)
    BY <1>6 DEF Close
  <2>4. failures' = failures + 1 \/ failures' = failures
    BY <1>2, <2>3
  <2> QED
    BY <1>6, <2>2, <2>4, BlamesKept
<1>7. CASE ProducerEnds
  BY <1>6, <1>7 DEF ProducerEnds, routeVars
<1>8. CASE ProducerBreaks
  BY <1>6, <1>8 DEF ProducerBreaks, routeVars
<1> QED
  BY <1>3, <1>4, <1>5, <1>7, <1>8
     DEF Next, Ended, vars, Routed, RoutedWithoutBody, ClientLeaves, Read, ReadQueued, Finish,
         FinishBroken, Heartbeat, UpstreamEnds, routeVars, producerVars

\* One entry in the log for every stream, a charge for each that is logged as a
\* success, no heartbeat without a relay, no more blame for a provider than its error
\* events and the end of its loop, and none if its upstream did not fail, but one when
\* the client left (handleStreamingRequest, buildSseResponse), for any upstreams.
THEOREM RelayBooksHold == Spec => []RelayBooks
<1>1. RelayIInv /\ Blames => RelayBooks
  <2> SUFFICES ASSUME RelayIInv, Blames PROVE RelayBooks
    OBVIOUS
  <2>1. Logged /\ Blamed
    BY DEF RelayIInv
  <2>2. failures <= Cardinality(ErrorsHandled) + (IF producer.running THEN 0 ELSE 1)
    BY DEF Blames
  <2>3. ~broke => failures <= (IF clientClosed THEN 1 ELSE 0)
    BY <2>1 DEF Blamed
  <2>4. CASE phase # "ended"
    <3>1. log = <<>> /\ {i \in DOMAIN log : log[i] = "success"} = {} /\ charged = 0
      BY <2>1, <2>4 DEF Logged
    <3> QED
      BY <2>1, <2>2, <2>3, <2>4, <3>1, FS_EmptySet DEF RelayBooks, Logged
  <2>5. CASE phase = "ended"
    <3>1. PICK status : log = <<status>> /\ charged = IF status = "success" THEN 1 ELSE 0
      BY <2>1, <2>5 DEF Logged
    <3>2. {i \in DOMAIN log : log[i] = "success"} = IF status = "success" THEN {1} ELSE {}
      BY <3>1
    <3>3. Cardinality({1}) = 1 /\ Cardinality({}) = 0
      BY FS_Singleton, FS_EmptySet
    <3> QED
      BY <2>1, <2>2, <2>3, <2>5, <3>1, <3>2, <3>3 DEF RelayBooks, Logged
  <2> QED
    BY <2>4, <2>5
<1>2. RelayIInv => OwnStreams
  BY DEF RelayIInv
<1> QED
  BY <1>1, <1>2, RelaySafe, BlamesInit, BlamesStep, PTL DEF Spec

\* After the handler has heard that the client left, it takes nothing more from the body,
\* and a claude provider's loop, which may read on, is over with the first thing it would
\* send (res.on("close"), reader.cancel(), send), for any upstreams.
THEOREM GoneLeftAlone == Spec => GoneIsLeftAlone
<1> DEFINE LeavesAlone == clientClosed =>
              /\ taken' = taken /\ queue' = <<>>
              /\ phase' = "relaying" => UNCHANGED <<buffer, pipeline>>
              /\ producer'.fed # producer.fed /\ producer'.running =>
                    Produced(Upstream[producer'.fed]).chunks = <<>>
<1>1. RelayIInv /\ RelayIInv' /\ [Next]_vars => [LeavesAlone]_vars
  <2> SUFFICES ASSUME RelayIInv, RelayIInv', Next, clientClosed
               PROVE  LeavesAlone
    BY Zenon
  <2>1. /\ client = "gone" /\ phase # "routing" /\ body \in {"cancelled", "broken"}
        /\ queue = <<>> /\ DOMAIN producer = {"fed", "running", "state"}
    BY DEF RelayIInv, Cancelled, OwnStreams
  <2>2. CASE Finish \/ FinishBroken
    <3>1. UNCHANGED <<taken, queue, producer>> /\ phase' = "ended"
      BY <2>2 DEF Finish, FinishBroken, EndRelay, producerVars
    <3> QED
      BY <2>1, <3>1
  <2>3. CASE Heartbeat
    BY <2>1, <2>3 DEF Heartbeat, producerVars
  <2>4. CASE Produce
    <3> DEFINE r == Produced(Upstream[producer.fed + 1])
    <3>1. /\ clientClosed' /\ UNCHANGED <<taken, buffer, pipeline>>
          /\ producer'.fed = producer.fed + 1
          /\ producer'.running = ~(r.chunks # <<>> /\ body # "open")
      BY <2>4 DEF Produce, relayVars, routeVars
    <3>2. queue' = <<>>
      BY <3>1 DEF RelayIInv, Cancelled
    <3>3. producer'.running => Produced(Upstream[producer'.fed]).chunks = <<>>
      BY <2>1, <3>1
    <3> QED
      BY <3>1, <3>2, <3>3
  <2>5. CASE ProducerEnds \/ ProducerBreaks
    <3>1. /\ clientClosed' /\ UNCHANGED <<taken, buffer, pipeline>>
          /\ producer' = [producer EXCEPT !.running = FALSE]
      BY <2>5 DEF ProducerEnds, ProducerBreaks, Close, relayVars, routeVars
    <3>2. queue' = <<>>
      BY <3>1 DEF RelayIInv, Cancelled
    <3> QED
      BY <2>1, <3>1, <3>2
  <2>6. CASE Ended
    BY <2>1, <2>6 DEF Ended, vars
  <2> QED
    BY <2>1, <2>2, <2>3, <2>4, <2>5, <2>6
       DEF Next, Routed, RoutedWithoutBody, RouteFails, ClientLeaves, Read, ReadQueued, UpstreamEnds
<1> QED
  BY <1>1, RelaySafe, PTL DEF Spec, GoneIsLeftAlone

-----------------------------------------------------------------------------
\* Induction over numbers and sequences, by the well-foundedness of finite subsets.

\* A set that has 0 and with every number the next has all numbers.
LEMMA Induction ==
    ASSUME NEW S, 0 \in S, \A n \in Nat : n \in S => n + 1 \in S
    PROVE  Nat \subseteq S
<1> SUFFICES ASSUME NEW m \in Nat, m \notin S PROVE FALSE
  OBVIOUS
<1> DEFINE Out == {n \in 0 .. m : n \notin S}
           Below(n) == {k \in Out : k < n}
           B == {Below(n) : n \in Out}
<1>1. IsFiniteSet(Out)
  <2>1. Out \subseteq 0 .. m /\ IsFiniteSet(0 .. m)
    BY FS_Interval
  <2> QED
    BY <2>1, FS_Subset
<1>2. IsWellFoundedOn(StrictSubsetOrdering(Out), FiniteSubsetsOf(Out))
  BY <1>1, FS_StrictSubsetOrderingWellFounded
<1>3. B \subseteq FiniteSubsetsOf(Out) /\ Below(m) \in B
  <2>1. FiniteSubsetsOf(Out) = SUBSET Out
    BY <1>1, FS_FiniteSubsetsOfFinite
  <2>2. \A n \in Out : Below(n) \in SUBSET Out
    OBVIOUS
  <2> QED
    BY <2>1, <2>2
<1>4. PICK n \in Out : \A k \in Out : ~(<<Below(k), Below(n)>> \in StrictSubsetOrdering(Out))
  <2> HIDE DEF B
  <2>1. \E x \in B : \A y \in B : ~(<<y, x>> \in StrictSubsetOrdering(Out))
    BY <1>2, <1>3, WFMin
  <2> QED
    BY <2>1 DEF B
<1>5. n \in Nat /\ n # 0 /\ n - 1 \in Out
  BY <1>4
<1>6. Below(n - 1) \subseteq Below(n) /\ n - 1 \in Below(n) /\ n - 1 \notin Below(n - 1)
  BY <1>5
<1>7. <<Below(n - 1), Below(n)>> \in StrictSubsetOrdering(Out)
  BY <1>6 DEF StrictSubsetOrdering
<1> QED
  BY <1>4, <1>5, <1>7

\* A set that has the empty sequence and with every sequence the longer ones has
\* all sequences.
LEMMA SeqInduction ==
    ASSUME NEW X, NEW S, <<>> \in S,
           \A s \in Seq(X), x \in X : s \in S => Append(s, x) \in S
    PROVE  Seq(X) \subseteq S
<1> DEFINE N == {n \in Nat : \A s \in Seq(X) : Len(s) = n => s \in S}
<1>1. 0 \in N
  BY EmptySeq
<1>2. ASSUME NEW n \in Nat, n \in N PROVE n + 1 \in N
  <2> SUFFICES ASSUME NEW s \in Seq(X), Len(s) = n + 1 PROVE s \in S
    OBVIOUS
  <2>1. s # <<>>
    OBVIOUS
  <2>2. PICK t \in Seq(X), x \in X : s = Append(t, x)
    BY <2>1, SequenceEmptyOrAppend
  <2>3. Len(t) = n
    BY <2>2, AppendProperties
  <2> QED
    BY <1>2, <2>2, <2>3
<1>3. Nat \subseteq N
  <2> HIDE DEF N
  <2> QED
    BY <1>1, <1>2, Induction
<1> QED
  BY <1>3

-----------------------------------------------------------------------------
\* FlattenSeq

\* What FlattenSeq computes from the left.
Flattens(g, seqs) ==
    g = [i \in 1 .. Len(seqs) |-> IF i = 1 THEN seqs[i] ELSE g[i - 1] \o seqs[i]]

\* One step of that computation.
LEMMA FlattensAt ==
    ASSUME NEW seqs, NEW g, Flattens(g, seqs), NEW i \in 1 .. Len(seqs)
    PROVE  g[i] = IF i = 1 THEN seqs[i] ELSE g[i - 1] \o seqs[i]
  BY DEF Flattens

\* It is the same for sequences that agree so far.
LEMMA FlattensOnce ==
    ASSUME NEW Y, NEW s \in Seq(Y), NEW t \in Seq(Y), NEW g, Flattens(g, s), NEW h, Flattens(h, t),
           NEW n \in Nat, n <= Len(s), n <= Len(t), \A i \in 1 .. n : s[i] = t[i]
    PROVE  \A i \in 1 .. n : g[i] = h[i]
<1> DEFINE S == {k \in Nat : k \in 1 .. n => g[k] = h[k]}
<1>1. 0 \in S
  OBVIOUS
<1>2. ASSUME NEW k \in Nat, k \in S PROVE k + 1 \in S
  <2> SUFFICES ASSUME k + 1 \in 1 .. n PROVE g[k + 1] = h[k + 1]
    OBVIOUS
  <2>1. /\ g[k + 1] = IF k + 1 = 1 THEN s[k + 1] ELSE g[k + 1 - 1] \o s[k + 1]
        /\ h[k + 1] = IF k + 1 = 1 THEN t[k + 1] ELSE h[k + 1 - 1] \o t[k + 1]
    <3>1. k + 1 \in 1 .. Len(s) /\ k + 1 \in 1 .. Len(t)
      OBVIOUS
    <3> QED
      BY <3>1, FlattensAt
  <2>2. k + 1 - 1 = k /\ s[k + 1] = t[k + 1]
    OBVIOUS
  <2> QED
    BY <1>2, <2>1, <2>2
<1>3. Nat \subseteq S
  <2> HIDE DEF S
  <2> QED
    BY <1>1, <1>2, Induction
<1> QED
  BY <1>3

\* It exists for every sequence of sequences.
LEMMA FlattensExists ==
    ASSUME NEW Y, NEW s \in Seq(Y)
    PROVE  \E g : Flattens(g, s)
<1> DEFINE Good(n, g) == g = [i \in 1 .. n |-> IF i = 1 THEN s[i] ELSE g[i - 1] \o s[i]]
           S == {n \in Nat : \E g : Good(n, g)}
<1>1. 0 \in S
  <2>1. Good(0, [i \in 1 .. 0 |-> s[i]])
    OBVIOUS
  <2> QED
    BY <2>1
<1>2. ASSUME NEW n \in Nat, n \in S PROVE n + 1 \in S
  <2>1. PICK g : Good(n, g)
    BY <1>2
  <2> DEFINE h == [i \in 1 .. n + 1 |-> IF i = n + 1
                                         THEN IF n = 0 THEN s[1] ELSE g[n] \o s[n + 1] ELSE g[i]]
  <2>2. \A i \in 1 .. n : h[i] = g[i]
    OBVIOUS
  <2>3. \A i \in 1 .. n : g[i] = IF i = 1 THEN s[i] ELSE g[i - 1] \o s[i]
    BY <2>1
  <2>4. h[n + 1] = IF n = 0 THEN s[1] ELSE g[n] \o s[n + 1]
    OBVIOUS
  <2>5. DOMAIN h = 1 .. n + 1 /\ h = [i \in DOMAIN h |-> h[i]]
    OBVIOUS
  <2> HIDE DEF h
  <2>6. ASSUME NEW i \in 1 .. n + 1 PROVE h[i] = IF i = 1 THEN s[i] ELSE h[i - 1] \o s[i]
    <3>1. CASE i = n + 1
      BY <2>2, <2>4, <3>1
    <3>2. CASE i # n + 1
      <4>1. i \in 1 .. n /\ (i # 1 => i - 1 \in 1 .. n)
        BY <3>2
      <4> QED
        BY <2>2, <2>3, <4>1
    <3> QED
      BY <3>1, <3>2
  <2>7. Good(n + 1, h)
    BY <2>5, <2>6
  <2> HIDE DEF Good
  <2> QED
    BY <2>7
<1>3. Nat \subseteq S
  <2> HIDE DEF S
  <2> QED
    BY <1>1, <1>2, Induction
<1>4. Len(s) \in Nat
  OBVIOUS
<1> QED
  BY <1>3, <1>4 DEF Flattens

\* FlattenSeq is its last value.
LEMMA FlattenValue ==
    ASSUME NEW Y, NEW s \in Seq(Y), s # <<>>
    PROVE  \E g : Flattens(g, s) /\ FlattenSeq(s) = g[Len(s)]
<1>1. Len(s) # 0
  OBVIOUS
<1> DEFINE g == CHOOSE g : Flattens(g, s)
<1>2. Flattens(g, s)
  BY FlattensExists
<1>3. FlattenSeq(s) = g[Len(s)]
  BY <1>1 DEF FlattenSeq, Flattens
<1> QED
  BY <1>2, <1>3

\* One more sequence is put after the others,
LEMMA FlattenLonger ==
    ASSUME NEW Y, NEW s \in Seq(Y), NEW x \in Y, <<>> \o x = x
    PROVE  FlattenSeq(Append(s, x)) = FlattenSeq(s) \o x
<1>1. PICK t : t = Append(s, x)
  OBVIOUS
<1>2. PICK n \in Nat : n = Len(s)
  OBVIOUS
<1>3. /\ t \in Seq(Y) /\ t # <<>> /\ Len(t) = n + 1
      /\ \A i \in 1 .. n : t[i] = s[i]
      /\ t[n + 1] = x
  BY <1>1, <1>2, AppendProperties
<1>4. PICK h : Flattens(h, t) /\ FlattenSeq(t) = h[n + 1]
  BY <1>3, FlattenValue
<1>5. h[n + 1] = IF n + 1 = 1 THEN t[n + 1] ELSE h[n + 1 - 1] \o t[n + 1]
  <2>1. n + 1 \in 1 .. Len(t)
    BY <1>3
  <2> QED
    BY <1>4, <2>1, FlattensAt
<1>6. CASE n = 0
  <2>1. s = <<>> /\ FlattenSeq(s) = <<>>
    <3>1. s = <<>>
      BY <1>2, <1>6, EmptySeq
    <3>2. FlattenSeq(<<>>) = <<>>
      BY DEF FlattenSeq
    <3> QED
      BY <3>1, <3>2
  <2>2. h[n + 1] = x
    BY <1>3, <1>5, <1>6
  <2> QED
    BY <1>1, <1>4, <2>1, <2>2
<1>7. CASE n # 0
  <2>1. PICK g : Flattens(g, s) /\ FlattenSeq(s) = g[n]
    <3>1. s # <<>>
      BY <1>2, <1>7
    <3> QED
      BY <1>2, <3>1, FlattenValue
  <2>2. n \in 1 .. n /\ n + 1 # 1 /\ n + 1 - 1 = n /\ n <= Len(s) /\ n <= Len(t)
    BY <1>2, <1>3, <1>7
  <2>3. h[n] = g[n]
    BY <1>3, <1>4, <2>1, <2>2, FlattensOnce
  <2>4. h[n + 1] = h[n] \o x
    BY <1>3, <1>5, <2>2, Zenon
  <2> QED
    BY <1>1, <1>4, <2>1, <2>3, <2>4
<1> QED
  BY <1>6, <1>7

\* also when it is the first.
LEMMA FlattenAppend ==
    ASSUME NEW X, NEW s \in Seq(Seq(X)), NEW x \in Seq(X)
    PROVE  /\ FlattenSeq(<<>>) = <<>>
           /\ FlattenSeq(Append(s, x)) = FlattenSeq(s) \o x
<1>1. FlattenSeq(<<>>) = <<>>
  BY DEF FlattenSeq
<1>2. PICK Y : Y = Seq(X)
  OBVIOUS
<1>3. s \in Seq(Y) /\ x \in Y /\ <<>> \o x = x
  BY <1>2
<1>4. FlattenSeq(Append(s, x)) = FlattenSeq(s) \o x
  BY <1>3, FlattenLonger
<1> QED
  BY <1>1, <1>4

\* Sequences over X are flattened into one.
LEMMA FlattenType ==
    ASSUME NEW X
    PROVE  \A s \in Seq(Seq(X)) : FlattenSeq(s) \in Seq(X)
<1> DEFINE S == {s \in Seq(Seq(X)) : FlattenSeq(s) \in Seq(X)}
<1>1. <<>> \in S
  BY DEF FlattenSeq
<1>2. ASSUME NEW s \in Seq(Seq(X)), NEW x \in Seq(X), s \in S PROVE Append(s, x) \in S
  <2>1. Append(s, x) \in Seq(Seq(X)) /\ FlattenSeq(s) \o x \in Seq(X)
    BY <1>2
  <2> QED
    BY <2>1, FlattenAppend
<1>3. Seq(Seq(X)) \subseteq S
  <2> HIDE DEF S
  <2> QED
    BY <1>1, <1>2, SeqInduction
<1> QED
  BY <1>3

\* Appending to the second of two sequences that are put together.
LEMMA ConcatAppend ==
    ASSUME NEW X, NEW s \in Seq(X), NEW t \in Seq(X), NEW x \in X
    PROVE  /\ s \o Append(t, x) = Append(s \o t, x)
           /\ s \o <<>> = s /\ <<>> \o s = s /\ s \o <<x>> = Append(s, x)
  OBVIOUS

-----------------------------------------------------------------------------
\* Split

\* What Split computes from the left.
Splits(g, text, separator) ==
    g = [i \in 0 .. Len(text) |-> IF i = 0 THEN <<<<>>>> ELSE AddPiece(g[i - 1], text[i], separator)]

\* One step of that computation.
LEMMA SplitsAt ==
    ASSUME NEW text, NEW separator, NEW g, Splits(g, text, separator),
           NEW i \in Nat, i <= Len(text), Len(text) \in Nat
    PROVE  g[i] = IF i = 0 THEN <<<<>>>> ELSE AddPiece(g[i - 1], text[i], separator)
<1>1. i \in 0 .. Len(text)
  OBVIOUS
<1> QED
  BY <1>1 DEF Splits

\* It is the same for texts that agree so far.
LEMMA SplitsOnce ==
    ASSUME NEW separator, NEW Y, NEW s \in Seq(Y), NEW t \in Seq(Y),
           NEW g, Splits(g, s, separator), NEW h, Splits(h, t, separator),
           NEW n \in Nat, n <= Len(s), n <= Len(t), \A i \in 1 .. n : s[i] = t[i]
    PROVE  g[n] = h[n]
<1> DEFINE S == {k \in Nat : k <= n => g[k] = h[k]}
<1>1. 0 \in S
  <2>1. g[0] = <<<<>>>> /\ h[0] = <<<<>>>>
    BY SplitsAt
  <2> QED
    BY <2>1
<1>2. ASSUME NEW k \in Nat, k \in S PROVE k + 1 \in S
  <2> SUFFICES ASSUME k + 1 <= n PROVE g[k + 1] = h[k + 1]
    OBVIOUS
  <2>1. k + 1 \in Nat /\ k + 1 # 0 /\ k + 1 - 1 = k /\ k + 1 <= Len(s) /\ k + 1 <= Len(t)
        /\ s[k + 1] = t[k + 1] /\ g[k] = h[k] /\ Len(s) \in Nat /\ Len(t) \in Nat
    BY <1>2
  <2>2. g[k + 1] = AddPiece(g[k + 1 - 1], s[k + 1], separator)
    BY <2>1, SplitsAt
  <2>3. h[k + 1] = AddPiece(h[k + 1 - 1], t[k + 1], separator)
    BY <2>1, SplitsAt
  <2> QED
    BY <2>1, <2>2, <2>3
<1>3. Nat \subseteq S
  <2> HIDE DEF S
  <2> QED
    BY <1>1, <1>2, Induction
<1> QED
  BY <1>3

\* It exists for every text.
LEMMA SplitsExists ==
    ASSUME NEW separator, NEW Y, NEW s \in Seq(Y)
    PROVE  \E g : Splits(g, s, separator)
<1> DEFINE Good(n, g) == g = [i \in 0 .. n |-> IF i = 0 THEN <<<<>>>> ELSE AddPiece(g[i - 1], s[i], separator)]
           S == {n \in Nat : \E g : Good(n, g)}
<1>1. 0 \in S
  <2>1. Good(0, [i \in 0 .. 0 |-> <<<<>>>>])
    OBVIOUS
  <2> HIDE DEF Good
  <2> QED
    BY <2>1
<1>2. ASSUME NEW n \in Nat, n \in S PROVE n + 1 \in S
  <2>1. PICK g : Good(n, g)
    BY <1>2
  <2> DEFINE h == [i \in 0 .. n + 1 |-> IF i = n + 1 THEN AddPiece(g[n], s[n + 1], separator) ELSE g[i]]
  <2>2. \A i \in 0 .. n : h[i] = g[i]
    OBVIOUS
  <2>3. \A i \in 0 .. n : g[i] = IF i = 0 THEN <<<<>>>> ELSE AddPiece(g[i - 1], s[i], separator)
    BY <2>1
  <2>4. h[n + 1] = AddPiece(g[n], s[n + 1], separator)
    OBVIOUS
  <2>5. DOMAIN h = 0 .. n + 1 /\ h = [i \in DOMAIN h |-> h[i]]
    OBVIOUS
  <2> HIDE DEF h
  <2>6. ASSUME NEW i \in 0 .. n + 1
        PROVE  h[i] = IF i = 0 THEN <<<<>>>> ELSE AddPiece(h[i - 1], s[i], separator)
    <3>1. CASE i = n + 1
      <4>1. i # 0 /\ i - 1 = n /\ n \in 0 .. n
        BY <3>1
      <4> QED
        BY <2>2, <2>4, <3>1, <4>1
    <3>2. CASE i # n + 1
      <4>1. i \in 0 .. n /\ (i # 0 => i - 1 \in 0 .. n)
        BY <3>2
      <4>2. h[i] = g[i] /\ (i # 0 => h[i - 1] = g[i - 1])
        BY <2>2, <4>1
      <4>3. g[i] = IF i = 0 THEN <<<<>>>> ELSE AddPiece(g[i - 1], s[i], separator)
        BY <2>3, <4>1
      <4> QED
        BY <4>2, <4>3
    <3> QED
      BY <3>1, <3>2
  <2>7. Good(n + 1, h)
    BY <2>5, <2>6
  <2> HIDE DEF Good
  <2> QED
    BY <2>7
<1>3. Nat \subseteq S
  <2> HIDE DEF S
  <2> QED
    BY <1>1, <1>2, Induction
<1>4. Len(s) \in Nat
  OBVIOUS
<1> QED
  BY <1>3, <1>4 DEF Splits

\* Split is its last value.
LEMMA SplitValue ==
    ASSUME NEW Y, NEW s \in Seq(Y), NEW separator
    PROVE  \E g : Splits(g, s, separator) /\ Split(s, separator) = g[Len(s)]
<1> DEFINE g == CHOOSE g : Splits(g, s, separator)
<1>1. Splits(g, s, separator)
  BY SplitsExists
<1>2. Split(s, separator) = g[Len(s)]
  BY DEF Split, Splits
<1> QED
  BY <1>1, <1>2

\* Nothing is one part, which is empty.
LEMMA SplitEmpty ==
    ASSUME NEW separator
    PROVE  Split(<<>>, separator) = <<<<>>>>
<1>1. <<>> \in Seq({}) /\ Len(<<>>) = 0
  OBVIOUS
<1>2. PICK g : Splits(g, <<>>, separator) /\ Split(<<>>, separator) = g[Len(<<>>)]
  BY <1>1, SplitValue
<1>3. g[0] = <<<<>>>>
  BY <1>1, <1>2, SplitsAt
<1> QED
  BY <1>1, <1>2, <1>3

\* Split goes on from the parts it has: a text may be split piece by piece.
LEMMA SplitAppend ==
    ASSUME NEW X, NEW text \in Seq(X), NEW piece \in X, NEW separator
    PROVE  Split(Append(text, piece), separator) = AddPiece(Split(text, separator), piece, separator)
<1>1. PICK n \in Nat : n = Len(text)
  OBVIOUS
<1>2. PICK t : t = Append(text, piece)
  OBVIOUS
<1>3. /\ t \in Seq(X) /\ Len(t) = n + 1 /\ t[n + 1] = piece
      /\ \A i \in 1 .. n : text[i] = t[i]
  BY <1>1, <1>2, AppendProperties
<1>4. PICK g : Splits(g, text, separator) /\ Split(text, separator) = g[n]
  BY <1>1, SplitValue
<1>5. PICK h : Splits(h, t, separator) /\ Split(t, separator) = h[n + 1]
  BY <1>3, SplitValue
<1>6. n <= Len(text) /\ n <= Len(t) /\ n + 1 <= Len(t) /\ n + 1 # 0 /\ n + 1 - 1 = n
      /\ n + 1 \in Nat /\ Len(t) \in Nat
  BY <1>1, <1>3
<1>7. g[n] = h[n]
  BY <1>3, <1>4, <1>5, <1>6, SplitsOnce
<1>8. h[n + 1] = AddPiece(h[n + 1 - 1], t[n + 1], separator)
  BY <1>5, <1>6, SplitsAt
<1> QED
  BY <1>2, <1>3, <1>4, <1>5, <1>6, <1>7, <1>8

-----------------------------------------------------------------------------
\* Line ends: UnixLines, piece by piece.

\* The last piece of a text.
EndsIn(text, piece) == text # <<>> /\ text[Len(text)] = piece

\* A longer sequence, its front and its last member.
LEMMA FrontFacts ==
    ASSUME NEW X, NEW s \in Seq(X), NEW x \in X
    PROVE  /\ Append(s, x) \in Seq(X) /\ Append(s, x) # <<>>
           /\ Front(Append(s, x)) = s /\ Last(Append(s, x)) = x
           /\ Len(Append(s, x)) = Len(s) + 1 /\ Append(s, x)[Len(s) + 1] = x
           /\ \A i \in 1 .. Len(s) : Append(s, x)[i] = s[i]
<1>1. PICK t : t = Append(s, x)
  OBVIOUS
<1>2. /\ t \in Seq(X) /\ t # <<>> /\ Len(t) = Len(s) + 1 /\ t[Len(s) + 1] = x
      /\ \A i \in 1 .. Len(s) : t[i] = s[i]
  BY <1>1, AppendProperties
<1>3. SubSeq(t, 1, Len(s)) = s
  <2>1. SubSeq(t, 1, Len(s)) \in Seq(X) /\ Len(SubSeq(t, 1, Len(s))) = Len(s)
        /\ \A i \in 1 .. Len(s) : SubSeq(t, 1, Len(s))[i] = s[i]
    BY <1>2
  <2> QED
    BY <2>1, SeqEqual
<1>4. Len(t) - 1 = Len(s)
  BY <1>2
<1> QED
  BY <1>1, <1>2, <1>3, <1>4 DEF Front, Last

\* A sequence is its front and its last member.
LEMMA FrontLast ==
    ASSUME NEW X, NEW s \in Seq(X), s # <<>>
    PROVE  Front(s) \in Seq(X) /\ Last(s) \in X /\ s = Append(Front(s), Last(s))
<1>1. PICK t \in Seq(X), x \in X : s = Append(t, x)
  BY SequenceEmptyOrAppend
<1>2. Front(s) = t /\ Last(s) = x
  BY <1>1, FrontFacts
<1> QED
  BY <1>1, <1>2

\* The pieces that UnixLines keeps, position by position.
KeptPieces(text) ==
    [i \in DOMAIN text |-> IF ~(text[i] = CR /\ i < Len(text) /\ text[i + 1] = LF)
                           THEN <<text[i]>> ELSE <<>>]

\* UnixLines by these pieces.
LEMMA UnixLinesKept ==
    ASSUME NEW text
    PROVE  UnixLines(text) = FlattenSeq(KeptPieces(text))
  BY DEF UnixLines, Selected, KeptPieces

\* Which pieces are kept, and of which type they are.
LEMMA KeptFacts ==
    ASSUME NEW X, NEW text \in Seq(X)
    PROVE  /\ KeptPieces(text) \in Seq(Seq(X)) /\ Len(KeptPieces(text)) = Len(text)
           /\ \A i \in 1 .. Len(text) :
                 KeptPieces(text)[i] = IF ~(text[i] = CR /\ i < Len(text) /\ text[i + 1] = LF)
                                       THEN <<text[i]>> ELSE <<>>
<1>1. PICK n \in Nat : n = Len(text) /\ DOMAIN text = 1 .. n
  OBVIOUS
<1>2. \A i \in 1 .. n : text[i] \in X
  BY <1>1
<1>3. PICK Y : Y = Seq(X)
  OBVIOUS
<1>4. \A i \in 1 .. n : <<text[i]>> \in Y /\ <<>> \in Y
  BY <1>2, <1>3
<1>5. \A i \in 1 .. n : KeptPieces(text)[i] = IF ~(text[i] = CR /\ i < Len(text) /\ text[i + 1] = LF)
                                             THEN <<text[i]>> ELSE <<>>
  BY <1>1 DEF KeptPieces
<1>6. KeptPieces(text) \in [1 .. n -> Y]
  BY <1>1, <1>4 DEF KeptPieces
<1>7. KeptPieces(text) \in Seq(Y) /\ Len(KeptPieces(text)) = n
  BY <1>6
<1> QED
  BY <1>1, <1>3, <1>5, <1>7

\* One more piece keeps the earlier ones, unless a line feed follows a carriage return.
LEMMA KeptAppend ==
    ASSUME NEW X, NEW text \in Seq(X), NEW c \in X
    PROVE  /\ ~(c = LF /\ EndsIn(text, CR)) =>
                 KeptPieces(Append(text, c)) = Append(KeptPieces(text), <<c>>)
           /\ c = CR /\ LF \in X =>
                 KeptPieces(Append(Append(text, c), LF))
                    = Append(Append(KeptPieces(text), <<>>), <<LF>>)
<1>1. PICK Y : Y = Seq(X)
  OBVIOUS
<1>2. PICK n \in Nat : n = Len(text)
  OBVIOUS
<1>3. PICK t : t = Append(text, c)
  OBVIOUS
<1>4. /\ t \in Seq(X) /\ Len(t) = n + 1 /\ t[n + 1] = c
      /\ \A i \in 1 .. n : t[i] = text[i]
  BY <1>2, <1>3, FrontFacts
<1>5. PICK k : k = KeptPieces(text)
  OBVIOUS
<1>6. /\ k \in Seq(Y) /\ Len(k) = n /\ <<>> \in Y /\ <<c>> \in Y
      /\ \A i \in 1 .. n : k[i] = IF ~(text[i] = CR /\ i < n /\ text[i + 1] = LF)
                                  THEN <<text[i]>> ELSE <<>>
  BY <1>1, <1>2, <1>5, KeptFacts
<1>7. PICK m : m = KeptPieces(t)
  OBVIOUS
<1>8. /\ m \in Seq(Y) /\ Len(m) = n + 1
      /\ \A i \in 1 .. n + 1 : m[i] = IF ~(t[i] = CR /\ i < n + 1 /\ t[i + 1] = LF)
                                      THEN <<t[i]>> ELSE <<>>
  BY <1>1, <1>4, <1>7, KeptFacts
<1>9. ASSUME ~(c = LF /\ EndsIn(text, CR)) PROVE m = Append(k, <<c>>)
  <2>1. PICK p : p = Append(k, <<c>>)
    OBVIOUS
  <2>2. /\ p \in Seq(Y) /\ Len(p) = n + 1 /\ p[n + 1] = <<c>>
        /\ \A i \in 1 .. n : p[i] = k[i]
    BY <1>6, <2>1, FrontFacts
  <2>3. m[n + 1] = <<c>>
    BY <1>4, <1>8
  <2>4. ASSUME NEW i \in 1 .. n PROVE m[i] = k[i]
    <3>1. i < n => i + 1 \in 1 .. n
      OBVIOUS
    <3>2. i = n => text # <<>> /\ i = Len(text)
      BY <1>2
    <3>3. i = n => ~(text[i] = CR /\ c = LF)
      BY <1>9, <3>2 DEF EndsIn
    <3>4. t[i] = text[i] /\ (i < n => t[i + 1] = text[i + 1]) /\ (i = n => t[i + 1] = c)
      BY <1>4, <3>1
    <3>5. m[i] = IF ~(t[i] = CR /\ i < n + 1 /\ t[i + 1] = LF) THEN <<t[i]>> ELSE <<>>
      BY <1>8
    <3>6. k[i] = IF ~(text[i] = CR /\ i < n /\ text[i + 1] = LF) THEN <<text[i]>> ELSE <<>>
      BY <1>6
    <3> QED
      BY <3>3, <3>4, <3>5, <3>6
  <2>5. \A i \in 1 .. n + 1 : m[i] = p[i]
    BY <2>2, <2>3, <2>4
  <2> QED
    BY <1>8, <2>1, <2>2, <2>5, SeqEqual
<1>10. ASSUME c = CR, LF \in X
       PROVE  KeptPieces(Append(t, LF)) = Append(Append(k, <<>>), <<LF>>)
  <2>1. PICK u : u = Append(t, LF)
    OBVIOUS
  <2>2. /\ u \in Seq(X) /\ Len(u) = n + 2 /\ u[n + 2] = LF /\ u[n + 1] = CR
        /\ \A i \in 1 .. n : u[i] = text[i]
    <3>1. u \in Seq(X) /\ Len(u) = n + 1 + 1 /\ u[n + 1 + 1] = LF /\ \A i \in 1 .. n + 1 : u[i] = t[i]
      BY <1>4, <1>10, <2>1, FrontFacts
    <3> QED
      BY <1>4, <1>10, <3>1
  <2>3. PICK q : q = KeptPieces(u)
    OBVIOUS
  <2>4. /\ q \in Seq(Y) /\ Len(q) = n + 2
        /\ \A i \in 1 .. n + 2 : q[i] = IF ~(u[i] = CR /\ i < n + 2 /\ u[i + 1] = LF)
                                        THEN <<u[i]>> ELSE <<>>
    BY <1>1, <2>2, <2>3, KeptFacts
  <2>5. PICK p : p = Append(Append(k, <<>>), <<LF>>)
    OBVIOUS
  <2>6. <<LF>> \in Y
    BY <1>1, <1>10
  <2>7. /\ p \in Seq(Y) /\ Len(p) = n + 2 /\ p[n + 2] = <<LF>> /\ p[n + 1] = <<>>
        /\ \A i \in 1 .. n : p[i] = k[i]
    <3>1. PICK w : w = Append(k, <<>>)
      OBVIOUS
    <3>2. w \in Seq(Y) /\ Len(w) = n + 1 /\ w[n + 1] = <<>> /\ \A i \in 1 .. n : w[i] = k[i]
      BY <1>6, <3>1, FrontFacts
    <3>3. p \in Seq(Y) /\ Len(p) = n + 1 + 1 /\ p[n + 1 + 1] = <<LF>> /\ \A i \in 1 .. n + 1 : p[i] = w[i]
      BY <2>5, <2>6, <3>1, <3>2, FrontFacts
    <3> QED
      BY <3>2, <3>3
  <2>8. CR # LF
    BY DEF CR, LF
  <2>9. q[n + 2] = <<LF>> /\ q[n + 1] = <<>>
    BY <2>2, <2>4, <2>8
  <2>10. ASSUME NEW i \in 1 .. n PROVE q[i] = k[i]
    <3>1. i < n => i + 1 \in 1 .. n
      OBVIOUS
    <3>2. u[i] = text[i] /\ (i < n => u[i + 1] = text[i + 1]) /\ (i = n => u[i + 1] = CR)
      BY <2>2, <3>1
    <3>3. q[i] = IF ~(u[i] = CR /\ i < n + 2 /\ u[i + 1] = LF) THEN <<u[i]>> ELSE <<>>
      BY <2>4
    <3>4. k[i] = IF ~(text[i] = CR /\ i < n /\ text[i + 1] = LF) THEN <<text[i]>> ELSE <<>>
      BY <1>6
    <3> QED
      BY <2>8, <3>2, <3>3, <3>4
  <2>11. \A i \in 1 .. n + 2 : q[i] = p[i]
    BY <2>7, <2>9, <2>10
  <2> QED
    BY <2>1, <2>3, <2>4, <2>5, <2>7, <2>11, SeqEqual
<1> QED
  BY <1>3, <1>5, <1>7, <1>9, <1>10

\* UnixLines, piece by piece.
LEMMA UnixLinesAppend ==
    ASSUME NEW X, NEW text \in Seq(X), NEW c \in X
    PROVE  /\ UnixLines(<<>>) = <<>>
           /\ UnixLines(text) \in Seq(X)
           /\ ~(c = LF /\ EndsIn(text, CR)) =>
                 UnixLines(Append(text, c)) = Append(UnixLines(text), c)
           /\ c = CR /\ LF \in X =>
                 UnixLines(Append(Append(text, c), LF)) = Append(UnixLines(text), LF)
<1>1. UnixLines(<<>>) = <<>>
  <2>1. KeptPieces(<<>>) = <<>>
    BY DEF KeptPieces
  <2> QED
    BY <2>1, UnixLinesKept DEF FlattenSeq
<1>2. PICK k : k = KeptPieces(text)
  OBVIOUS
<1>3. k \in Seq(Seq(X)) /\ UnixLines(text) = FlattenSeq(k)
  BY <1>2, KeptFacts, UnixLinesKept
<1>4. PICK u : u = UnixLines(text)
  OBVIOUS
<1>5. u \in Seq(X) /\ u = FlattenSeq(k)
  BY <1>3, <1>4, FlattenType
<1>6. ASSUME ~(c = LF /\ EndsIn(text, CR)) PROVE UnixLines(Append(text, c)) = Append(u, c)
  <2>1. UnixLines(Append(text, c)) = FlattenSeq(Append(k, <<c>>))
    BY <1>2, <1>6, KeptAppend, UnixLinesKept
  <2>2. <<c>> \in Seq(X)
    OBVIOUS
  <2>3. FlattenSeq(Append(k, <<c>>)) = u \o <<c>>
    BY <1>3, <1>5, <2>2, FlattenAppend
  <2>4. u \o <<c>> = Append(u, c)
    BY <1>5, AppendIsConcat
  <2> QED
    BY <2>1, <2>3, <2>4
<1>7. ASSUME c = CR, LF \in X PROVE UnixLines(Append(Append(text, c), LF)) = Append(u, LF)
  <2>1. UnixLines(Append(Append(text, c), LF)) = FlattenSeq(Append(Append(k, <<>>), <<LF>>))
    BY <1>2, <1>7, KeptAppend, UnixLinesKept
  <2>2. <<>> \in Seq(X) /\ <<LF>> \in Seq(X)
    BY <1>7
  <2>3. PICK w : w = Append(k, <<>>)
    OBVIOUS
  <2>4. w \in Seq(Seq(X))
    BY <1>3, <2>2, <2>3, FrontFacts
  <2>5. FlattenSeq(w) = u \o <<>> /\ FlattenSeq(Append(w, <<LF>>)) = FlattenSeq(w) \o <<LF>>
    BY <1>3, <1>5, <2>2, <2>3, <2>4, FlattenAppend
  <2>6. u \o <<>> = u /\ u \o <<LF>> = Append(u, LF)
    BY <1>5, <1>7, AppendIsConcat, ConcatEmptySeq
  <2> QED
    BY <2>1, <2>3, <2>5, <2>6
<1> QED
  BY <1>1, <1>4, <1>5, <1>6, <1>7

-----------------------------------------------------------------------------
\* The parser, piece by piece: blocks and lines.

\* When a text that is one piece longer ends in a separator.
LEMMA EndsWithTwo ==
    ASSUME NEW X, NEW o \in Seq(X), NEW c \in X
    PROVE  /\ EndsWith(Append(o, c), <<LF, LF>>) <=> c = LF /\ EndsIn(o, LF)
           /\ EndsWith(Append(o, c), <<LF>>) <=> c = LF
           /\ SubSeq(Append(o, c), 1, Len(Append(o, c)) - 1) = o
           /\ o # <<>> => SubSeq(Append(o, c), 1, Len(Append(o, c)) - 2) = Front(o)
<1>1. PICK n \in Nat : n = Len(o)
  OBVIOUS
<1>2. PICK s : s = Append(o, c)
  OBVIOUS
<1>3. /\ s \in Seq(X) /\ Len(s) = n + 1 /\ s[n + 1] = c
      /\ \A i \in 1 .. n : s[i] = o[i]
  BY <1>1, <1>2, FrontFacts
<1>4. o # <<>> <=> n # 0
  BY <1>1, EmptySeq
<1>5. SubSeq(s, 1, Len(s) - 1) = o
  BY <1>2, FrontFacts DEF Front
<1>6. ASSUME o # <<>> PROVE SubSeq(s, 1, Len(s) - 2) = Front(o)
  <2>1. /\ SubSeq(s, 1, n - 1) \in Seq(X) /\ Len(SubSeq(s, 1, n - 1)) = n - 1
        /\ \A i \in 1 .. n - 1 : SubSeq(s, 1, n - 1)[i] = o[i]
    BY <1>3, <1>4, <1>6
  <2>2. /\ SubSeq(o, 1, n - 1) \in Seq(X) /\ Len(SubSeq(o, 1, n - 1)) = n - 1
        /\ \A i \in 1 .. n - 1 : SubSeq(o, 1, n - 1)[i] = o[i]
    BY <1>1, <1>4, <1>6
  <2>3. SubSeq(s, 1, n - 1) = SubSeq(o, 1, n - 1)
    BY <2>1, <2>2, SeqEqual
  <2>4. Len(s) - 2 = n - 1
    BY <1>3
  <2> QED
    BY <1>1, <2>3, <2>4 DEF Front
<1>7. EndsWith(s, <<LF>>) <=> c = LF
  <2>1. Len(<<LF>>) = 1 /\ Len(s) >= 1 /\ Len(s) - 1 + 1 = n + 1
    BY <1>3
  <2>2. SubSeq(s, n + 1, n + 1) = <<c>>
    <3>1. \A i \in n + 1 .. n + 1 : s[i] \in X
      BY <1>3
    <3>2. /\ SubSeq(s, n + 1, n + 1) \in Seq(X) /\ Len(SubSeq(s, n + 1, n + 1)) = 1
          /\ SubSeq(s, n + 1, n + 1)[1] = c
      BY <1>3, <3>1, SubSeqProperties
    <3>3. <<c>> \in Seq(X) /\ Len(<<c>>) = 1 /\ <<c>>[1] = c
      OBVIOUS
    <3> QED
      <4>1. \A i \in 1 .. 1 : i = 1
        OBVIOUS
      <4> QED
        BY <3>2, <3>3, <4>1, SeqEqual
  <2>3. <<c>> = <<LF>> <=> c = LF
    OBVIOUS
  <2> QED
    BY <1>3, <2>1, <2>2, <2>3 DEF EndsWith
<1>8. EndsWith(s, <<LF, LF>>) <=> c = LF /\ EndsIn(o, LF)
  <2>1. Len(<<LF, LF>>) = 2
    OBVIOUS
  <2>2. CASE n = 0
    BY <1>3, <1>4, <2>1, <2>2 DEF EndsWith, EndsIn
  <2>3. CASE n # 0
    <3>1. Len(s) >= 2 /\ Len(s) - 2 + 1 = n
      BY <1>3, <2>3
    <3>2. SubSeq(s, n, n + 1) = <<o[n], c>>
      <4>1. n \in Nat /\ n >= 1 /\ s[n] = o[n] /\ s[n + 1] = c /\ o[n] \in X
        BY <1>1, <1>3, <2>3
      <4>2. \A i \in n .. n + 1 : s[i] \in X
        BY <1>3, <4>1
      <4>3. /\ SubSeq(s, n, n + 1) \in Seq(X) /\ Len(SubSeq(s, n, n + 1)) = 2
            /\ \A i \in 1 .. 2 : SubSeq(s, n, n + 1)[i] = s[n + i - 1]
        <5>1. n <= n + 1 /\ n + 1 - n + 1 = 2 /\ n \in Int /\ n + 1 \in Int
          OBVIOUS
        <5> QED
          BY <4>2, <5>1, SubSeqProperties
      <4>4. n + 1 - 1 = n /\ n + 2 - 1 = n + 1 /\ 1 \in 1 .. 2 /\ 2 \in 1 .. 2
        OBVIOUS
      <4>5. SubSeq(s, n, n + 1)[1] = o[n] /\ SubSeq(s, n, n + 1)[2] = c
        BY <4>1, <4>3, <4>4
      <4>6. <<o[n], c>> \in Seq(X) /\ Len(<<o[n], c>>) = 2 /\ <<o[n], c>>[1] = o[n] /\ <<o[n], c>>[2] = c
        BY <4>1
      <4>7. \A i \in 1 .. 2 : i = 1 \/ i = 2
        OBVIOUS
      <4> QED
        BY <4>3, <4>5, <4>6, <4>7, SeqEqual
    <3>3. <<o[n], c>> = <<LF, LF>> <=> o[n] = LF /\ c = LF
      OBVIOUS
    <3> QED
      BY <1>1, <1>3, <1>4, <2>1, <2>3, <3>1, <3>2, <3>3 DEF EndsWith, EndsIn
  <2> QED
    BY <2>2, <2>3
<1> QED
  BY <1>2, <1>5, <1>6, <1>7, <1>8

\* The pieces that the upstreams of the scenarios may send.
EventPieces(event) ==
    IF event.type = "data" THEN UNION {{line[k] : k \in DOMAIN line} :
                                       line \in {event.data[j] : j \in DOMAIN event.data}}
                           ELSE {}

\* The pieces of the events of http upstreams.
SentPieces == UNION {UNION {EventPieces(s.events[i]) : i \in DOMAIN s.events} :
                     s \in {t \in Scenarios : t.kind = "http"}}

\* The states between two events of a claude upstream, the chunks it makes of its
\* events, and their pieces.
ApiStates == [blocks : Seq(Nat \cup {None}), toolCallCounter : Nat]

\* The text a cli upstream has sent so far: that of one of its messages.
CliStates(s) == {<<>>} \cup {ExtractAssistantText(s.events[i].blocks) :
                             i \in {j \in DOMAIN s.events : s.events[j].type = "assistant"}}

\* What an api upstream's events are made into, from any state.
ApiResults == UNION {{ApiEvent(state, ApiEvents(s.answer)[i]) : state \in ApiStates, i \in Nat} :
                     s \in {t \in Scenarios : t.kind = "api"}}

\* What a cli upstream's events are made into, from any state.
CliResults == UNION {{CliEvent(state, s.events[i]) : state \in CliStates(s), i \in Nat} :
                     s \in {t \in Scenarios : t.kind = "cli"}}

\* The payloads of the chunks a claude provider enqueues.
MadePieces == {Payload(ErrorChunk)} \cup
              UNION {{Payload(r.chunks[k]) : k \in DOMAIN r.chunks} : r \in ApiResults \cup CliResults}

\* All pieces of text, and texts and sequences of texts over them.
Pieces == {CR, LF, DataMark, CommentMark, Payload(Done)} \cup SentPieces \cup MadePieces

\* Text
Texts == Seq(Pieces)

\* Text that is cut
Cuts == Seq(Texts)

\* The marks and the line ends are pieces.
LEMMA TextFacts ==
    /\ CR \in Pieces /\ LF \in Pieces /\ DataMark \in Pieces /\ CommentMark \in Pieces
    /\ Payload(Done) \in Pieces /\ <<>> \in Texts /\ <<>> \in Cuts
  BY DEF Pieces, Texts, Cuts

\* A text that is one piece longer.
LEMMA TextsClosed ==
    ASSUME NEW text \in Texts, NEW c \in Pieces
    PROVE  /\ Append(text, c) \in Texts /\ Append(text, c) # <<>>
           /\ Front(Append(text, c)) = text /\ Last(Append(text, c)) = c
           /\ EndsIn(text, c) => Front(text) \in Texts /\ text = Append(Front(text), c)
           /\ \A d : EndsIn(Append(text, c), d) <=> d = c
           /\ text \o <<c>> = Append(text, c) /\ text \o <<>> = text /\ <<>> \o text = text
           /\ \A other \in Texts : text \o other \in Texts
                                   /\ other \o Append(text, c) = Append(other \o text, c)
<1> USE DEF Texts
<1>1. /\ Append(text, c) \in Texts /\ Append(text, c) # <<>>
      /\ Front(Append(text, c)) = text /\ Last(Append(text, c)) = c
  BY FrontFacts
<1>2. EndsIn(text, c) => Front(text) \in Texts /\ text = Append(Front(text), c)
  <2>1. text # <<>> => Front(text) \in Texts /\ text = Append(Front(text), Last(text))
    BY FrontLast
  <2> QED
    BY <2>1 DEF EndsIn, Last
<1>3. \A d : EndsIn(Append(text, c), d) <=> d = c
  <2>1. Append(text, c)[Len(Append(text, c))] = c
    BY <1>1 DEF Last
  <2> QED
    BY <1>1, <2>1 DEF EndsIn
<1>4. text \o <<c>> = Append(text, c) /\ text \o <<>> = text /\ <<>> \o text = text
  BY ConcatAppend
<1>5. ASSUME NEW other \in Texts
      PROVE  text \o other \in Texts /\ other \o Append(text, c) = Append(other \o text, c)
  BY ConcatAppend
<1> QED
  BY <1>1, <1>2, <1>3, <1>4, <1>5

\* A sequence of texts that is one text longer.
LEMMA CutsClosed ==
    ASSUME NEW cut \in Cuts, NEW text \in Texts
    PROVE  /\ Append(cut, text) \in Cuts /\ Append(cut, text) # <<>>
           /\ Front(Append(cut, text)) = cut /\ Last(Append(cut, text)) = text
           /\ cut \o <<text>> = Append(cut, text) /\ cut \o <<>> = cut /\ <<>> \o cut = cut
           /\ <<text>> = Append(<<>>, text)
           /\ \A other \in Cuts : /\ cut \o other \in Cuts
                                  /\ other \o Append(cut, text) = Append(other \o cut, text)
<1> USE DEF Cuts
<1>1. /\ Append(cut, text) \in Cuts /\ Append(cut, text) # <<>>
      /\ Front(Append(cut, text)) = cut /\ Last(Append(cut, text)) = text
  BY FrontFacts
<1>2. cut \o <<text>> = Append(cut, text) /\ cut \o <<>> = cut /\ <<>> \o cut = cut
  BY ConcatAppend
<1>3. ASSUME NEW other \in Cuts
      PROVE  cut \o other \in Cuts /\ other \o Append(cut, text) = Append(other \o cut, text)
  BY ConcatAppend
<1>4. <<text>> = Append(<<>>, text)
  OBVIOUS
<1> QED
  BY <1>1, <1>2, <1>3, <1>4

\* What one more piece does to blocks and to lines.
LEMMA AddPieceAppend ==
    ASSUME NEW parts \in Cuts, NEW o \in Texts, NEW c \in Pieces
    PROVE  /\ c = LF /\ EndsIn(o, LF) =>
                 AddPiece(Append(parts, o), c, <<LF, LF>>) = Append(Append(parts, Front(o)), <<>>)
           /\ ~(c = LF /\ EndsIn(o, LF)) =>
                 AddPiece(Append(parts, o), c, <<LF, LF>>) = Append(parts, Append(o, c))
           /\ c = LF => AddPiece(Append(parts, o), c, <<LF>>) = Append(Append(parts, o), <<>>)
           /\ c # LF => AddPiece(Append(parts, o), c, <<LF>>) = Append(parts, Append(o, c))
<1>1. PICK Y : Y = Texts
  OBVIOUS
<1>2. parts \in Seq(Y) /\ o \in Y /\ <<>> \in Y
  BY <1>1, TextFacts DEF Cuts
<1>3. Front(Append(parts, o)) = parts /\ Last(Append(parts, o)) = o
  BY CutsClosed
<1>4. ASSUME NEW y \in Y PROVE parts \o <<y, <<>>>> = Append(Append(parts, y), <<>>)
  BY <1>2
<1>5. Front(o) \in Y \/ o = <<>>
  BY <1>1, FrontLast DEF Texts
<1>6. PICK s : s = Append(o, c)
  OBVIOUS
<1>7. /\ EndsWith(s, <<LF, LF>>) <=> c = LF /\ EndsIn(o, LF)
      /\ EndsWith(s, <<LF>>) <=> c = LF
      /\ SubSeq(s, 1, Len(s) - 1) = o
      /\ o # <<>> => SubSeq(s, 1, Len(s) - 2) = Front(o)
  <2>1. /\ EndsWith(Append(o, c), <<LF, LF>>) <=> c = LF /\ EndsIn(o, LF)
        /\ EndsWith(Append(o, c), <<LF>>) <=> c = LF
        /\ SubSeq(Append(o, c), 1, Len(Append(o, c)) - 1) = o
        /\ o # <<>> => SubSeq(Append(o, c), 1, Len(Append(o, c)) - 2) = Front(o)
    BY EndsWithTwo, Zenon DEF Texts
  <2> QED
    BY <1>6, <2>1
<1>8. Len(<<LF, LF>>) = 2 /\ Len(<<LF>>) = 1
  OBVIOUS
<1>9. AddPiece(Append(parts, o), c, <<LF>>)
         = IF c = LF THEN Append(Append(parts, o), <<>>) ELSE Append(parts, s)
  <2>1. AddPiece(Append(parts, o), c, <<LF>>)
           = IF EndsWith(s, <<LF>>) THEN parts \o <<SubSeq(s, 1, Len(s) - 1), <<>>>>
                                    ELSE Append(parts, s)
    BY <1>3, <1>6, <1>8 DEF AddPiece
  <2> QED
    BY <1>2, <1>4, <1>7, <2>1
<1>10. AddPiece(Append(parts, o), c, <<LF, LF>>)
          = IF c = LF /\ EndsIn(o, LF) THEN Append(Append(parts, Front(o)), <<>>)
                                       ELSE Append(parts, s)
  <2>1. AddPiece(Append(parts, o), c, <<LF, LF>>)
           = IF EndsWith(s, <<LF, LF>>) THEN parts \o <<SubSeq(s, 1, Len(s) - 2), <<>>>>
                                        ELSE Append(parts, s)
    BY <1>3, <1>6, <1>8 DEF AddPiece
  <2>2. CASE c = LF /\ EndsIn(o, LF)
    <3>1. o # <<>>
      BY <2>2 DEF EndsIn
    <3> QED
      BY <1>4, <1>5, <1>7, <2>1, <2>2, <3>1
  <2>3. CASE ~(c = LF /\ EndsIn(o, LF))
    BY <1>7, <2>1, <2>3
  <2> QED
    BY <2>2, <2>3
<1> QED
  BY <1>6, <1>9, <1>10

\* text is cut into the blocks done and an open one; into the lines done and an
\* open one.
CutInto(text, done, open) ==
    text \in Texts /\ done \in Cuts /\ open \in Texts /\ Blocks(text) = Append(done, open)

\* text is cut into the lines done and an open one.
LinesInto(text, done, open) ==
    /\ text \in Texts /\ done \in Cuts /\ open \in Texts
    /\ Split(text, <<LF>>) = Append(done, open)

\* Nothing has no block and no line but the open ones.
LEMMA EmptyCut == CutInto(<<>>, <<>>, <<>>) /\ LinesInto(<<>>, <<>>, <<>>)
<1>1. Blocks(<<>>) = <<<<>>>> /\ Split(<<>>, <<LF>>) = <<<<>>>>
  BY SplitEmpty, Zenon DEF Blocks
<1>2. <<<<>>>> = Append(<<>>, <<>>)
  OBVIOUS
<1> QED
  BY <1>1, <1>2, TextFacts DEF CutInto, LinesInto

\* Blocks, one piece later.
LEMMA CutStep ==
    ASSUME NEW text, NEW done, NEW open, NEW c \in Pieces, CutInto(text, done, open)
    PROVE  IF c = LF /\ EndsIn(open, LF)
           THEN CutInto(Append(text, c), Append(done, Front(open)), <<>>)
           ELSE CutInto(Append(text, c), done, Append(open, c))
<1>1. text \in Texts /\ done \in Cuts /\ open \in Texts /\ Blocks(text) = Append(done, open)
  BY DEF CutInto
<1>2. Append(text, c) \in Texts /\ Append(open, c) \in Texts
  BY <1>1, TextsClosed
<1>3. Blocks(Append(text, c)) = AddPiece(Append(done, open), c, <<LF, LF>>)
  BY <1>1, SplitAppend DEF Blocks, Texts
<1>4. CASE c = LF /\ EndsIn(open, LF)
  <2>1. Front(open) \in Texts
    BY <1>1, <1>4, TextsClosed, Zenon
  <2>2. AddPiece(Append(done, open), c, <<LF, LF>>) = Append(Append(done, Front(open)), <<>>)
    BY <1>1, <1>4, AddPieceAppend, Zenon
  <2> QED
    BY <1>1, <1>2, <1>3, <1>4, <2>1, <2>2, CutsClosed, TextFacts DEF CutInto
<1>5. CASE ~(c = LF /\ EndsIn(open, LF))
  <2>1. AddPiece(Append(done, open), c, <<LF, LF>>) = Append(done, Append(open, c))
    BY <1>1, <1>5, AddPieceAppend, Zenon
  <2>2. CutInto(Append(text, c), done, Append(open, c))
    BY <1>1, <1>2, <1>3, <2>1 DEF CutInto
  <2> QED
    BY <1>5, <2>2
<1> QED
  BY <1>4, <1>5

\* Lines, one piece later.
LEMMA LinesStep ==
    ASSUME NEW text, NEW done, NEW open, NEW c \in Pieces, LinesInto(text, done, open)
    PROVE  IF c = LF THEN LinesInto(Append(text, c), Append(done, open), <<>>)
                     ELSE LinesInto(Append(text, c), done, Append(open, c))
<1>1. /\ text \in Texts /\ done \in Cuts /\ open \in Texts
      /\ Split(text, <<LF>>) = Append(done, open)
  BY DEF LinesInto
<1>2. Append(text, c) \in Texts /\ Append(open, c) \in Texts
  BY <1>1, TextsClosed
<1>3. Split(Append(text, c), <<LF>>) = AddPiece(Append(done, open), c, <<LF>>)
  BY <1>1, SplitAppend DEF Texts
<1>4. CASE c = LF
  <2>1. AddPiece(Append(done, open), c, <<LF>>) = Append(Append(done, open), <<>>)
    BY <1>1, <1>4, AddPieceAppend, Zenon
  <2> QED
    BY <1>1, <1>2, <1>3, <1>4, <2>1, CutsClosed, TextFacts DEF LinesInto
<1>5. CASE c # LF
  <2>1. AddPiece(Append(done, open), c, <<LF>>) = Append(done, Append(open, c))
    BY <1>1, <1>5, AddPieceAppend, Zenon
  <2>2. LinesInto(Append(text, c), done, Append(open, c))
    BY <1>1, <1>2, <1>3, <2>1 DEF LinesInto
  <2> QED
    BY <1>5, <2>2
<1> QED
  BY <1>4, <1>5

\* A text is cut in one way only.
LEMMA CutOnce ==
    ASSUME NEW text, NEW done, NEW open, NEW other, NEW rest,
           \/ CutInto(text, done, open) /\ CutInto(text, other, rest)
           \/ LinesInto(text, done, open) /\ LinesInto(text, other, rest)
    PROVE  done = other /\ open = rest
<1>1. /\ done \in Cuts /\ open \in Texts /\ other \in Cuts /\ rest \in Texts
      /\ Append(done, open) = Append(other, rest)
  BY DEF CutInto, LinesInto
<1>2. /\ Front(Append(done, open)) = done /\ Last(Append(done, open)) = open
      /\ Front(Append(other, rest)) = other /\ Last(Append(other, rest)) = rest
  BY <1>1, CutsClosed
<1> QED
  BY <1>1, <1>2

\* Every text has a last block, and a last line.
LEMMA CutExists ==
    ASSUME NEW text \in Texts
    PROVE  /\ \E done, open : CutInto(text, done, open)
           /\ \E done, open : LinesInto(text, done, open)
<1> DEFINE S == {t \in Texts : /\ \E done, open : CutInto(t, done, open)
                               /\ \E done, open : LinesInto(t, done, open)}
<1>1. <<>> \in S
  BY EmptyCut, TextFacts
<1>2. ASSUME NEW t \in Texts, NEW c \in Pieces, t \in S PROVE Append(t, c) \in S
  <2>1. PICK done, open : CutInto(t, done, open)
    BY <1>2
  <2>2. PICK lines, line : LinesInto(t, lines, line)
    BY <1>2
  <2>3. \E d, o : CutInto(Append(t, c), d, o)
    BY <2>1, CutStep, Zenon
  <2>4. \E d, o : LinesInto(Append(t, c), d, o)
    BY <2>2, LinesStep, Zenon
  <2>5. Append(t, c) \in Texts
    BY TextsClosed
  <2> QED
    BY <2>3, <2>4, <2>5
<1>3. Texts \subseteq S
  <2> HIDE DEF S
  <2>1. Seq(Pieces) \subseteq S
    BY <1>1, <1>2, SeqInduction DEF Texts
  <2> QED
    BY <2>1 DEF Texts
<1> QED
  BY <1>3

\* What the parser has made of the text read so far.
Reads(raw, done, open) == raw \in Texts /\ CutInto(UnixLines(raw), done, open)

\* Marks, line ends and payloads are different pieces.
LEMMA MarksDiffer ==
    /\ CR # LF /\ DataMark # CR /\ DataMark # LF /\ CommentMark # CR /\ CommentMark # LF
    /\ DataMark # CommentMark
    /\ \A v : Payload(v) # CR /\ Payload(v) # LF /\ Payload(v) # DataMark /\ Payload(v) # CommentMark
<1>1. /\ CR # LF /\ DataMark # CR /\ DataMark # LF /\ CommentMark # CR /\ CommentMark # LF
      /\ DataMark # CommentMark
  BY DEF CR, LF, DataMark, CommentMark
<1>2. /\ CR.piece = "cr" /\ LF.piece = "lf" /\ DataMark.piece = "data:" /\ CommentMark.piece = ":"
  BY DEF CR, LF, DataMark, CommentMark
<1>3. \A v : Payload(v).piece = "payload"
  BY DEF Payload
<1> QED
  BY <1>1, <1>2, <1>3

\* UnixLines of a text that is one piece longer.
LEMMA UnixStep ==
    ASSUME NEW raw \in Texts, NEW c \in Pieces
    PROVE  /\ UnixLines(raw) \in Texts /\ UnixLines(<<>>) = <<>>
           /\ ~(c = LF /\ EndsIn(raw, CR)) =>
                 UnixLines(Append(raw, c)) = Append(UnixLines(raw), c)
           /\ c = CR =>
                 UnixLines(Append(Append(raw, c), LF)) = Append(UnixLines(raw), LF)
  BY UnixLinesAppend, TextFacts DEF Texts

\* A carriage return that may yet be taken out is the last piece of the open block.
LEMMA ReadsEnd ==
    ASSUME NEW raw, NEW done, NEW open, Reads(raw, done, open)
    PROVE  /\ EndsIn(raw, CR) <=> EndsIn(open, CR)
           /\ EndsIn(raw, CR) => Reads(Front(raw), done, Front(open))
<1>1. raw \in Texts /\ open \in Texts /\ CutInto(UnixLines(raw), done, open)
  BY DEF Reads, CutInto
<1>2. CASE raw = <<>>
  <2>1. CutInto(<<>>, done, open)
    BY <1>1, <1>2, UnixStep, TextFacts
  <2>2. open = <<>>
    BY <2>1, EmptyCut, CutOnce
  <2> QED
    BY <1>2, <2>2 DEF EndsIn
<1>3. CASE raw # <<>>
  <2>1. PICK w \in Texts, d \in Pieces : raw = Append(w, d)
    BY <1>1, <1>3, FrontLast DEF Texts
  <2>2. EndsIn(raw, CR) <=> d = CR
    BY <2>1, TextsClosed
  <2>3. CASE d = CR
    <3>1. UnixLines(raw) = Append(UnixLines(w), CR) /\ UnixLines(w) \in Texts
      BY <2>1, <2>3, UnixStep, MarksDiffer
    <3>2. PICK done0, open0 : CutInto(UnixLines(w), done0, open0)
      BY <3>1, CutExists
    <3>3. CutInto(UnixLines(raw), done0, Append(open0, CR))
      BY <3>1, <3>2, TextFacts, MarksDiffer, CutStep
    <3>4. done = done0 /\ open = Append(open0, CR)
      BY <1>1, <3>3, CutOnce
    <3>5. open0 \in Texts
      BY <3>2 DEF CutInto
    <3>6. EndsIn(open, CR) /\ Front(open) = open0 /\ Front(raw) = w
      BY <2>1, <2>3, <3>4, <3>5, TextsClosed, TextFacts
    <3> QED
      BY <2>2, <2>3, <3>2, <3>4, <3>6 DEF Reads
  <2>4. CASE d # CR
    <3>1. PICK v \in Texts : UnixLines(raw) = Append(v, d)
      <4>1. CASE ~(d = LF /\ EndsIn(w, CR))
        BY <2>1, <4>1, UnixStep
      <4>2. CASE d = LF /\ EndsIn(w, CR)
        <5>1. Front(w) \in Texts /\ w = Append(Front(w), CR)
          BY <4>2, TextsClosed, TextFacts
        <5>2. UnixLines(Append(Append(Front(w), CR), LF)) = Append(UnixLines(Front(w)), LF)
              /\ UnixLines(Front(w)) \in Texts
          BY <5>1, UnixStep, TextFacts
        <5> QED
          BY <2>1, <4>2, <5>1, <5>2
      <4> QED
        BY <4>1, <4>2
    <3>2. PICK done0, open0 : CutInto(v, done0, open0)
      BY CutExists
    <3>3. CutInto(UnixLines(raw), Append(done0, Front(open0)), <<>>)
          \/ CutInto(UnixLines(raw), done0, Append(open0, d))
      BY <3>1, <3>2, CutStep, Zenon
    <3>4. open = <<>> \/ open = Append(open0, d)
      BY <1>1, <3>3, CutOnce, Zenon
    <3>5. open0 \in Texts
      BY <3>2 DEF CutInto
    <3>6. ~EndsIn(open, CR)
      <4>1. CASE open = <<>>
        BY <4>1 DEF EndsIn
      <4>2. CASE open = Append(open0, d)
        BY <2>4, <3>5, <4>2, TextsClosed
      <4> QED
        BY <3>4, <4>1, <4>2
    <3> QED
      BY <2>2, <2>4, <3>6
  <2> QED
    BY <2>3, <2>4
<1> QED
  BY <1>2, <1>3

\* The text without the carriage return at its end.
WithoutCR(text) == IF EndsIn(text, CR) THEN Front(text) ELSE text

\* One more piece of the raw text.
LEMMA ReadsStep ==
    ASSUME NEW raw, NEW done, NEW open, NEW c \in Pieces, Reads(raw, done, open)
    PROVE  /\ c # LF => Reads(Append(raw, c), done, Append(open, c))
           /\ c = LF /\ EndsIn(WithoutCR(open), LF) =>
                 Reads(Append(raw, c), Append(done, Front(WithoutCR(open))), <<>>)
           /\ c = LF /\ ~EndsIn(WithoutCR(open), LF) =>
                 Reads(Append(raw, c), done, Append(WithoutCR(open), LF))
<1>1. raw \in Texts /\ open \in Texts /\ CutInto(UnixLines(raw), done, open)
  BY DEF Reads, CutInto
<1>2. Append(raw, c) \in Texts
  BY <1>1, TextsClosed
<1>3. ASSUME c # LF PROVE Reads(Append(raw, c), done, Append(open, c))
  <2>1. UnixLines(Append(raw, c)) = Append(UnixLines(raw), c)
    BY <1>1, <1>3, UnixStep
  <2>2. CutInto(Append(UnixLines(raw), c), done, Append(open, c))
    BY <1>1, <1>3, CutStep
  <2> QED
    BY <1>2, <2>1, <2>2 DEF Reads
<1>4. ASSUME c = LF
      PROVE  IF EndsIn(WithoutCR(open), LF)
             THEN Reads(Append(raw, c), Append(done, Front(WithoutCR(open))), <<>>)
             ELSE Reads(Append(raw, c), done, Append(WithoutCR(open), LF))
  <2>1. PICK t : UnixLines(Append(raw, c)) = Append(t, LF) /\ CutInto(t, done, WithoutCR(open))
    <3>1. CASE EndsIn(raw, CR)
      <4>1. EndsIn(open, CR) /\ Reads(Front(raw), done, Front(open))
        BY <3>1, ReadsEnd
      <4>2. Front(raw) \in Texts /\ raw = Append(Front(raw), CR)
        BY <1>1, <3>1, TextsClosed, TextFacts
      <4>3. UnixLines(Append(Append(Front(raw), CR), LF)) = Append(UnixLines(Front(raw)), LF)
        BY <4>2, UnixStep, TextFacts
      <4> QED
        BY <1>4, <4>1, <4>2, <4>3 DEF WithoutCR, Reads
    <3>2. CASE ~EndsIn(raw, CR)
      <4>1. ~EndsIn(open, CR)
        BY <3>2, ReadsEnd
      <4>2. UnixLines(Append(raw, c)) = Append(UnixLines(raw), c)
        BY <1>1, <3>2, UnixStep
      <4> QED
        BY <1>1, <1>4, <4>1, <4>2 DEF WithoutCR
    <3> QED
      BY <3>1, <3>2
  <2>2. IF EndsIn(WithoutCR(open), LF)
        THEN CutInto(Append(t, LF), Append(done, Front(WithoutCR(open))), <<>>)
        ELSE CutInto(Append(t, LF), done, Append(WithoutCR(open), LF))
    BY <2>1, TextFacts, CutStep, Zenon
  <2> QED
    BY <1>2, <2>1, <2>2 DEF Reads
<1> QED
  BY <1>3, <1>4

\* The parser makes one thing of a text.
LEMMA ReadsOnce ==
    ASSUME NEW raw, NEW done, NEW open, NEW other, NEW rest,
           Reads(raw, done, open), Reads(raw, other, rest)
    PROVE  done = other /\ open = rest
  BY CutOnce DEF Reads

\* No carriage return follows another.
Clean(text) == \A i \in 1 .. Len(text) - 1 : ~(text[i] = CR /\ text[i + 1] = CR)

\* A clean text, one piece longer.
LEMMA CleanAppend ==
    ASSUME NEW text \in Texts, NEW c \in Pieces
    PROVE  Clean(Append(text, c)) <=> Clean(text) /\ ~(EndsIn(text, CR) /\ c = CR)
<1>1. PICK n \in Nat : n = Len(text)
  BY DEF Texts
<1>2. PICK t : t = Append(text, c)
  OBVIOUS
<1>3. Len(t) = n + 1 /\ t[n + 1] = c /\ \A i \in 1 .. n : t[i] = text[i]
  BY <1>1, <1>2, FrontFacts DEF Texts
<1>4. EndsIn(text, CR) <=> n # 0 /\ text[n] = CR
  BY <1>1, EmptySeq DEF EndsIn, Texts
<1>5. Clean(t) <=> \A i \in 1 .. n : ~(t[i] = CR /\ t[i + 1] = CR)
  BY <1>3 DEF Clean
<1>6. Clean(text) <=> \A i \in 1 .. n - 1 : ~(text[i] = CR /\ text[i + 1] = CR)
  BY <1>1 DEF Clean
<1>7. \A i \in 1 .. n - 1 : i \in 1 .. n /\ i + 1 \in 1 .. n /\ t[i] = text[i] /\ t[i + 1] = text[i + 1]
  BY <1>3
<1>8. n # 0 => n \in 1 .. n /\ t[n] = text[n]
  BY <1>3
<1>9. \A i \in 1 .. n : i = n \/ i \in 1 .. n - 1
  OBVIOUS
<1> QED
  BY <1>2, <1>3, <1>4, <1>5, <1>6, <1>7, <1>8, <1>9

\* The open block of a clean text is read again as it is, and without the
\* carriage return at its end too.
Settled(open) ==
    /\ Reads(open, <<>>, open)
    /\ EndsIn(open, CR) => Reads(Front(open), <<>>, Front(open)) /\ ~EndsIn(Front(open), CR)

\* At first, nothing has been read.
LEMMA EmptySettled == Reads(<<>>, <<>>, <<>>) /\ Settled(<<>>)
<1>1. Reads(<<>>, <<>>, <<>>)
  BY UnixStep, TextFacts, EmptyCut DEF Reads
<1> QED
  BY <1>1 DEF Settled, EndsIn

\* One piece more of a clean text.
LEMMA SettledStep ==
    ASSUME NEW raw, NEW done, NEW open, NEW c \in Pieces, Reads(raw, done, open), Settled(open),
           ~(EndsIn(raw, CR) /\ c = CR)
    PROVE  \E d, o : Reads(Append(raw, c), d, o) /\ Settled(o)
<1>1. /\ open \in Texts /\ <<>> \in Cuts
      /\ EndsIn(raw, CR) <=> EndsIn(open, CR)
  BY ReadsEnd, TextFacts DEF Reads, CutInto
<1>2. CASE c # LF
  <2>1. Reads(Append(raw, c), done, Append(open, c)) /\ Reads(Append(open, c), <<>>, Append(open, c))
    BY <1>2, ReadsStep DEF Settled
  <2>2. EndsIn(Append(open, c), CR) => c = CR /\ Front(Append(open, c)) = open
    BY <1>1, TextsClosed
  <2>3. Settled(Append(open, c))
    BY <1>1, <2>1, <2>2 DEF Settled
  <2> QED
    BY <2>1, <2>3
<1>3. CASE c = LF /\ EndsIn(WithoutCR(open), LF)
  <2>1. Reads(Append(raw, c), Append(done, Front(WithoutCR(open))), <<>>)
    BY <1>3, ReadsStep
  <2> QED
    BY <2>1, EmptySettled
<1>4. CASE c = LF /\ ~EndsIn(WithoutCR(open), LF)
  <2> DEFINE o == WithoutCR(open)
  <2>1. Reads(Append(raw, c), done, Append(o, LF))
    BY <1>4, ReadsStep
  <2>2. Reads(o, <<>>, o) /\ ~EndsIn(o, CR)
    BY DEF Settled, WithoutCR
  <2>3. o \in Texts /\ WithoutCR(o) = o
    BY <2>2 DEF WithoutCR, Reads
  <2> HIDE DEF o
  <2>4. Reads(Append(o, LF), <<>>, Append(o, LF))
    BY <1>4, <2>2, <2>3, ReadsStep, TextFacts DEF o
  <2>5. ~EndsIn(Append(o, LF), CR)
    <3>1. EndsIn(Append(o, LF), CR) <=> CR = LF
      BY <2>3, TextsClosed, TextFacts, Zenon
    <3> QED
      BY <3>1, MarksDiffer
  <2> QED
    BY <2>1, <2>4, <2>5 DEF Settled
<1> QED
  BY <1>2, <1>3, <1>4

\* The open block of a clean text is settled.
LEMMA CleanIsSettled ==
    ASSUME NEW text \in Texts, Clean(text)
    PROVE  \E done, open : Reads(text, done, open) /\ Settled(open)
<1> DEFINE S == {t \in Texts : Clean(t) => \E done, open : Reads(t, done, open) /\ Settled(open)}
<1>1. <<>> \in S
  BY TextFacts, EmptySettled
<1>2. ASSUME NEW t \in Texts, NEW c \in Pieces, t \in S PROVE Append(t, c) \in S
  <2> SUFFICES ASSUME Clean(Append(t, c))
               PROVE  \E done, open : Reads(Append(t, c), done, open) /\ Settled(open)
    BY TextsClosed
  <2>1. Clean(t) /\ ~(EndsIn(t, CR) /\ c = CR)
    BY CleanAppend
  <2>2. PICK done, open : Reads(t, done, open) /\ Settled(open)
    BY <1>2, <2>1
  <2> QED
    BY <2>1, <2>2, SettledStep
<1>3. Texts \subseteq S
  <2> HIDE DEF S
  <2>1. Seq(Pieces) \subseteq S
    BY <1>1, <1>2, SeqInduction DEF Texts
  <2> QED
    BY <2>1 DEF Texts
<1> QED
  BY <1>3

\* Where the text is cut into reads makes no difference: what is read after some
\* text is read from its open block.
LEMMA ReadsOn ==
    ASSUME NEW raw, NEW done, NEW open, Reads(raw, done, open), Reads(open, <<>>, open),
           NEW text \in Texts
    PROVE  \E more, rest : Reads(open \o text, more, rest) /\ Reads(raw \o text, done \o more, rest)
<1> DEFINE Both(t) == \E more, rest : /\ Reads(open \o t, more, rest)
                                      /\ Reads(raw \o t, done \o more, rest)
           S == {t \in Texts : Both(t)}
<1>1. raw \in Texts /\ done \in Cuts /\ open \in Texts
  BY DEF Reads, CutInto
<1>2. <<>> \in S
  <2>1. raw \o <<>> = raw /\ open \o <<>> = open /\ done \o <<>> = done
    BY <1>1 DEF Texts, Cuts
  <2> QED
    BY <2>1, TextFacts
<1>3. ASSUME NEW t \in Texts, NEW c \in Pieces, t \in S PROVE Append(t, c) \in S
  <2>1. PICK more, rest : Reads(open \o t, more, rest) /\ Reads(raw \o t, done \o more, rest)
    BY <1>3
  <2>2. raw \o Append(t, c) = Append(raw \o t, c) /\ open \o Append(t, c) = Append(open \o t, c)
    BY <1>1, TextsClosed
  <2>3. more \in Cuts /\ rest \in Texts
    BY <2>1 DEF Reads, CutInto
  <2>4. ASSUME NEW y \in Texts PROVE Append(done \o more, y) = done \o Append(more, y)
    <3>1. \A other \in Cuts : other \o Append(more, y) = Append(other \o more, y)
      BY <2>3, CutsClosed
    <3> QED
      BY <1>1, <3>1
  <2>5. Both(Append(t, c))
    <3> HIDE DEF Both
    <3>1. CASE c # LF
      <4>1. /\ Reads(Append(open \o t, c), more, Append(rest, c))
            /\ Reads(Append(raw \o t, c), done \o more, Append(rest, c))
        BY <2>1, <3>1, ReadsStep
      <4> QED
        BY <2>2, <4>1 DEF Both
    <3>2. CASE c = LF /\ EndsIn(WithoutCR(rest), LF)
      <4> DEFINE y == Front(WithoutCR(rest))
      <4>1. /\ Reads(Append(open \o t, c), Append(more, y), <<>>)
            /\ Reads(Append(raw \o t, c), Append(done \o more, y), <<>>)
        BY <2>1, <3>2, ReadsStep
      <4>2. y \in Texts
        <5>1. WithoutCR(rest) \in Texts
          BY <2>3, TextsClosed, TextFacts DEF WithoutCR
        <5> QED
          BY <3>2, <5>1, TextsClosed, TextFacts
      <4> HIDE DEF y
      <4>3. Append(done \o more, y) = done \o Append(more, y)
        BY <2>4, <4>2
      <4> QED
        BY <2>2, <4>1, <4>3 DEF Both
    <3>3. CASE c = LF /\ ~EndsIn(WithoutCR(rest), LF)
      <4>1. /\ Reads(Append(open \o t, c), more, Append(WithoutCR(rest), LF))
            /\ Reads(Append(raw \o t, c), done \o more, Append(WithoutCR(rest), LF))
        BY <2>1, <3>3, ReadsStep
      <4> QED
        BY <2>2, <4>1 DEF Both
    <3> QED
      BY <3>1, <3>2, <3>3
  <2> QED
    BY <2>5, TextsClosed
<1>4. Texts \subseteq S
  <2> HIDE DEF S
  <2>1. Seq(Pieces) \subseteq S
    BY <1>2, <1>3, SeqInduction DEF Texts
  <2> QED
    BY <2>1 DEF Texts
<1> QED
  BY <1>4

-----------------------------------------------------------------------------
\* The events of the blocks.

\* The events a parser may yield.
SentEvents == {DoneEvent, CommentEvent} \cup {DataEvent(data) : data \in Cuts}

\* A line as it is read, and what a block's data lines say.
Trimmed(line) == IF line # <<>> /\ Last(line) = CR THEN Front(line) ELSE line

\* The line begins with this mark.
Begins(line, mark) == line # <<>> /\ line[1] = mark

\* The data of each line.
Said(lines) == [i \in DOMAIN lines |->
                   IF Begins(lines[i], DataMark) THEN <<Tail(lines[i])>> ELSE <<>>]

\* The lines of a block, trimmed.
LEMMA LinesOfBlock ==
    ASSUME NEW block, NEW done, NEW open, LinesInto(block, done, open)
    PROVE  /\ LinesOf(block) = [i \in DOMAIN Append(done, open) |-> Trimmed(Append(done, open)[i])]
           /\ LinesOf(block) \in Cuts
<1>1. PICK lines : lines = Append(done, open)
  OBVIOUS
<1>2. lines \in Cuts /\ Split(block, <<LF>>) = lines
  BY <1>1, CutsClosed DEF LinesInto
<1>3. LinesOf(block) = [i \in DOMAIN lines |-> Trimmed(lines[i])]
  BY <1>2 DEF LinesOf, Trimmed
<1>4. PICK n \in Nat : n = Len(lines) /\ DOMAIN lines = 1 .. n
  BY <1>2 DEF Cuts
<1>5. ASSUME NEW i \in 1 .. n PROVE Trimmed(lines[i]) \in Texts
  <2>1. lines[i] \in Texts
    BY <1>2, <1>4 DEF Cuts
  <2>2. lines[i] # <<>> => Front(lines[i]) \in Texts
    BY <2>1, FrontLast DEF Texts
  <2> QED
    BY <2>1, <2>2 DEF Trimmed
<1>6. LinesOf(block) \in [1 .. n -> Texts]
  BY <1>3, <1>4, <1>5
<1>7. LinesOf(block) \in Cuts
  BY <1>6 DEF Cuts
<1> QED
  BY <1>1, <1>3, <1>7

\* The event of a block by its lines.
LEMMA EventsOfLines ==
    ASSUME NEW block, NEW lines, LinesOf(block) = lines
    PROVE  EventsOf(block)
              = IF FlattenSeq(Said(lines)) # <<>>
                THEN <<IF FlattenSeq(Said(lines)) = <<<<Payload(Done)>>>> THEN DoneEvent
                                                        ELSE DataEvent(FlattenSeq(Said(lines)))>>
                ELSE IF \E i \in DOMAIN lines : Begins(lines[i], CommentMark) THEN <<CommentEvent>>
                ELSE <<>>
  BY DEF EventsOf, Said, Begins

\* The data of lines are texts.
LEMMA SaidType ==
    ASSUME NEW lines \in Cuts
    PROVE  Said(lines) \in Seq(Cuts) /\ FlattenSeq(Said(lines)) \in Cuts
<1>1. PICK n \in Nat : n = Len(lines) /\ DOMAIN lines = 1 .. n
  BY DEF Cuts
<1>2. ASSUME NEW i \in 1 .. n, Begins(lines[i], DataMark) PROVE <<Tail(lines[i])>> \in Cuts
  <2>1. lines[i] \in Texts /\ lines[i] # <<>>
    BY <1>1, <1>2 DEF Begins, Cuts
  <2>2. Tail(lines[i]) \in Texts
    BY <2>1 DEF Texts
  <2> QED
    BY <2>2 DEF Cuts
<1>3. Said(lines) \in [1 .. n -> Cuts]
  BY <1>1, <1>2, TextFacts DEF Said
<1>4. Said(lines) \in Seq(Cuts)
  BY <1>3
<1> QED
  BY <1>4, FlattenType DEF Cuts

\* A block tells events.
LEMMA EventsOfType ==
    ASSUME NEW block \in Texts
    PROVE  EventsOf(block) \in Seq(SentEvents)
<1>1. PICK done, open : LinesInto(block, done, open)
  BY CutExists
<1>2. LinesOf(block) \in Cuts
  BY <1>1, LinesOfBlock
<1>3. PICK data : data = FlattenSeq(Said(LinesOf(block)))
  OBVIOUS
<1>4. data \in Cuts
  BY <1>2, <1>3, SaidType
<1>5. EventsOf(block) = <<DoneEvent>> \/ EventsOf(block) = <<DataEvent(data)>>
      \/ EventsOf(block) = <<CommentEvent>> \/ EventsOf(block) = <<>>
  BY <1>3, EventsOfLines
<1>6. DoneEvent \in SentEvents /\ DataEvent(data) \in SentEvents /\ CommentEvent \in SentEvents
  BY <1>4 DEF SentEvents
<1>7. <<>> \in Seq(SentEvents) /\ \A event \in SentEvents : <<event>> \in Seq(SentEvents)
  OBVIOUS
<1> QED
  BY <1>5, <1>6, <1>7, Zenon

\* The events of a sequence of blocks.
EventsIn(blocks) == FlattenSeq([i \in 1 .. Len(blocks) |-> EventsOf(blocks[i])])

\* So do the blocks of a sequence.
LEMMA EventsInBlocks ==
    ASSUME NEW blocks \in Cuts
    PROVE  /\ [i \in 1 .. Len(blocks) |-> EventsOf(blocks[i])] \in Seq(Seq(SentEvents))
           /\ EventsIn(blocks) \in Seq(SentEvents)
<1>1. \A i \in 1 .. Len(blocks) : EventsOf(blocks[i]) \in Seq(SentEvents)
  BY EventsOfType DEF Cuts
<1>2. PICK n \in Nat : n = Len(blocks)
  BY DEF Cuts
<1>3. PICK Y : Y = Seq(SentEvents)
  OBVIOUS
<1>4. [i \in 1 .. n |-> EventsOf(blocks[i])] \in [1 .. n -> Y]
  BY <1>1, <1>2, <1>3
<1>5. [i \in 1 .. n |-> EventsOf(blocks[i])] \in Seq(Y)
  BY <1>4
<1>6. [i \in 1 .. Len(blocks) |-> EventsOf(blocks[i])] \in Seq(Seq(SentEvents))
  BY <1>2, <1>3, <1>5
<1> QED
  BY <1>6, FlattenType DEF EventsIn

\* The events of one more block come after the others.
LEMMA EventsInAppend ==
    ASSUME NEW blocks \in Cuts, NEW block \in Texts
    PROVE  /\ EventsIn(<<>>) = <<>>
           /\ EventsIn(Append(blocks, block)) = EventsIn(blocks) \o EventsOf(block)
<1>1. EventsIn(<<>>) = <<>>
  <2>1. [i \in 1 .. Len(<<>>) |-> EventsOf(<<>>[i])] = <<>>
    OBVIOUS
  <2> QED
    BY <2>1 DEF EventsIn, FlattenSeq
<1>2. PICK n \in Nat : n = Len(blocks)
  BY DEF Cuts
<1>3. PICK longer : longer = Append(blocks, block)
  OBVIOUS
<1>4. /\ longer \in Cuts /\ Len(longer) = n + 1 /\ longer[n + 1] = block
      /\ \A i \in 1 .. n : longer[i] = blocks[i]
  BY <1>2, <1>3, FrontFacts DEF Cuts
<1>5. PICK Y : Y = Seq(SentEvents)
  OBVIOUS
<1>6. PICK s : s = [i \in 1 .. n |-> EventsOf(blocks[i])]
  OBVIOUS
<1>7. s \in Seq(Y) /\ Len(s) = n /\ EventsOf(block) \in Y
  BY <1>2, <1>5, <1>6, EventsInBlocks, EventsOfType
<1>8. PICK t : t = [i \in 1 .. n + 1 |-> EventsOf(longer[i])]
  OBVIOUS
<1>9. t \in Seq(Y) /\ Len(t) = n + 1
  BY <1>4, <1>5, <1>8, EventsInBlocks
<1>10. t = Append(s, EventsOf(block))
  <2>1. PICK u : u = Append(s, EventsOf(block))
    OBVIOUS
  <2>2. /\ u \in Seq(Y) /\ Len(u) = n + 1 /\ u[n + 1] = EventsOf(block)
        /\ \A i \in 1 .. n : u[i] = s[i]
    BY <1>7, <2>1, FrontFacts
  <2>3. \A i \in 1 .. n + 1 : t[i] = u[i]
    BY <1>4, <1>6, <1>8, <2>2
  <2> QED
    BY <1>9, <2>1, <2>2, <2>3, SeqEqual
<1>11. FlattenSeq(Append(s, EventsOf(block))) = FlattenSeq(s) \o EventsOf(block)
  BY <1>5, <1>7, FlattenAppend
<1>12. EventsIn(longer) = FlattenSeq(t) /\ EventsIn(blocks) = FlattenSeq(s)
  BY <1>2, <1>4, <1>6, <1>8 DEF EventsIn
<1> QED
  BY <1>1, <1>3, <1>10, <1>11, <1>12

\* The events of two sequences of blocks, one after the other.
LEMMA EventsInConcat ==
    ASSUME NEW first \in Cuts, NEW second \in Cuts
    PROVE  EventsIn(first \o second) = EventsIn(first) \o EventsIn(second)
<1> DEFINE Joins(b) == EventsIn(first \o b) = EventsIn(first) \o EventsIn(b)
           S == {b \in Cuts : Joins(b)}
<1>1. <<>> \in S
  <2>1. EventsIn(first) \in Seq(SentEvents) /\ EventsIn(<<>>) = <<>> /\ first \o <<>> = first
    BY EventsInBlocks, EventsInAppend, TextFacts, CutsClosed
  <2> QED
    BY <2>1, TextFacts
<1>2. ASSUME NEW b \in Cuts, NEW block \in Texts, b \in S PROVE Append(b, block) \in S
  <2>1. first \o Append(b, block) = Append(first \o b, block) /\ first \o b \in Cuts
    BY DEF Cuts
  <2>2. EventsIn(Append(first \o b, block)) = EventsIn(first \o b) \o EventsOf(block)
    BY <2>1, EventsInAppend
  <2>3. EventsIn(Append(b, block)) = EventsIn(b) \o EventsOf(block)
    BY EventsInAppend
  <2>4. /\ EventsIn(first) \in Seq(SentEvents) /\ EventsIn(b) \in Seq(SentEvents)
        /\ EventsOf(block) \in Seq(SentEvents)
    BY EventsInBlocks, EventsOfType
  <2>5. (EventsIn(first) \o EventsIn(b)) \o EventsOf(block)
           = EventsIn(first) \o (EventsIn(b) \o EventsOf(block))
    BY <2>4, ConcatAssociative
  <2>6. Joins(Append(b, block))
    BY <1>2, <2>1, <2>2, <2>3, <2>5
  <2> HIDE DEF Joins
  <2> QED
    BY <2>6, CutsClosed
<1>3. Cuts \subseteq S
  <2> HIDE DEF S
  <2>1. Seq(Texts) \subseteq S
    BY <1>1, <1>2, SeqInduction DEF Cuts
  <2> QED
    BY <2>1 DEF Cuts
<1> QED
  BY <1>3

\* Pushing text on an unread buffer yields the events of the blocks done, and leaves open.
Pushes(unread, text, done, open) ==
    Push(unread, text) = [events |-> EventsIn(done), buffer |-> open]

\* SSEParser.push() returns the events of the blocks that are complete and keeps
\* the open one.
LEMMA PushReads ==
    ASSUME NEW unread, NEW text, NEW done, NEW open, Reads(unread \o text, done, open)
    PROVE  Pushes(unread, text, done, open)
<1>1. PICK blocks : blocks = Append(done, open)
  OBVIOUS
<1>2. done \in Cuts /\ open \in Texts /\ Blocks(UnixLines(unread \o text)) = blocks
  BY <1>1 DEF Reads, CutInto
<1>3. PICK n \in Nat : n = Len(done)
  BY <1>2 DEF Cuts
<1>4. /\ Len(blocks) = n + 1 /\ Last(blocks) = open
      /\ \A i \in 1 .. n : blocks[i] = done[i]
  BY <1>1, <1>2, <1>3, FrontFacts DEF Cuts
<1>5. Len(blocks) - 1 = n
  BY <1>4
<1>6. [i \in 1 .. n |-> EventsOf(blocks[i])] = [i \in 1 .. n |-> EventsOf(done[i])]
  BY <1>4
<1>7. Push(unread, text) = [events |-> FlattenSeq([i \in 1 .. n |-> EventsOf(blocks[i])]),
                            buffer |-> open]
  BY <1>2, <1>4, <1>5 DEF Push
<1> QED
  BY <1>3, <1>6, <1>7 DEF EventsIn, Pushes

-----------------------------------------------------------------------------
\* What is sent, read back: lines, events, streams.

\* Text within a line, the lines of events, and the ends of lines.
PlainPieces == Pieces \ {CR, LF}

\* Text within a line.
PlainTexts == Seq(PlainPieces)

\* Lines that are not empty.
Lines == PlainTexts \ {<<>>}

\* The ends of lines.
LineEnds == {<<LF>>, <<CR, LF>>}

\* Plain text is text without line ends.
LEMMA PlainFacts ==
    /\ PlainTexts \subseteq Texts /\ LineEnds \subseteq Texts
    /\ <<>> \in PlainTexts /\ DataMark \in PlainPieces /\ CommentMark \in PlainPieces
    /\ Payload(Done) \in PlainPieces
    /\ \A c \in PlainPieces : c \in Pieces /\ c # CR /\ c # LF
<1>1. PlainPieces \subseteq Pieces
  BY DEF PlainPieces
<1>2. PlainTexts \subseteq Texts
  BY <1>1 DEF PlainTexts, Texts
<1>3. LineEnds \subseteq Texts
  BY TextFacts DEF LineEnds, Texts
<1>4. DataMark \in PlainPieces /\ CommentMark \in PlainPieces /\ Payload(Done) \in PlainPieces
  BY TextFacts, MarksDiffer DEF PlainPieces
<1> QED
  BY <1>1, <1>2, <1>3, <1>4 DEF PlainPieces, PlainTexts

\* A line does not end in a carriage return or a line feed.
LEMMA LineEnding ==
    ASSUME NEW text \in Texts, NEW line \in Lines
    PROVE  /\ text \o line \in Texts
           /\ ~EndsIn(text \o line, CR) /\ ~EndsIn(text \o line, LF)
           /\ Trimmed(line) = line
<1>1. PICK l \in PlainTexts, c \in PlainPieces : line = Append(l, c)
  <2>1. line \in Seq(PlainPieces) /\ line # <<>>
    BY DEF Lines, PlainTexts
  <2> QED
    BY <2>1, FrontLast DEF PlainTexts
<1>2. l \in Texts /\ c \in Pieces /\ c # CR /\ c # LF
  BY PlainFacts
<1>3. text \o line = Append(text \o l, c) /\ text \o l \in Texts
  <2>1. \A other \in Texts : other \o Append(l, c) = Append(other \o l, c)
    BY <1>2, TextsClosed
  <2>2. text \o l \in Texts
    BY <1>2 DEF Texts
  <2> QED
    BY <1>1, <2>1, <2>2
<1>4. \A d : EndsIn(Append(text \o l, c), d) <=> d = c
  BY <1>2, <1>3, TextsClosed
<1>5. Append(text \o l, c) \in Texts /\ Last(line) = c
  BY <1>1, <1>2, <1>3, TextsClosed
<1>6. ~EndsIn(Append(text \o l, c), CR) /\ ~EndsIn(Append(text \o l, c), LF)
  BY <1>2, <1>4
<1> QED
  BY <1>2, <1>3, <1>5, <1>6 DEF Trimmed

\* Text within a line leaves blocks and lines open.
LEMMA PlainRead ==
    ASSUME NEW raw, NEW done, NEW open, Reads(raw, done, open), NEW text \in PlainTexts
    PROVE  Reads(raw \o text, done, open \o text)
<1> DEFINE Goes(t) == Reads(raw \o t, done, open \o t)
           S == {t \in PlainTexts : Goes(t)}
<1>1. raw \in Texts /\ open \in Texts
  BY DEF Reads, CutInto
<1>2. <<>> \in S
  <2>1. raw \o <<>> = raw /\ open \o <<>> = open
    BY <1>1 DEF Texts
  <2> QED
    BY <2>1, PlainFacts
<1>3. ASSUME NEW t \in PlainTexts, NEW c \in PlainPieces, t \in S PROVE Append(t, c) \in S
  <2>1. t \in Texts /\ c \in Pieces /\ c # LF
    BY PlainFacts
  <2>2. raw \o Append(t, c) = Append(raw \o t, c) /\ open \o Append(t, c) = Append(open \o t, c)
    BY <1>1, <2>1, TextsClosed
  <2>3. Reads(Append(raw \o t, c), done, Append(open \o t, c))
    BY <1>3, <2>1, ReadsStep
  <2>4. Goes(Append(t, c))
    BY <2>2, <2>3
  <2>5. Append(t, c) \in PlainTexts
    BY DEF PlainTexts
  <2> HIDE DEF Goes
  <2> QED
    BY <2>4, <2>5
<1>4. PlainTexts \subseteq S
  <2> HIDE DEF S
  <2>1. Seq(PlainPieces) \subseteq S
    BY <1>2, <1>3, SeqInduction DEF PlainTexts
  <2> QED
    BY <2>1 DEF PlainTexts
<1> QED
  BY <1>4

\* Text within a line, to its line.
LEMMA PlainLine ==
    ASSUME NEW raw, NEW done, NEW open, LinesInto(raw, done, open), NEW text \in PlainTexts
    PROVE  LinesInto(raw \o text, done, open \o text)
<1> DEFINE Goes(t) == LinesInto(raw \o t, done, open \o t)
           S == {t \in PlainTexts : Goes(t)}
<1>1. raw \in Texts /\ open \in Texts
  BY DEF LinesInto
<1>2. <<>> \in S
  <2>1. raw \o <<>> = raw /\ open \o <<>> = open
    BY <1>1 DEF Texts
  <2> QED
    BY <2>1, PlainFacts
<1>3. ASSUME NEW t \in PlainTexts, NEW c \in PlainPieces, t \in S PROVE Append(t, c) \in S
  <2>1. t \in Texts /\ c \in Pieces /\ c # LF
    BY PlainFacts
  <2>2. raw \o Append(t, c) = Append(raw \o t, c) /\ open \o Append(t, c) = Append(open \o t, c)
    BY <1>1, <2>1, TextsClosed
  <2>3. LinesInto(Append(raw \o t, c), done, Append(open \o t, c))
    BY <1>3, <2>1, LinesStep
  <2>4. Goes(Append(t, c))
    BY <2>2, <2>3
  <2>5. Append(t, c) \in PlainTexts
    BY DEF PlainTexts
  <2> HIDE DEF Goes
  <2> QED
    BY <2>4, <2>5
<1>4. PlainTexts \subseteq S
  <2> HIDE DEF S
  <2>1. Seq(PlainPieces) \subseteq S
    BY <1>2, <1>3, SeqInduction DEF PlainTexts
  <2> QED
    BY <2>1 DEF PlainTexts
<1> QED
  BY <1>4

\* A sequence of two, built up.
LEMMA TwoPieces ==
    ASSUME NEW X, NEW x \in X, NEW y \in X
    PROVE  Append(<<x>>, y) = <<x, y>>
<1>1. PICK t : t = Append(<<x>>, y)
  OBVIOUS
<1>2. t \in Seq(X) /\ Len(t) = 2 /\ t[1] = x /\ t[2] = y
  <2>1. PICK s : s = <<x>>
    OBVIOUS
  <2>2. s \in Seq(X) /\ Len(s) = 1 /\ s[1] = x
    BY <2>1
  <2> QED
    BY <1>1, <2>1, <2>2
<1>3. PICK u : u = <<x, y>>
  OBVIOUS
<1>4. u \in Seq(X) /\ Len(u) = 2 /\ u[1] = x /\ u[2] = y
  BY <1>3
<1>5. \A i \in 1 .. 2 : i = 1 \/ i = 2
  OBVIOUS
<1>6. t = u
  BY <1>2, <1>4, <1>5, SeqEqual
<1> QED
  BY <1>1, <1>3, <1>6

\* A carriage return and a line feed, put after a text.
LEMMA CRLF ==
    ASSUME NEW raw \in Texts
    PROVE  raw \o <<CR, LF>> = Append(Append(raw, CR), LF)
<1>1. <<CR>> \in Texts /\ <<LF>> \in Texts /\ <<CR>> \o <<LF>> = <<CR, LF>>
  <2>1. <<CR>> \in Texts /\ <<LF>> \in Texts
    BY TextFacts DEF Texts
  <2>2. <<CR>> \o <<LF>> = Append(<<CR>>, LF)
    BY <2>1, TextsClosed, TextFacts
  <2>3. Append(<<CR>>, LF) = <<CR, LF>>
    BY TwoPieces, TextFacts
  <2> QED
    BY <2>1, <2>2, <2>3
<1>2. raw \o (<<CR>> \o <<LF>>) = (raw \o <<CR>>) \o <<LF>>
  BY <1>1, ConcatAssociative DEF Texts
<1>3. raw \o <<CR>> = Append(raw, CR) /\ Append(raw, CR) \in Texts
  BY TextsClosed, TextFacts
<1>4. Append(raw, CR) \o <<LF>> = Append(Append(raw, CR), LF)
  BY <1>3, TextsClosed, TextFacts
<1> QED
  BY <1>1, <1>2, <1>3, <1>4

\* Either end of a line ends it, and ends the block after an empty line.
LEMMA LineEndRead ==
    ASSUME NEW raw, NEW done, NEW open, Reads(raw, done, open), ~EndsIn(open, CR),
           NEW eol \in LineEnds
    PROVE  IF EndsIn(open, LF) THEN Reads(raw \o eol, Append(done, Front(open)), <<>>)
                               ELSE Reads(raw \o eol, done, Append(open, LF))
<1>1. raw \in Texts /\ open \in Texts
  BY DEF Reads, CutInto
<1>2. CASE eol = <<LF>>
  <2>1. raw \o eol = Append(raw, LF) /\ WithoutCR(open) = open
    BY <1>1, <1>2, TextsClosed, TextFacts DEF WithoutCR
  <2> QED
    BY <2>1, ReadsStep, TextFacts
<1>3. CASE eol = <<CR, LF>>
  <2>1. raw \o eol = Append(Append(raw, CR), LF)
    BY <1>1, <1>3, CRLF
  <2>2. Reads(Append(raw, CR), done, Append(open, CR))
    BY ReadsStep, TextFacts, MarksDiffer
  <2>3. WithoutCR(Append(open, CR)) = open
    BY <1>1, TextsClosed, TextFacts DEF WithoutCR
  <2> QED
    BY <2>1, <2>2, <2>3, ReadsStep, TextFacts
<1> QED
  BY <1>2, <1>3 DEF LineEnds

\* Lines as they are sent, each with its end.
WithEnd(line, eol) == line \o eol

\* Every line with its end.
WithEnds(lines, eol) == [i \in DOMAIN lines |-> WithEnd(lines[i], eol)]

\* The text of all of them.
Sent(lines, eol) == FlattenSeq(WithEnds(lines, eol))

\* The text of one more line.
LEMMA SentAppend ==
    ASSUME NEW lines \in Cuts, NEW line \in Texts, NEW eol \in LineEnds
    PROVE  /\ Sent(<<>>, eol) = <<>> /\ Sent(lines, eol) \in Texts
           /\ Sent(Append(lines, line), eol) = Sent(lines, eol) \o (line \o eol)
<1>1. PICK longer : longer = Append(lines, line)
  OBVIOUS
<1>2. PICK n \in Nat : n = Len(lines) /\ DOMAIN lines = 1 .. n
  BY DEF Cuts
<1>3. /\ longer \in Cuts /\ Len(longer) = n + 1 /\ longer[n + 1] = line
      /\ \A i \in 1 .. n : longer[i] = lines[i]
  BY <1>1, <1>2, FrontFacts DEF Cuts
<1>4. DOMAIN longer = 1 .. n + 1
  BY <1>3 DEF Cuts
<1>5. eol \in Texts
  BY PlainFacts
<1>6. ASSUME NEW text \in Texts PROVE WithEnd(text, eol) \in Texts
  BY <1>5 DEF Texts, WithEnd
<1>7. PICK s : s = WithEnds(lines, eol)
  OBVIOUS
<1>8. s \in Cuts /\ Len(s) = n /\ \A i \in 1 .. n : s[i] = WithEnd(lines[i], eol)
  <2>1. \A i \in 1 .. n : lines[i] \in Texts
    BY <1>2 DEF Cuts
  <2>2. s \in [1 .. n -> Texts] /\ \A i \in 1 .. n : s[i] = WithEnd(lines[i], eol)
    BY <1>2, <1>6, <1>7, <2>1 DEF WithEnds
  <2> QED
    BY <2>2 DEF Cuts
<1>9. PICK t : t = WithEnds(longer, eol)
  OBVIOUS
<1>10. t \in Cuts /\ Len(t) = n + 1 /\ \A i \in 1 .. n + 1 : t[i] = WithEnd(longer[i], eol)
  <2>1. \A i \in 1 .. n + 1 : longer[i] \in Texts
    BY <1>3, <1>4 DEF Cuts
  <2>2. t \in [1 .. n + 1 -> Texts] /\ \A i \in 1 .. n + 1 : t[i] = WithEnd(longer[i], eol)
    BY <1>4, <1>6, <1>9, <2>1 DEF WithEnds
  <2> QED
    BY <2>2 DEF Cuts
<1>11. PICK u : u = Append(s, WithEnd(line, eol))
  OBVIOUS
<1>12. /\ u \in Cuts /\ Len(u) = n + 1 /\ u[n + 1] = WithEnd(line, eol)
       /\ \A i \in 1 .. n : u[i] = s[i]
  BY <1>6, <1>8, <1>11, FrontFacts DEF Cuts
<1>13. t = u
  <2>1. \A i \in 1 .. n + 1 : t[i] = u[i]
    <3>1. t[n + 1] = u[n + 1]
      BY <1>3, <1>10, <1>12
    <3>2. \A i \in 1 .. n : i \in 1 .. n + 1 /\ t[i] = u[i]
      BY <1>3, <1>8, <1>10, <1>12
    <3>3. \A i \in 1 .. n + 1 : i \in 1 .. n \/ i = n + 1
      OBVIOUS
    <3> QED
      BY <3>1, <3>2, <3>3
  <2> QED
    BY <1>10, <1>12, <2>1, SeqEqual DEF Cuts
<1>14. FlattenSeq(s) \in Texts /\ FlattenSeq(u) = FlattenSeq(s) \o (WithEnd(line, eol))
  BY <1>6, <1>8, <1>11, FlattenType, FlattenAppend DEF Cuts, Texts
<1>15. Sent(<<>>, eol) = <<>>
  <2>1. WithEnds(<<>>, eol) = <<>>
    BY DEF WithEnds
  <2> QED
    BY <2>1 DEF Sent, FlattenSeq
<1> QED
  BY <1>1, <1>7, <1>9, <1>13, <1>14, <1>15 DEF Sent, WithEnd

\* What has been made of the lines of an event before the empty line.
LEMMA LinesRead ==
    ASSUME NEW eol \in LineEnds
    PROVE  \A lines \in Seq(Lines) :
              \E open : /\ Reads(Sent(lines, eol), <<>>, open) /\ LinesInto(open, lines, <<>>)
                        /\ ~EndsIn(open, CR) /\ (lines # <<>> => EndsIn(open, LF))
<1> DEFINE Goes(lines, open) ==
              /\ Reads(Sent(lines, eol), <<>>, open) /\ LinesInto(open, lines, <<>>)
              /\ ~EndsIn(open, CR) /\ (lines # <<>> => EndsIn(open, LF))
           S == {lines \in Seq(Lines) : \E open : Goes(lines, open)}
<1>1. <<>> \in S
  <2>1. Sent(<<>>, eol) = <<>>
    BY SentAppend, TextFacts
  <2>2. Goes(<<>>, <<>>)
    BY <2>1, EmptySettled, EmptyCut DEF EndsIn
  <2> QED
    BY <2>2
<1>2. ASSUME NEW lines \in Seq(Lines), NEW line \in Lines, lines \in S PROVE Append(lines, line) \in S
  <2>1. PICK open : Goes(lines, open)
    BY <1>2
  <2>2. line \in PlainTexts /\ line \in Texts /\ lines \in Cuts /\ open \in Texts
        /\ eol \in Texts
    <3>1. line \in PlainTexts
      BY DEF Lines
    <3> QED
      BY <2>1, <3>1, PlainFacts DEF LinesInto
  <2>3. /\ Reads(Sent(lines, eol) \o line, <<>>, open \o line)
        /\ LinesInto(open \o line, lines, <<>> \o line)
    BY <2>1, <2>2, PlainRead, PlainLine
  <2>4. PICK o : o = open \o line
    OBVIOUS
  <2>5. o \in Texts /\ ~EndsIn(o, CR) /\ ~EndsIn(o, LF)
    BY <2>2, <2>4, LineEnding
  <2>6. Reads((Sent(lines, eol) \o line) \o eol, <<>>, Append(o, LF))
    BY <2>3, <2>4, <2>5, LineEndRead
  <2>7. LinesInto(Append(o, LF), Append(lines, line), <<>>)
    <3>1. <<>> \o line = line
      BY <2>2 DEF Texts
    <3> QED
      BY <2>3, <2>4, <3>1, LinesStep, TextFacts
  <2>8. Sent(Append(lines, line), eol) = (Sent(lines, eol) \o line) \o eol
    <3>1. PICK sent \in Texts : sent = Sent(lines, eol)
      BY <2>2, SentAppend
    <3>2. sent \o (line \o eol) = (sent \o line) \o eol
      <4>1. sent \in Seq(Pieces) /\ line \in Seq(Pieces) /\ eol \in Seq(Pieces)
        BY <2>2, <3>1 DEF Texts
      <4>2. \A u \in Seq(Pieces), v \in Seq(Pieces), w \in Seq(Pieces) : (u \o v) \o w = u \o (v \o w)
        BY ConcatAssociative
      <4> QED
        BY <4>1, <4>2, Zenon
    <3> QED
      BY <2>2, <3>1, <3>2, SentAppend
  <2>9. EndsIn(Append(o, LF), LF) /\ ~EndsIn(Append(o, LF), CR)
    <3>1. \A d : EndsIn(Append(o, LF), d) <=> d = LF
      BY <2>5, TextsClosed, TextFacts
    <3> QED
      BY <3>1, MarksDiffer
  <2>10. Goes(Append(lines, line), Append(o, LF))
    BY <2>6, <2>7, <2>8, <2>9
  <2>11. Append(lines, line) \in Seq(Lines)
    OBVIOUS
  <2> HIDE DEF Goes
  <2> QED
    BY <2>10, <2>11
<1>3. Seq(Lines) \subseteq S
  <2> HIDE DEF S
  <2> QED
    BY <1>1, <1>2, SeqInduction
<1> QED
  BY <1>3

\* What one line says.
SaidBy(line) == IF Begins(line, DataMark) THEN <<Tail(line)>> ELSE <<>>

\* The data of one more line come after the others.
LEMMA SaidAppend ==
    ASSUME NEW lines \in Cuts, NEW line \in Texts
    PROVE  /\ SaidBy(line) \in Cuts
           /\ Said(Append(lines, line)) = Append(Said(lines), SaidBy(line))
           /\ FlattenSeq(Said(Append(lines, line))) = FlattenSeq(Said(lines)) \o SaidBy(line)
<1>1. PICK longer : longer = Append(lines, line)
  OBVIOUS
<1>2. PICK n \in Nat : n = Len(lines) /\ DOMAIN lines = 1 .. n
  BY DEF Cuts
<1>3. /\ longer \in Cuts /\ Len(longer) = n + 1 /\ longer[n + 1] = line
      /\ \A i \in 1 .. n : longer[i] = lines[i]
  BY <1>1, <1>2, FrontFacts DEF Cuts
<1>4. DOMAIN longer = 1 .. n + 1
  BY <1>3 DEF Cuts
<1>5. SaidBy(line) \in Cuts
  <2>1. Begins(line, DataMark) => Tail(line) \in Texts
    BY DEF Begins, Texts
  <2> QED
    BY <2>1, TextFacts DEF SaidBy, Cuts
<1>6. PICK s : s = Said(lines)
  OBVIOUS
<1>7. s \in Seq(Cuts) /\ Len(s) = n /\ \A i \in 1 .. n : s[i] = SaidBy(lines[i])
  <2>1. s = [i \in 1 .. n |-> SaidBy(lines[i])]
    BY <1>2, <1>6 DEF Said, SaidBy
  <2>2. s \in Seq(Cuts)
    BY <1>2, <1>6, SaidType
  <2> QED
    BY <1>2, <2>1, <2>2
<1>8. PICK t : t = Said(longer)
  OBVIOUS
<1>9. t \in Seq(Cuts) /\ Len(t) = n + 1 /\ \A i \in 1 .. n + 1 : t[i] = SaidBy(longer[i])
  <2>1. t = [i \in 1 .. n + 1 |-> SaidBy(longer[i])]
    BY <1>4, <1>8 DEF Said, SaidBy
  <2>2. t \in Seq(Cuts)
    BY <1>3, <1>4, <1>8, SaidType
  <2> QED
    BY <1>2, <2>1, <2>2
<1>10. PICK u : u = Append(s, SaidBy(line))
  OBVIOUS
<1>11. /\ u \in Seq(Cuts) /\ Len(u) = n + 1 /\ u[n + 1] = SaidBy(line)
       /\ \A i \in 1 .. n : u[i] = s[i]
  BY <1>5, <1>7, <1>10, FrontFacts
<1>12. t = u
  <2>1. \A i \in 1 .. n + 1 : i \in 1 .. n \/ i = n + 1
    OBVIOUS
  <2>2. \A i \in 1 .. n : i \in 1 .. n + 1 /\ t[i] = u[i]
    BY <1>3, <1>7, <1>9, <1>11
  <2>3. t[n + 1] = u[n + 1]
    BY <1>3, <1>9, <1>11
  <2>4. \A i \in 1 .. n + 1 : t[i] = u[i]
    BY <2>1, <2>2, <2>3
  <2> QED
    BY <1>9, <1>11, <2>4, SeqEqual
<1>13. FlattenSeq(u) = FlattenSeq(s) \o SaidBy(line)
  BY <1>5, <1>7, <1>10, FlattenAppend DEF Cuts
<1> QED
  BY <1>1, <1>5, <1>6, <1>8, <1>10, <1>12, <1>13

\* A block tells the same whether its last line has been ended or not.
LEMMA TailTells ==
    ASSUME NEW lines \in Seq(Lines), lines # <<>>,
           NEW block, NEW done, NEW last, LinesInto(block, done, last), Append(done, last) = lines,
           NEW tail, LinesInto(tail, lines, <<>>)
    PROVE  /\ LinesOf(block) = lines
           /\ EventsOf(tail) = EventsOf(block)
<1>1. lines \in Cuts
  BY PlainFacts DEF Lines, Cuts
<1>2. PICK n \in Nat : n = Len(lines) /\ DOMAIN lines = 1 .. n
  OBVIOUS
<1>3. \A i \in 1 .. n : lines[i] \in Lines /\ Trimmed(lines[i]) = lines[i]
  BY <1>2, LineEnding, TextFacts
<1>4. LinesOf(block) = lines
  <2>1. LinesOf(block) = [i \in 1 .. n |-> Trimmed(lines[i])]
    BY <1>2, LinesOfBlock
  <2>2. lines = [i \in 1 .. n |-> lines[i]]
    BY <1>2
  <2> QED
    BY <1>3, <2>1, <2>2
<1>5. LinesOf(tail) = Append(lines, <<>>)
  <2>1. PICK longer : longer = Append(lines, <<>>)
    OBVIOUS
  <2>2. /\ longer \in Cuts /\ Len(longer) = n + 1 /\ longer[n + 1] = <<>>
        /\ \A i \in 1 .. n : longer[i] = lines[i]
    BY <1>1, <1>2, <2>1, FrontFacts, TextFacts DEF Cuts
  <2>3. DOMAIN longer = 1 .. n + 1 /\ longer = [i \in 1 .. n + 1 |-> longer[i]]
    BY <2>2 DEF Cuts
  <2>4. \A i \in 1 .. n + 1 : Trimmed(longer[i]) = longer[i]
    <3>1. Trimmed(<<>>) = <<>>
      BY DEF Trimmed
    <3>2. \A i \in 1 .. n + 1 : i \in 1 .. n \/ i = n + 1
      OBVIOUS
    <3> QED
      BY <1>3, <2>2, <3>1, <3>2
  <2>5. LinesOf(tail) = [i \in 1 .. n + 1 |-> Trimmed(longer[i])]
    BY <2>1, <2>3, LinesOfBlock
  <2> QED
    BY <2>1, <2>3, <2>4, <2>5
<1>6. FlattenSeq(Said(Append(lines, <<>>))) = FlattenSeq(Said(lines))
  <2>1. SaidBy(<<>>) = <<>>
    BY DEF SaidBy, Begins
  <2>2. FlattenSeq(Said(lines)) \in Cuts
    BY <1>1, SaidType
  <2>3. FlattenSeq(Said(lines)) \o <<>> = FlattenSeq(Said(lines))
    BY <2>2 DEF Cuts
  <2> QED
    BY <1>1, <2>1, <2>3, SaidAppend, TextFacts
<1>7. (\E i \in DOMAIN Append(lines, <<>>) : Begins(Append(lines, <<>>)[i], CommentMark))
         <=> \E i \in DOMAIN lines : Begins(lines[i], CommentMark)
  <2>1. PICK longer : longer = Append(lines, <<>>)
    OBVIOUS
  <2>2. /\ longer \in Cuts /\ Len(longer) = n + 1 /\ longer[n + 1] = <<>>
        /\ \A i \in 1 .. n : longer[i] = lines[i]
    BY <1>1, <1>2, <2>1, FrontFacts, TextFacts DEF Cuts
  <2>3. DOMAIN longer = 1 .. n + 1
    BY <2>2 DEF Cuts
  <2>4. ~Begins(<<>>, CommentMark)
    BY DEF Begins
  <2>5. \A i \in 1 .. n + 1 : i \in 1 .. n \/ i = n + 1
    OBVIOUS
  <2>6. \A i \in 1 .. n : i \in 1 .. n + 1
    OBVIOUS
  <2>7. (\E i \in DOMAIN longer : Begins(longer[i], CommentMark))
           <=> \E i \in DOMAIN lines : Begins(lines[i], CommentMark)
    BY <1>2, <2>2, <2>3, <2>4, <2>5, <2>6
  <2> QED
    BY <2>1, <2>7
<1>8. EventsOf(tail) = EventsOf(block)
  <2>1. PICK longer : longer = Append(lines, <<>>)
    OBVIOUS
  <2> QED
    BY <1>4, <1>5, <1>6, <1>7, <2>1, EventsOfLines
<1> QED
  BY <1>4, <1>8

\* The events an upstream sends, and their lines.
Data == Seq(PlainTexts) \ {<<>>, <<<<Payload(Done)>>>>}

\* The events an upstream sends.
UpstreamEvents == {DoneEvent, CommentEvent} \cup {DataEvent(data) : data \in Data}

\* The data of an event as lines.
Marked(data) == [j \in DOMAIN data |-> <<DataMark>> \o data[j]]

\* One more line of data.
LEMMA MarkedAppend ==
    ASSUME NEW data \in Seq(PlainTexts), NEW text \in PlainTexts
    PROVE  /\ Marked(data) \in Seq(Lines)
           /\ Marked(Append(data, text)) = Append(Marked(data), <<DataMark>> \o text)
           /\ <<DataMark>> \o text \in Lines
           /\ SaidBy(<<DataMark>> \o text) = <<text>>
<1>1. ASSUME NEW t \in PlainTexts
      PROVE  /\ <<DataMark>> \o t \in Lines
             /\ SaidBy(<<DataMark>> \o t) = <<t>>
  <2>1. PICK m \in PlainPieces : m = DataMark
    BY PlainFacts
  <2>2. PICK u : u = <<m>> \o t
    OBVIOUS
  <2>3. u \in Seq(PlainPieces) /\ Len(u) = Len(t) + 1 /\ u[1] = m /\ u # <<>>
        /\ \A i \in 1 .. Len(t) : u[i + 1] = t[i]
    BY <2>2 DEF PlainTexts
  <2>4. Tail(u) = t
    <3>1. /\ Tail(u) \in Seq(PlainPieces) /\ Len(Tail(u)) = Len(t)
          /\ \A i \in 1 .. Len(t) : Tail(u)[i] = u[i + 1]
      BY <2>3
    <3> QED
      BY <2>3, <3>1, SeqEqual DEF PlainTexts
  <2> QED
    BY <2>1, <2>2, <2>3, <2>4 DEF Lines, PlainTexts, SaidBy, Begins
<1>2. PICK n \in Nat : n = Len(data) /\ DOMAIN data = 1 .. n
  OBVIOUS
<1>3. PICK longer : longer = Append(data, text)
  OBVIOUS
<1>4. /\ longer \in Seq(PlainTexts) /\ Len(longer) = n + 1 /\ longer[n + 1] = text
      /\ \A i \in 1 .. n : longer[i] = data[i]
  BY <1>2, <1>3, FrontFacts
<1>5. DOMAIN longer = 1 .. n + 1
  BY <1>4
<1> DEFINE Mark(t) == <<DataMark>> \o t
<1>6. \A t \in PlainTexts : Mark(t) \in Lines
  BY <1>1
<1>7. PICK s : s = Marked(data)
  OBVIOUS
<1>8. PICK t : t = Marked(longer)
  OBVIOUS
<1>9. s = [j \in 1 .. n |-> Mark(data[j])] /\ t = [j \in 1 .. n + 1 |-> Mark(longer[j])]
  BY <1>2, <1>5, <1>7, <1>8 DEF Marked
<1> HIDE DEF Mark
<1>10. /\ s \in Seq(Lines) /\ Len(s) = n /\ \A i \in 1 .. n : s[i] = Mark(data[i])
       /\ t \in Seq(Lines) /\ Len(t) = n + 1 /\ \A i \in 1 .. n + 1 : t[i] = Mark(longer[i])
  <2>1. s \in [1 .. n -> Lines] /\ t \in [1 .. n + 1 -> Lines]
    BY <1>2, <1>4, <1>6, <1>9
  <2> QED
    BY <1>9, <2>1
<1>11. PICK u : u = Append(s, Mark(text))
  OBVIOUS
<1>12. /\ u \in Seq(Lines) /\ Len(u) = n + 1 /\ u[n + 1] = Mark(text)
       /\ \A i \in 1 .. n : u[i] = s[i]
  BY <1>6, <1>10, <1>11, FrontFacts
<1>13. t = u
  <2>1. \A i \in 1 .. n + 1 : i \in 1 .. n \/ i = n + 1
    OBVIOUS
  <2>2. \A i \in 1 .. n : i \in 1 .. n + 1 /\ t[i] = u[i]
    BY <1>4, <1>10, <1>12
  <2>3. t[n + 1] = u[n + 1]
    BY <1>4, <1>10, <1>12
  <2>4. \A i \in 1 .. n + 1 : t[i] = u[i]
    BY <2>1, <2>2, <2>3
  <2> QED
    BY <1>10, <1>12, <2>4, SeqEqual
<1> QED
  BY <1>1, <1>3, <1>7, <1>8, <1>10, <1>11, <1>13 DEF Mark

\* The data of an event is what its lines say.
LEMMA MarkedSays ==
    ASSUME NEW data \in Seq(PlainTexts)
    PROVE  FlattenSeq(Said(Marked(data))) = data
<1> DEFINE Says(d) == FlattenSeq(Said(Marked(d))) = d
           S == {d \in Seq(PlainTexts) : Says(d)}
<1>1. <<>> \in S
  <2>1. Marked(<<>>) = <<>>
    BY DEF Marked
  <2>2. Said(<<>>) = <<>>
    BY DEF Said
  <2>3. Says(<<>>)
    BY <2>1, <2>2 DEF FlattenSeq
  <2> HIDE DEF Says
  <2> QED
    BY <2>3
<1>2. ASSUME NEW d \in Seq(PlainTexts), NEW text \in PlainTexts, d \in S PROVE Append(d, text) \in S
  <2>1. PICK m : m = Marked(d)
    OBVIOUS
  <2>2. PICK line : line = <<DataMark>> \o text
    OBVIOUS
  <2>3. /\ m \in Seq(Lines) /\ line \in Lines
        /\ Marked(Append(d, text)) = Append(m, line) /\ SaidBy(line) = <<text>>
    BY <2>1, <2>2, MarkedAppend
  <2>4. m \in Cuts /\ line \in Texts
    BY <2>3, PlainFacts DEF Lines, Cuts
  <2>5. FlattenSeq(Said(Append(m, line))) = FlattenSeq(Said(m)) \o <<text>>
    BY <2>3, <2>4, SaidAppend
  <2>6. FlattenSeq(Said(m)) = d
    BY <1>2, <2>1
  <2>7. d \o <<text>> = Append(d, text)
    BY ConcatAppend
  <2>8. Says(Append(d, text)) /\ Append(d, text) \in Seq(PlainTexts)
    BY <2>3, <2>5, <2>6, <2>7
  <2> HIDE DEF Says
  <2> QED
    BY <2>8
<1>3. Seq(PlainTexts) \subseteq S
  <2> HIDE DEF S
  <2> QED
    BY <1>1, <1>2, SeqInduction
<1> QED
  BY <1>3

\* The data of the done event.
DoneData == <<<<Payload(Done)>>>>

\* The lines of an event.
LinesSent(event) ==
    IF event.type = "data" THEN Marked(event.data)
    ELSE IF event.type = "done" THEN Marked(DoneData)
    ELSE <<<<CommentMark>>>>

\* Events by their types.
LEMMA EventTypes ==
    /\ \A data : DataEvent(data).type = "data" /\ DataEvent(data).data = data
    /\ DoneEvent.type = "done" /\ CommentEvent.type = "comment"
  BY DEF DataEvent, DoneEvent, CommentEvent

\* The line of the done event.
LEMMA DoneFacts ==
    /\ DoneData \in Seq(PlainTexts) /\ <<Payload(Done)>> \in PlainTexts
    /\ DoneData = Append(<<>>, <<Payload(Done)>>) /\ Marked(<<>>) = <<>>
    /\ <<CommentMark>> \in Lines /\ <<<<CommentMark>>>> = Append(<<>>, <<CommentMark>>)
    /\ <<CommentMark>> \in Texts
<1>1. <<Payload(Done)>> \in PlainTexts /\ <<CommentMark>> \in PlainTexts /\ <<CommentMark>> # <<>>
  BY PlainFacts DEF PlainTexts
<1>2. PICK t : t = <<Payload(Done)>>
  OBVIOUS
<1>3. <<t>> \in Seq(PlainTexts) /\ <<t>> = Append(<<>>, t)
  BY <1>1, <1>2
<1>4. PICK u : u = <<CommentMark>>
  OBVIOUS
<1>5. <<u>> = Append(<<>>, u)
  OBVIOUS
<1>6. Marked(<<>>) = <<>>
  BY DEF Marked
<1> QED
  BY <1>1, <1>2, <1>3, <1>4, <1>5, <1>6, PlainFacts DEF DoneData, Lines

\* Every event has a line, and none is empty.
LEMMA LinesSentFacts ==
    ASSUME NEW event \in UpstreamEvents
    PROVE  LinesSent(event) \in Seq(Lines) /\ LinesSent(event) # <<>>
<1>1. ASSUME NEW data \in Seq(PlainTexts), data # <<>>
      PROVE  Marked(data) \in Seq(Lines) /\ Marked(data) # <<>>
  <2>1. PICK d \in Seq(PlainTexts), text \in PlainTexts : data = Append(d, text)
    BY <1>1, FrontLast
  <2>2. Marked(d) \in Seq(Lines) /\ <<DataMark>> \o text \in Lines
        /\ Marked(data) = Append(Marked(d), <<DataMark>> \o text)
    BY <2>1, MarkedAppend
  <2>3. PICK m, line : m = Marked(d) /\ line = <<DataMark>> \o text
    OBVIOUS
  <2>4. Append(m, line) \in Seq(Lines) /\ Append(m, line) # <<>>
    BY <2>2, <2>3, FrontFacts
  <2> QED
    BY <2>2, <2>3, <2>4
<1>2. CASE event = DoneEvent
  <2>1. DoneData # <<>>
    BY DEF DoneData
  <2>2. LinesSent(event) = Marked(DoneData)
    BY <1>2, EventTypes DEF LinesSent
  <2> QED
    BY <1>1, <2>1, <2>2, DoneFacts
<1>3. CASE event = CommentEvent
  <2>1. LinesSent(event) = <<<<CommentMark>>>>
    BY <1>3, EventTypes DEF LinesSent
  <2>2. PICK u \in Lines : u = <<CommentMark>>
    BY DoneFacts
  <2>3. <<u>> \in Seq(Lines) /\ <<u>> # <<>>
    OBVIOUS
  <2> QED
    BY <2>1, <2>2, <2>3
<1>4. CASE event \in {DataEvent(data) : data \in Data}
  <2>1. PICK data \in Data : event = DataEvent(data)
    BY <1>4
  <2>2. data \in Seq(PlainTexts) /\ data # <<>> /\ LinesSent(event) = Marked(data)
    BY <2>1, EventTypes DEF LinesSent, Data
  <2> QED
    BY <1>1, <2>2
<1> QED
  BY <1>2, <1>3, <1>4 DEF UpstreamEvents

\* serializeEvent() writes the lines of the event and an empty one.
LEMMA SerializeLines ==
    ASSUME NEW event \in UpstreamEvents, NEW eol \in LineEnds
    PROVE  Serialize(event, eol) = Sent(LinesSent(event), eol) \o eol
<1>1. eol \in Texts
  BY PlainFacts
<1>2. CASE event = DoneEvent
  <2>1. Serialize(event, eol) = (<<DataMark>> \o <<Payload(Done)>> \o eol) \o eol
    BY <1>2, EventTypes DEF Serialize
  <2>2. PICK line \in Lines : line = <<DataMark>> \o <<Payload(Done)>>
    BY DoneFacts, MarkedAppend
  <2>3. Marked(DoneData) = Append(<<>>, line)
    <3>1. PICK d \in Seq(PlainTexts) : d = <<>>
      <4>1. <<>> \in Seq(PlainTexts)
        OBVIOUS
      <4> QED
        BY <4>1, Zenon
    <3>2. Marked(Append(d, <<Payload(Done)>>)) = Append(Marked(d), <<DataMark>> \o <<Payload(Done)>>)
      BY DoneFacts, MarkedAppend, Zenon
    <3> QED
      BY <2>2, <3>1, <3>2, DoneFacts
  <2>4. line \in Texts
    BY PlainFacts DEF Lines
  <2>5. Sent(Marked(DoneData), eol) = <<>> \o (line \o eol)
    BY <2>3, <2>4, SentAppend, TextFacts
  <2>6. <<>> \o (line \o eol) = line \o eol
    BY <1>1, <2>4 DEF Texts
  <2>7. LinesSent(event) = Marked(DoneData)
    BY <1>2, EventTypes DEF LinesSent
  <2> QED
    BY <2>1, <2>2, <2>5, <2>6, <2>7
<1>3. CASE event = CommentEvent
  <2>1. Serialize(event, eol) = <<CommentMark>> \o eol \o eol
    BY <1>3, EventTypes DEF Serialize
  <2>2. Sent(<<<<CommentMark>>>>, eol) = <<>> \o (<<CommentMark>> \o eol)
    <3>1. Sent(Append(<<>>, <<CommentMark>>), eol) = Sent(<<>>, eol) \o (<<CommentMark>> \o eol)
      BY DoneFacts, SentAppend, TextFacts, Zenon
    <3>2. Sent(<<>>, eol) = <<>>
      BY DoneFacts, SentAppend, TextFacts
    <3> QED
      BY <3>1, <3>2, DoneFacts
  <2>3. PICK t \in Texts : t = <<CommentMark>>
    BY DoneFacts
  <2>4. <<>> \o (t \o eol) = t \o eol
    BY <1>1 DEF Texts
  <2>5. LinesSent(event) = <<<<CommentMark>>>>
    BY <1>3, EventTypes DEF LinesSent
  <2> QED
    BY <2>1, <2>2, <2>3, <2>4, <2>5
<1>4. CASE event \in {DataEvent(data) : data \in Data}
  <2>1. PICK data \in Data : event = DataEvent(data)
    BY <1>4
  <2>2. data \in Seq(PlainTexts) /\ LinesSent(event) = Marked(data)
    BY <2>1, EventTypes DEF LinesSent, Data
  <2>3. Serialize(event, eol)
           = FlattenSeq([i \in DOMAIN data |-> <<DataMark>> \o data[i] \o eol]) \o eol
    BY <2>1, EventTypes DEF Serialize
  <2>4. [i \in DOMAIN data |-> <<DataMark>> \o data[i] \o eol] = WithEnds(Marked(data), eol)
    BY DEF WithEnds, WithEnd, Marked
  <2> QED
    BY <2>2, <2>3, <2>4 DEF Sent
<1> QED
  BY <1>2, <1>3, <1>4 DEF UpstreamEvents

\* A block of the lines of an event is parsed as this event.
LEMMA LinesTell ==
    ASSUME NEW event \in UpstreamEvents, NEW block, LinesOf(block) = LinesSent(event)
    PROVE  EventsOf(block) = <<event>>
<1>1. CASE event = DoneEvent
  <2>1. LinesOf(block) = Marked(DoneData) /\ FlattenSeq(Said(Marked(DoneData))) = DoneData
    BY <1>1, EventTypes, DoneFacts, MarkedSays DEF LinesSent
  <2>2. DoneData # <<>>
    BY DEF DoneData
  <2>3. PICK d : d = FlattenSeq(Said(Marked(DoneData))) /\ d = <<<<Payload(Done)>>>> /\ d # <<>>
    BY <2>1, <2>2 DEF DoneData
  <2> QED
    BY <1>1, <2>1, <2>3, EventsOfLines
<1>2. CASE event = CommentEvent
  <2>1. LinesOf(block) = <<<<CommentMark>>>>
    BY <1>2, EventTypes DEF LinesSent
  <2>2. FlattenSeq(Said(<<<<CommentMark>>>>)) = <<>>
    <3>1. FlattenSeq(Said(Append(<<>>, <<CommentMark>>)))
             = FlattenSeq(Said(<<>>)) \o SaidBy(<<CommentMark>>)
      BY DoneFacts, SaidAppend, TextFacts, Zenon
    <3>2. Said(<<>>) = <<>> /\ FlattenSeq(<<>>) = <<>>
      BY DEF Said, FlattenSeq
    <3>3. SaidBy(<<CommentMark>>) = <<>>
      <4>1. ~Begins(<<CommentMark>>, DataMark)
        BY MarksDiffer DEF Begins
      <4> QED
        BY <4>1 DEF SaidBy
    <3>4. <<>> \o <<>> = <<>>
      OBVIOUS
    <3> QED
      BY <3>1, <3>2, <3>3, <3>4, DoneFacts
  <2>3. \E i \in DOMAIN <<<<CommentMark>>>> : Begins(<<<<CommentMark>>>>[i], CommentMark)
    <3>1. 1 \in DOMAIN <<<<CommentMark>>>> /\ <<<<CommentMark>>>>[1] = <<CommentMark>>
      OBVIOUS
    <3>2. Begins(<<CommentMark>>, CommentMark)
      BY DEF Begins
    <3> QED
      BY <3>1, <3>2
  <2>4. PICK lines : lines = <<<<CommentMark>>>>
    OBVIOUS
  <2> QED
    BY <1>2, <2>1, <2>2, <2>3, <2>4, EventsOfLines
<1>3. CASE event \in {DataEvent(data) : data \in Data}
  <2>1. PICK data \in Data : event = DataEvent(data)
    BY <1>3
  <2>2. data \in Seq(PlainTexts) /\ data # <<>> /\ data # <<<<Payload(Done)>>>>
    BY DEF Data
  <2>3. LinesOf(block) = Marked(data) /\ FlattenSeq(Said(Marked(data))) = data
    BY <2>1, <2>2, EventTypes, MarkedSays DEF LinesSent
  <2> QED
    BY <2>1, <2>2, <2>3, EventsOfLines
<1> QED
  BY <1>1, <1>2, <1>3 DEF UpstreamEvents

\* Reading one event back, with its empty line and without it.
LEMMA EventRead ==
    ASSUME NEW event \in UpstreamEvents, NEW eol \in LineEnds
    PROVE  \E block, tail :
              /\ Reads(Serialize(event, eol), Append(<<>>, block), <<>>) /\ EventsOf(block) = <<event>>
              /\ block \in Texts
              /\ Reads(Sent(LinesSent(event), eol), <<>>, tail) /\ EventsOf(tail) = <<event>>
<1>1. PICK lines : lines = LinesSent(event)
  OBVIOUS
<1>2. lines \in Seq(Lines) /\ lines # <<>>
  BY <1>1, LinesSentFacts
<1>3. PICK tail : /\ Reads(Sent(lines, eol), <<>>, tail) /\ LinesInto(tail, lines, <<>>)
                  /\ ~EndsIn(tail, CR) /\ EndsIn(tail, LF)
  BY <1>2, LinesRead
<1>4. PICK block : block = Front(tail)
  OBVIOUS
<1>5. block \in Texts /\ tail = Append(block, LF)
  <2>1. tail \in Texts
    BY <1>3 DEF LinesInto
  <2>2. EndsIn(tail, LF) => Front(tail) \in Texts /\ tail = Append(Front(tail), LF)
    BY <2>1, TextsClosed, TextFacts, Zenon
  <2> QED
    BY <1>3, <1>4, <2>2
<1>6. Reads(Serialize(event, eol), Append(<<>>, block), <<>>)
  <2>1. Reads(Sent(lines, eol) \o eol, Append(<<>>, block), <<>>)
    BY <1>3, <1>4, LineEndRead
  <2> QED
    BY <1>1, <2>1, SerializeLines
<1>7. PICK done, last : LinesInto(block, done, last)
  BY <1>5, CutExists
<1>8. LinesInto(tail, Append(done, last), <<>>)
  BY <1>5, <1>7, LinesStep, TextFacts
<1>9. Append(done, last) = lines
  BY <1>3, <1>8, CutOnce
<1>10. LinesOf(block) = lines /\ EventsOf(tail) = EventsOf(block)
  BY <1>2, <1>3, <1>7, <1>9, TailTells
<1>11. EventsOf(block) = <<event>>
  BY <1>1, <1>10, LinesTell
<1> QED
  BY <1>1, <1>3, <1>5, <1>6, <1>10, <1>11

\* Text whose carriage returns are all followed by a line feed.
Tidy(text) == text \in Texts /\ Clean(text) /\ ~EndsIn(text, CR)

\* Texts put together, one piece more.
LEMMA TextsConcat ==
    ASSUME NEW a \in Texts, NEW b \in Texts
    PROVE  a \o b \in Texts /\ \A c \in Pieces : a \o Append(b, c) = Append(a \o b, c)
  BY DEF Texts

\* Three texts put together.
LEMMA TextsThree ==
    ASSUME NEW a \in Texts, NEW b \in Texts, NEW c \in Texts
    PROVE  a \o (b \o c) = (a \o b) \o c
  BY ConcatAssociative DEF Texts

\* Text within a line keeps a text tidy,
LEMMA TidyPlain ==
    ASSUME NEW text, Tidy(text), NEW more \in PlainTexts
    PROVE  Tidy(text \o more)
<1> DEFINE Good(t) == Tidy(text \o t)
           S == {t \in PlainTexts : Good(t)}
<1>1. text \in Texts
  BY DEF Tidy
<1>2. <<>> \in S
  <2>1. text \o <<>> = text
    BY <1>1 DEF Texts
  <2> QED
    BY <2>1, PlainFacts
<1>3. ASSUME NEW t \in PlainTexts, NEW c \in PlainPieces, t \in S PROVE Append(t, c) \in S
  <2>1. t \in Texts /\ c \in Pieces /\ c # CR
    BY PlainFacts
  <2>2. text \o Append(t, c) = Append(text \o t, c) /\ text \o t \in Texts
    BY <1>1, <2>1, TextsConcat
  <2>3. PICK u \in Texts : u = text \o t
    BY <2>2
  <2>4. Tidy(u)
    BY <1>3, <2>3
  <2>5. Clean(Append(u, c)) /\ Append(u, c) \in Texts
    BY <2>1, <2>4, CleanAppend, TextsClosed DEF Tidy
  <2>6. EndsIn(Append(u, c), CR) <=> CR = c
    BY <2>1, TextsClosed, Zenon
  <2>7. Good(Append(t, c))
    BY <2>1, <2>2, <2>3, <2>5, <2>6 DEF Tidy
  <2>8. Append(t, c) \in PlainTexts
    BY DEF PlainTexts
  <2> HIDE DEF Good
  <2> QED
    BY <2>7, <2>8
<1>4. PlainTexts \subseteq S
  <2> HIDE DEF S
  <2>1. Seq(PlainPieces) \subseteq S
    BY <1>2, <1>3, SeqInduction DEF PlainTexts
  <2> QED
    BY <2>1 DEF PlainTexts
<1> QED
  BY <1>4

\* and so does the end of a line,
LEMMA TidyLineEnd ==
    ASSUME NEW text, Tidy(text), NEW eol \in LineEnds
    PROVE  Tidy(text \o eol)
<1>1. text \in Texts /\ Clean(text) /\ ~EndsIn(text, CR)
  BY DEF Tidy
<1>2. ASSUME NEW t \in Texts, Clean(t) PROVE Tidy(Append(t, LF))
  <2>1. Clean(Append(t, LF)) /\ Append(t, LF) \in Texts
    BY <1>2, CleanAppend, TextsClosed, TextFacts, MarksDiffer
  <2>2. EndsIn(Append(t, LF), CR) <=> CR = LF
    BY TextsClosed, TextFacts, Zenon
  <2> QED
    BY <2>1, <2>2, MarksDiffer DEF Tidy
<1>3. CASE eol = <<LF>>
  <2>1. text \o eol = Append(text, LF)
    BY <1>1, <1>3, TextsClosed, TextFacts
  <2> QED
    BY <1>1, <1>2, <2>1
<1>4. CASE eol = <<CR, LF>>
  <2>1. text \o eol = Append(Append(text, CR), LF)
    BY <1>1, <1>4, CRLF
  <2>2. Clean(Append(text, CR)) /\ Append(text, CR) \in Texts
    BY <1>1, CleanAppend, TextsClosed, TextFacts
  <2> QED
    BY <1>2, <2>1, <2>2
<1> QED
  BY <1>3, <1>4 DEF LineEnds

\* and so do whole lines.
LEMMA TidySent ==
    ASSUME NEW text, Tidy(text), NEW eol \in LineEnds, NEW lines \in Seq(Lines)
    PROVE  Tidy(text \o Sent(lines, eol))
<1> DEFINE Good(l) == Tidy(text \o Sent(l, eol))
           S == {l \in Seq(Lines) : Good(l)}
<1>1. text \in Texts /\ eol \in Texts
  BY PlainFacts DEF Tidy
<1>2. <<>> \in S
  <2>1. Sent(<<>>, eol) = <<>>
    BY SentAppend, TextFacts
  <2>2. text \o <<>> = text
    BY <1>1, TextsClosed, TextFacts
  <2>3. Good(<<>>)
    BY <2>1, <2>2
  <2> HIDE DEF Good
  <2> QED
    BY <2>3
<1>3. ASSUME NEW l \in Seq(Lines), NEW line \in Lines, l \in S PROVE Append(l, line) \in S
  <2>1. line \in PlainTexts /\ line \in Texts /\ l \in Cuts
    BY PlainFacts DEF Lines, Cuts
  <2>2. PICK sent \in Texts : sent = Sent(l, eol)
    BY <2>1, SentAppend
  <2>3. Sent(Append(l, line), eol) = sent \o (line \o eol)
    BY <2>1, <2>2, SentAppend
  <2>4. text \o (sent \o (line \o eol)) = ((text \o sent) \o line) \o eol
    <3>1. PICK ended : ended = line \o eol
      OBVIOUS
    <3>2. PICK before : before = text \o sent
      OBVIOUS
    <3>3. ended \in Texts
      BY <1>1, <2>1, <3>1, TextsConcat
    <3>4. before \in Texts
      BY <1>1, <2>2, <3>2, TextsConcat
    <3>5. text \o (sent \o ended) = before \o ended
      BY <1>1, <2>2, <3>2, <3>3, TextsThree
    <3>6. before \o (line \o eol) = (before \o line) \o eol
      BY <1>1, <2>1, <3>4, TextsThree
    <3> QED
      BY <3>1, <3>2, <3>5, <3>6
  <2>5. Tidy(text \o sent)
    BY <1>3, <2>2
  <2>6. Tidy(((text \o sent) \o line) \o eol)
    BY <2>1, <2>5, TidyPlain, TidyLineEnd
  <2>7. Good(Append(l, line)) /\ Append(l, line) \in Seq(Lines)
    BY <2>3, <2>4, <2>6
  <2> HIDE DEF Good
  <2> QED
    BY <2>7
<1>4. Seq(Lines) \subseteq S
  <2> HIDE DEF S
  <2> QED
    BY <1>2, <1>3, SeqInduction
<1> QED
  BY <1>4

\* The bytes of a sequence of events.
WireOf(events, eol) == FlattenSeq([i \in DOMAIN events |-> Serialize(events[i], eol)])

\* The bytes of one more event come after the others.
LEMMA WireAppend ==
    ASSUME NEW events \in Seq(UpstreamEvents), NEW event \in UpstreamEvents, NEW eol \in LineEnds
    PROVE  /\ WireOf(<<>>, eol) = <<>> /\ WireOf(events, eol) \in Texts
           /\ Serialize(event, eol) \in Texts
           /\ WireOf(Append(events, event), eol) = WireOf(events, eol) \o Serialize(event, eol)
<1>1. \A e \in UpstreamEvents : Serialize(e, eol) \in Texts
  BY EventRead DEF Reads
<1>2. PICK longer : longer = Append(events, event)
  OBVIOUS
<1>3. PICK n \in Nat : n = Len(events) /\ DOMAIN events = 1 .. n
  OBVIOUS
<1>4. /\ longer \in Seq(UpstreamEvents) /\ Len(longer) = n + 1 /\ longer[n + 1] = event
      /\ \A i \in 1 .. n : longer[i] = events[i]
  BY <1>2, <1>3, FrontFacts
<1>5. DOMAIN longer = 1 .. n + 1
  BY <1>4
<1>6. PICK s : s = [i \in DOMAIN events |-> Serialize(events[i], eol)]
  OBVIOUS
<1>7. s \in Cuts /\ Len(s) = n /\ \A i \in 1 .. n : s[i] = Serialize(events[i], eol)
  <2>1. s \in [1 .. n -> Texts] /\ \A i \in 1 .. n : s[i] = Serialize(events[i], eol)
    BY <1>1, <1>3, <1>6
  <2> QED
    BY <2>1 DEF Cuts
<1>8. PICK t : t = [i \in DOMAIN longer |-> Serialize(longer[i], eol)]
  OBVIOUS
<1>9. t \in Cuts /\ Len(t) = n + 1 /\ \A i \in 1 .. n + 1 : t[i] = Serialize(longer[i], eol)
  <2>1. t \in [1 .. n + 1 -> Texts] /\ \A i \in 1 .. n + 1 : t[i] = Serialize(longer[i], eol)
    BY <1>1, <1>4, <1>5, <1>8
  <2> QED
    BY <2>1 DEF Cuts
<1>10. PICK u : u = Append(s, Serialize(event, eol))
  OBVIOUS
<1>11. /\ u \in Cuts /\ Len(u) = n + 1 /\ u[n + 1] = Serialize(event, eol)
       /\ \A i \in 1 .. n : u[i] = s[i]
  BY <1>1, <1>7, <1>10, FrontFacts DEF Cuts
<1>12. t = u
  <2>1. \A i \in 1 .. n + 1 : i \in 1 .. n \/ i = n + 1
    OBVIOUS
  <2>2. \A i \in 1 .. n : i \in 1 .. n + 1 /\ t[i] = u[i]
    BY <1>4, <1>7, <1>9, <1>11
  <2>3. t[n + 1] = u[n + 1]
    BY <1>4, <1>9, <1>11
  <2>4. \A i \in 1 .. n + 1 : t[i] = u[i]
    BY <2>1, <2>2, <2>3
  <2> QED
    BY <1>9, <1>11, <2>4, SeqEqual DEF Cuts
<1>13. FlattenSeq(s) \in Texts /\ FlattenSeq(u) = FlattenSeq(s) \o Serialize(event, eol)
  BY <1>1, <1>7, <1>10, FlattenType, FlattenAppend DEF Cuts, Texts
<1>14. WireOf(<<>>, eol) = <<>>
  <2>1. [i \in DOMAIN <<>> |-> Serialize(<<>>[i], eol)] = <<>>
    OBVIOUS
  <2> QED
    BY <2>1 DEF WireOf, FlattenSeq
<1> QED
  BY <1>1, <1>2, <1>6, <1>8, <1>12, <1>13, <1>14 DEF WireOf

\* What is read from the bytes of the events are these events.
LEMMA WireRead ==
    ASSUME NEW eol \in LineEnds, NEW events \in Seq(UpstreamEvents)
    PROVE  /\ \E done : Reads(WireOf(events, eol), done, <<>>) /\ EventsIn(done) = events
           /\ Tidy(WireOf(events, eol))
<1> DEFINE Good(es) == /\ \E done : Reads(WireOf(es, eol), done, <<>>) /\ EventsIn(done) = es
                       /\ Tidy(WireOf(es, eol))
           S == {es \in Seq(UpstreamEvents) : Good(es)}
<1>1. <<>> \in S
  <2>1. WireOf(<<>>, eol) = <<>>
    <3>1. CommentEvent \in UpstreamEvents /\ <<>> \in Seq(UpstreamEvents)
      BY DEF UpstreamEvents
    <3> QED
      BY <3>1, WireAppend
  <2>2. EventsIn(<<>>) = <<>>
    BY EventsInAppend, TextFacts
  <2>3. Tidy(<<>>)
    BY TextFacts DEF Tidy, Clean, EndsIn
  <2>4. Good(<<>>)
    BY <2>1, <2>2, <2>3, EmptySettled
  <2> HIDE DEF Good
  <2> QED
    BY <2>4
<1>2. ASSUME NEW es \in Seq(UpstreamEvents), NEW e \in UpstreamEvents, es \in S
      PROVE  Append(es, e) \in S
  <2>1. PICK done : Reads(WireOf(es, eol), done, <<>>) /\ EventsIn(done) = es
    BY <1>2
  <2>2. PICK block \in Texts : /\ Reads(Serialize(e, eol), Append(<<>>, block), <<>>)
                               /\ EventsOf(block) = <<e>>
    BY EventRead
  <2>3. PICK more, rest : /\ Reads(<<>> \o Serialize(e, eol), more, rest)
                          /\ Reads(WireOf(es, eol) \o Serialize(e, eol), done \o more, rest)
    BY <2>1, EmptySettled, WireAppend, ReadsOn
  <2>4. <<>> \o Serialize(e, eol) = Serialize(e, eol)
    BY WireAppend, TextsClosed, TextFacts
  <2>5. more = Append(<<>>, block) /\ rest = <<>>
    BY <2>2, <2>3, <2>4, ReadsOnce
  <2>6. done \in Cuts
    BY <2>1 DEF Reads, CutInto
  <2>7. done \o Append(<<>>, block) = Append(done, block)
    <3>1. <<block>> = Append(<<>>, block) /\ done \o <<block>> = Append(done, block)
      BY <2>6, CutsClosed
    <3> QED
      BY <3>1
  <2>8. EventsIn(Append(done, block)) = es \o <<e>>
    BY <2>1, <2>2, <2>6, EventsInAppend
  <2>9. es \o <<e>> = Append(es, e)
    BY ConcatAppend
  <2>10. WireOf(Append(es, e), eol) = WireOf(es, eol) \o Serialize(e, eol)
    BY WireAppend
  <2>11. Tidy(WireOf(es, eol) \o Serialize(e, eol))
    <3>1. PICK w \in Texts : w = WireOf(es, eol)
      BY WireAppend
    <3>2. PICK lines \in Seq(Lines) : lines = LinesSent(e)
      BY LinesSentFacts
    <3>3. Tidy(w)
      BY <1>2, <3>1
    <3>4. Tidy((w \o Sent(lines, eol)) \o eol)
      BY <3>3, TidySent, TidyLineEnd
    <3>5. PICK sent \in Texts : sent = Sent(lines, eol)
      <4>1. lines \in Cuts
        BY PlainFacts DEF Lines, Cuts
      <4> QED
        BY <4>1, SentAppend, TextFacts
    <3>6. (w \o sent) \o eol = w \o (sent \o eol)
      BY PlainFacts, TextsThree
    <3>7. Serialize(e, eol) = sent \o eol
      BY <3>2, <3>5, SerializeLines
    <3> QED
      BY <3>1, <3>4, <3>5, <3>6, <3>7
  <2>12. Reads(WireOf(Append(es, e), eol), Append(done, block), <<>>)
    BY <2>3, <2>5, <2>7, <2>10
  <2>13. Good(Append(es, e))
    BY <2>8, <2>9, <2>10, <2>11, <2>12
  <2>14. Append(es, e) \in Seq(UpstreamEvents)
    OBVIOUS
  <2> HIDE DEF Good
  <2> QED
    BY <2>13, <2>14
<1>3. Seq(UpstreamEvents) \subseteq S
  <2> HIDE DEF S
  <2> QED
    BY <1>1, <1>2, SeqInduction
<1> QED
  BY <1>3

\* What http upstreams send are such events (ScenariosAssumption).
LEMMA ScenarioEvents ==
    ASSUME NEW s \in Scenarios, s.kind = "http"
    PROVE  s.events \in Seq(UpstreamEvents) /\ s.eol \in LineEnds /\ s.sloppy \in BOOLEAN
<1>1. /\ s.eol \in {<<LF>>, <<CR, LF>>} /\ s.sloppy \in BOOLEAN /\ IsSequence(s.events)
  BY ScenariosAssumption DEF SpeaksSse
<1>2. ASSUME NEW i \in DOMAIN s.events PROVE s.events[i] \in UpstreamEvents
  <2>1. PICK event : event = s.events[i]
    OBVIOUS
  <2>2. \/ event \in {DoneEvent, CommentEvent}
        \/ /\ event = DataEvent(event.data)
           /\ event.data \notin {<<>>, <<<<Payload(Done)>>>>}
           /\ IsSequence(event.data)
           /\ \A j \in DOMAIN event.data :
                 /\ IsSequence(event.data[j])
                 /\ \A k \in DOMAIN event.data[j] :
                       event.data[j][k] = Payload(event.data[j][k].value)
    BY <2>1, ScenariosAssumption DEF SpeaksSse
  <2>3. CASE event \in {DoneEvent, CommentEvent}
    BY <2>1, <2>3 DEF UpstreamEvents
  <2>4. CASE ~(event \in {DoneEvent, CommentEvent})
    <3>1. PICK data : data = event.data
      OBVIOUS
    <3>2. /\ event = DataEvent(data) /\ data # <<>> /\ data # <<<<Payload(Done)>>>>
          /\ IsSequence(data)
          /\ \A j \in DOMAIN data :
                 /\ IsSequence(data[j])
                 /\ \A k \in DOMAIN data[j] : data[j][k] = Payload(data[j][k].value)
      BY <2>2, <2>4, <3>1
    <3>3. event.type = "data"
      BY <3>2, EventTypes
    <3>4. ASSUME NEW j \in DOMAIN data PROVE data[j] \in PlainTexts
      <4>1. PICK line : line = data[j]
        OBVIOUS
      <4>2. ASSUME NEW k \in DOMAIN line PROVE line[k] \in PlainPieces
        <5>1. line[k] \in EventPieces(event)
          <6>1. line \in {event.data[m] : m \in DOMAIN event.data}
            BY <3>1, <4>1
          <6>2. line[k] \in {line[m] : m \in DOMAIN line}
            OBVIOUS
          <6>3. EventPieces(event) = UNION {{l[m] : m \in DOMAIN l} : l \in {event.data[m] : m \in DOMAIN event.data}}
            BY <3>3 DEF EventPieces
          <6> QED
            BY <6>1, <6>2, <6>3
        <5>2. line[k] \in UNION {EventPieces(s.events[m]) : m \in DOMAIN s.events}
          BY <2>1, <5>1
        <5>3. line[k] \in Pieces
          BY <5>2 DEF Pieces, SentPieces
        <5>4. line[k] # CR /\ line[k] # LF
          <6>1. line[k] = Payload(line[k].value)
            BY <3>2, <4>1
          <6> QED
            BY <6>1, MarksDiffer
        <5> QED
          BY <5>3, <5>4 DEF PlainPieces
      <4>3. line \in Seq({line[k] : k \in DOMAIN line})
        BY <3>2, <4>1 DEF IsSequence
      <4>4. {line[k] : k \in DOMAIN line} \subseteq PlainPieces
        BY <4>2
      <4> QED
        BY <4>1, <4>3, <4>4 DEF PlainTexts
    <3>5. data \in Seq({data[j] : j \in DOMAIN data})
      BY <3>2 DEF IsSequence
    <3>6. {data[j] : j \in DOMAIN data} \subseteq PlainTexts
      BY <3>4
    <3>7. data \in Seq(PlainTexts)
      BY <3>5, <3>6
    <3> QED
      BY <2>1, <3>2, <3>7 DEF UpstreamEvents, Data
  <2> QED
    BY <2>3, <2>4
<1>3. s.events \in Seq({s.events[i] : i \in DOMAIN s.events})
  BY <1>1 DEF IsSequence
<1>4. {s.events[i] : i \in DOMAIN s.events} \subseteq UpstreamEvents
  BY <1>2
<1>5. s.events \in Seq(UpstreamEvents)
  BY <1>3, <1>4
<1> QED
  BY <1>1, <1>5 DEF LineEnds

\* A block of nothing is no event: SSEParser.flush() of an empty buffer.
LEMMA NoBlockNoEvent == EventsOf(<<>>) = <<>>
<1>1. LinesInto(<<>>, <<>>, <<>>)
  BY EmptyCut
<1>2. PICK lines : lines = Append(<<>>, <<>>)
  OBVIOUS
<1>3. lines = <<<<>>>> /\ DOMAIN lines = 1 .. 1 /\ lines[1] = <<>>
  BY <1>2
<1>4. LinesOf(<<>>) = [i \in DOMAIN lines |-> Trimmed(lines[i])]
  BY <1>1, <1>2, LinesOfBlock
<1>5. Trimmed(<<>>) = <<>>
  BY DEF Trimmed
<1>6. LinesOf(<<>>) = [i \in 1 .. 1 |-> <<>>]
  <2>1. \A i \in 1 .. 1 : lines[i] = <<>>
    BY <1>3
  <2> QED
    BY <1>3, <1>4, <1>5, <2>1
<1>7. PICK l : l = LinesOf(<<>>)
  OBVIOUS
<1>8. DOMAIN l = 1 .. 1 /\ \A i \in 1 .. 1 : l[i] = <<>>
  BY <1>6, <1>7
<1>9. \A mark : ~Begins(<<>>, mark)
  BY DEF Begins
<1>10. Said(l) = [i \in 1 .. 1 |-> <<>>]
  BY <1>8, <1>9 DEF Said
<1>11. Said(l) = Append(<<>>, <<>>)
  BY <1>2, <1>3, <1>10
<1>12. FlattenSeq(Append(<<>>, <<>>)) = FlattenSeq(<<>>) \o <<>> /\ FlattenSeq(<<>>) = <<>>
  <2>1. <<>> \in Seq(Seq(Pieces)) /\ <<>> \in Seq(Pieces)
    OBVIOUS
  <2> QED
    BY <2>1, FlattenAppend, Zenon
<1>13. FlattenSeq(Said(l)) = <<>>
  <2>1. <<>> \o <<>> = <<>>
    OBVIOUS
  <2> QED
    BY <1>11, <1>12, <2>1
<1>14. ~\E i \in DOMAIN l : Begins(l[i], CommentMark)
  BY <1>8, <1>9
<1> QED
  BY <1>7, <1>13, <1>14, EventsOfLines

\* A text whose tail is cut off.
LEMMA WithoutTail ==
    ASSUME NEW text \in Texts, NEW tail \in Texts
    PROVE  SubSeq(text \o tail, 1, Len(text \o tail) - Len(tail)) = text
<1>1. PICK n \in Nat, m \in Nat : n = Len(text) /\ m = Len(tail)
  BY DEF Texts
<1>2. PICK u : u = text \o tail
  OBVIOUS
<1>3. u \in Seq(Pieces) /\ Len(u) = n + m /\ \A i \in 1 .. n : u[i] = text[i]
  BY <1>1, <1>2 DEF Texts
<1>4. n + m - m = n
  OBVIOUS
<1>5. /\ SubSeq(u, 1, n) \in Seq(Pieces) /\ Len(SubSeq(u, 1, n)) = n
      /\ \A i \in 1 .. n : SubSeq(u, 1, n)[i] = u[i]
  BY <1>3
<1>6. SubSeq(u, 1, n) = text
  BY <1>1, <1>3, <1>5, SeqEqual DEF Texts
<1> QED
  BY <1>1, <1>2, <1>3, <1>4, <1>6

\* The bytes of an http upstream tell its events, the last one perhaps only when
\* the parser is flushed, and no carriage return follows another in them.
LEMMA WireTells ==
    ASSUME NEW s \in Scenarios, s.kind = "http"
    PROVE  /\ Wire(s) \in Texts /\ Clean(Wire(s))
           /\ \E done, open : /\ Reads(Wire(s), done, open)
                              /\ EventsIn(done) \o EventsOf(open) = s.events
<1>1. PICK eol \in LineEnds, events \in Seq(UpstreamEvents) : eol = s.eol /\ events = s.events
  BY ScenarioEvents
<1>2. Wire(s) = IF s.sloppy THEN SubSeq(WireOf(events, eol), 1, Len(WireOf(events, eol)) - Len(eol))
                ELSE WireOf(events, eol)
  BY <1>1 DEF Wire, WireOf
<1>3. eol \in Texts
  BY PlainFacts
<1>4. CASE ~s.sloppy
  <2>1. PICK done : Reads(WireOf(events, eol), done, <<>>) /\ EventsIn(done) = events
    BY WireRead
  <2>2. Tidy(WireOf(events, eol))
    BY WireRead
  <2>3. EventsIn(done) \o EventsOf(<<>>) = events
    BY <2>1, NoBlockNoEvent
  <2> QED
    BY <1>1, <1>2, <1>4, <2>1, <2>2, <2>3 DEF Tidy
<1>5. CASE s.sloppy /\ events = <<>>
  <2>1. WireOf(events, eol) = <<>>
    <3>1. CommentEvent \in UpstreamEvents
      BY DEF UpstreamEvents
    <3> QED
      BY <1>5, <3>1, WireAppend
  <2>2. Len(<<>>) - Len(eol) < 1 /\ Len(<<>>) - Len(eol) \in Int
    BY <1>3 DEF Texts
  <2>3. SubSeq(<<>>, 1, Len(<<>>) - Len(eol)) = <<>>
    BY <2>2, SubSeqEmpty
  <2>4. Wire(s) = <<>>
    BY <1>2, <1>5, <2>1, <2>3
  <2>5. EventsIn(<<>>) \o EventsOf(<<>>) = <<>>
    BY NoBlockNoEvent, EventsInAppend, TextFacts
  <2>6. Clean(<<>>)
    BY DEF Clean
  <2> QED
    BY <1>1, <1>5, <2>4, <2>5, <2>6, EmptySettled, TextFacts
<1>6. CASE s.sloppy /\ events # <<>>
  <2>1. PICK es \in Seq(UpstreamEvents), e \in UpstreamEvents : events = Append(es, e)
    BY <1>6, FrontLast
  <2>2. PICK lines \in Seq(Lines) : lines = LinesSent(e)
    BY LinesSentFacts
  <2>3. PICK sent \in Texts : sent = Sent(lines, eol)
    <3>1. lines \in Cuts
      BY PlainFacts DEF Lines, Cuts
    <3> QED
      BY <3>1, SentAppend, TextFacts
  <2>4. PICK w \in Texts : w = WireOf(es, eol)
    BY WireAppend, <2>1
  <2>5. WireOf(events, eol) = (w \o sent) \o eol
    <3>1. WireOf(events, eol) = w \o Serialize(e, eol)
      BY <2>1, <2>4, WireAppend
    <3>2. Serialize(e, eol) = sent \o eol
      BY <2>2, <2>3, SerializeLines
    <3>3. w \o (sent \o eol) = (w \o sent) \o eol
      BY <1>3, TextsThree
    <3> QED
      BY <3>1, <3>2, <3>3
  <2>6. PICK cut \in Texts : cut = w \o sent
    BY TextsConcat
  <2>7. Wire(s) = cut
    <3>1. SubSeq(cut \o eol, 1, Len(cut \o eol) - Len(eol)) = cut
      BY <1>3, WithoutTail
    <3> QED
      BY <1>2, <1>6, <2>5, <2>6, <3>1
  <2>8. Clean(cut)
    <3>1. Tidy(w)
      BY <2>4, WireRead
    <3>2. Tidy(w \o Sent(lines, eol))
      BY <3>1, TidySent
    <3> QED
      BY <2>3, <2>6, <3>2 DEF Tidy
  <2>9. PICK done : Reads(w, done, <<>>) /\ EventsIn(done) = es
    BY <2>4, WireRead
  <2>10. PICK tail : Reads(sent, <<>>, tail) /\ EventsOf(tail) = <<e>>
    BY <2>2, <2>3, EventRead
  <2>11. PICK more, rest : Reads(<<>> \o sent, more, rest) /\ Reads(w \o sent, done \o more, rest)
    BY <2>9, EmptySettled, ReadsOn
  <2>12. <<>> \o sent = sent
    BY TextsClosed, TextFacts
  <2>13. more = <<>> /\ rest = tail
    BY <2>10, <2>11, <2>12, ReadsOnce
  <2>14. done \o <<>> = done
    BY <2>9 DEF Reads, CutInto, Cuts
  <2>15. Reads(cut, done, tail)
    BY <2>6, <2>11, <2>13, <2>14
  <2>16. es \o <<e>> = events
    BY <2>1, ConcatAppend
  <2>17. EventsIn(done) \o EventsOf(tail) = events
    BY <2>9, <2>10, <2>16
  <2> QED
    BY <1>1, <2>7, <2>8, <2>15, <2>17
<1>7. s.sloppy \in BOOLEAN
  BY ScenarioEvents
<1> QED
  BY <1>4, <1>5, <1>6, <1>7

-----------------------------------------------------------------------------
\* Reads: the wire, cut anywhere.

\* What the parser has made of the first n pieces of the wire.
PushedAt(s, n) == Push(<<>>, SubSeq(Wire(s), 1, n))

\* A text up to m is the text up to n and the rest.
LEMMA SubSeqConcat ==
    ASSUME NEW text \in Texts, NEW n \in Nat, NEW m \in Nat, n <= m, m <= Len(text)
    PROVE  /\ SubSeq(text, 1, n) \in Texts /\ SubSeq(text, n + 1, m) \in Texts
           /\ SubSeq(text, 1, m) = SubSeq(text, 1, n) \o SubSeq(text, n + 1, m)
<1>1. PICK t \in Seq(Pieces), l \in Nat : t = text /\ l = Len(t)
  BY DEF Texts
<1>2. PICK a, b, c : a = SubSeq(t, 1, n) /\ b = SubSeq(t, n + 1, m) /\ c = SubSeq(t, 1, m)
  OBVIOUS
<1>3. \A i \in 1 .. l : t[i] \in Pieces
  BY <1>1
<1>4. a \in Seq(Pieces) /\ Len(a) = n /\ \A i \in 1 .. n : a[i] = t[i]
  BY <1>1, <1>2
<1>5. c \in Seq(Pieces) /\ Len(c) = m /\ \A i \in 1 .. m : c[i] = t[i]
  BY <1>1, <1>2
<1>6. b \in Seq(Pieces) /\ Len(b) = m - n /\ \A i \in 1 .. m - n : b[i] = t[n + i]
  <2>1. /\ n + 1 \in Int /\ m \in Int /\ \A i \in n + 1 .. m : t[i] \in Pieces
    BY <1>1, <1>3
  <2>2. /\ b \in Seq(Pieces) /\ Len(b) = IF n + 1 <= m THEN m - (n + 1) + 1 ELSE 0
        /\ \A i \in 1 .. m - (n + 1) + 1 : b[i] = t[n + 1 + i - 1]
    BY <1>2, <2>1, SubSeqProperties
  <2>3. m - (n + 1) + 1 = m - n /\ (~(n + 1 <= m) => m - n = 0)
    OBVIOUS
  <2>4. \A i \in 1 .. m - n : n + 1 + i - 1 = n + i
    OBVIOUS
  <2> QED
    BY <2>2, <2>3, <2>4
<1>7. PICK d : d = a \o b
  OBVIOUS
<1>8. /\ d \in Seq(Pieces) /\ Len(d) = m
      /\ \A i \in 1 .. n : d[i] = a[i]
      /\ \A i \in 1 .. m : i > n => d[i] = b[i - n]
  <2>1. /\ Len(d) = Len(a) + Len(b) /\ d \in Seq(Pieces)
        /\ \A i \in 1 .. Len(a) + Len(b) : d[i] = IF i <= Len(a) THEN a[i] ELSE b[i - Len(a)]
    BY <1>4, <1>6, <1>7, ConcatProperties
  <2>2. Len(a) + Len(b) = m
    BY <1>4, <1>6
  <2>3. \A i \in 1 .. n : i \in 1 .. m /\ i <= n
    OBVIOUS
  <2> QED
    BY <1>4, <2>1, <2>2, <2>3
<1>9. ASSUME NEW i \in 1 .. m PROVE d[i] = c[i]
  <2>1. CASE i <= n
    <3>1. i \in 1 .. n
      BY <2>1
    <3> QED
      BY <1>4, <1>5, <1>8, <3>1
  <2>2. CASE i > n
    <3>1. i - n \in 1 .. m - n /\ n + (i - n) = i
      BY <2>2
    <3>2. d[i] = b[i - n]
      BY <1>8, <2>2
    <3> QED
      BY <1>5, <1>6, <3>1, <3>2
  <2> QED
    BY <2>1, <2>2
<1>10. d = c
  BY <1>5, <1>8, <1>9, SeqEqual
<1> QED
  BY <1>1, <1>2, <1>4, <1>6, <1>7, <1>10 DEF Texts

\* The beginning of a clean text is clean.
LEMMA CleanSubSeq ==
    ASSUME NEW text \in Texts, Clean(text), NEW n \in Nat, n <= Len(text)
    PROVE  Clean(SubSeq(text, 1, n))
<1>1. PICK t \in Seq(Pieces), l \in Nat : t = text /\ l = Len(t)
  BY DEF Texts
<1>2. PICK a : a = SubSeq(t, 1, n)
  OBVIOUS
<1>3. Len(a) = n /\ \A i \in 1 .. n : a[i] = t[i]
  BY <1>1, <1>2
<1>4. \A i \in 1 .. n - 1 : i \in 1 .. n /\ i + 1 \in 1 .. n /\ i \in 1 .. l - 1
  BY <1>1
<1>5. \A i \in 1 .. l - 1 : ~(t[i] = CR /\ t[i + 1] = CR)
  BY <1>1 DEF Clean
<1>6. \A i \in 1 .. Len(a) - 1 : ~(a[i] = CR /\ a[i + 1] = CR)
  BY <1>3, <1>4, <1>5
<1> QED
  BY <1>1, <1>2, <1>6 DEF Clean

\* The state of the parser anywhere in the wire.
LEMMA PushedReads ==
    ASSUME NEW s \in Scenarios, s.kind = "http", NEW n \in Nat, n <= Len(Wire(s))
    PROVE  \E done, open : /\ Reads(SubSeq(Wire(s), 1, n), done, open) /\ Settled(open)
                           /\ PushedAt(s, n) = [events |-> EventsIn(done), buffer |-> open]
<1>1. PICK wire \in Texts : wire = Wire(s) /\ Clean(wire)
  BY WireTells
<1>2. PICK text \in Texts : text = SubSeq(wire, 1, n) /\ Clean(text)
  <2>1. Len(wire) \in Nat /\ n <= Len(wire) /\ n <= n
    BY <1>1 DEF Texts
  <2>2. SubSeq(wire, 1, n) \in Texts
    BY <2>1, SubSeqConcat
  <2> QED
    BY <1>1, <2>1, <2>2, CleanSubSeq
<1>3. PICK done, open : Reads(text, done, open) /\ Settled(open)
  BY <1>2, CleanIsSettled
<1>4. <<>> \o text = text
  BY TextsClosed, TextFacts
<1>5. Push(<<>>, text) = [events |-> EventsIn(done), buffer |-> open]
  <2>1. PICK none : none = <<>> /\ Reads(none \o text, done, open)
    BY <1>3, <1>4
  <2>2. Pushes(none, text, done, open)
    BY <2>1, PushReads, Zenon
  <2> QED
    BY <2>1, <2>2 DEF Pushes
<1> QED
  BY <1>1, <1>2, <1>3, <1>5 DEF PushedAt

\* Wherever the bytes of an upstream are cut, within a CRLF or between the line ends of an
\* event too, pushing the rest yields the events that were missing and leaves the buffer that
\* reading without the cut would have left (SSEParser.push), for any upstream and any cuts.
THEOREM PushedOn ==
    ASSUME NEW s \in Scenarios, s.kind = "http", NEW n \in Nat, NEW m \in Nat, n <= m, m <= Len(Wire(s)),
           NEW pushed, pushed = Push(PushedAt(s, n).buffer, SubSeq(Wire(s), n + 1, m))
    PROVE  /\ PushedAt(s, m).buffer = pushed.buffer
           /\ PushedAt(s, m).events = PushedAt(s, n).events \o pushed.events
           /\ PushedAt(s, n).events \in Seq(SentEvents) /\ pushed.events \in Seq(SentEvents)
<1>1. PICK wire \in Texts : wire = Wire(s)
  BY WireTells
<1>2. Len(wire) \in Nat
  BY DEF Texts
<1>3. PICK before, text : before = SubSeq(wire, 1, n) /\ text = SubSeq(wire, n + 1, m)
  OBVIOUS
<1>4. before \in Texts /\ text \in Texts /\ SubSeq(wire, 1, m) = before \o text
  BY <1>1, <1>2, <1>3, SubSeqConcat
<1>5. n <= Len(Wire(s))
  BY <1>1, <1>2
<1>6. PICK done, open : /\ Reads(before, done, open) /\ Settled(open)
                        /\ PushedAt(s, n) = [events |-> EventsIn(done), buffer |-> open]
  BY <1>1, <1>3, <1>5, PushedReads
<1>7. PICK all, last : /\ Reads(before \o text, all, last)
                       /\ PushedAt(s, m) = [events |-> EventsIn(all), buffer |-> last]
  BY <1>1, <1>4, PushedReads
<1>8. PICK more, rest : Reads(open \o text, more, rest) /\ Reads(before \o text, done \o more, rest)
  BY <1>4, <1>6, ReadsOn DEF Settled
<1>9. all = done \o more /\ last = rest
  BY <1>7, <1>8, ReadsOnce
<1>10. pushed = [events |-> EventsIn(more), buffer |-> rest]
  <2>1. pushed = Push(open, text)
    BY <1>1, <1>3, <1>6
  <2>2. Pushes(open, text, more, rest)
    BY <1>8, PushReads, Zenon
  <2> QED
    BY <2>1, <2>2 DEF Pushes
<1>11. done \in Cuts /\ more \in Cuts
  BY <1>6, <1>8 DEF Reads, CutInto
<1>12. EventsIn(all) = EventsIn(done) \o EventsIn(more)
  BY <1>9, <1>11, EventsInConcat
<1>13. EventsIn(done) \in Seq(SentEvents) /\ EventsIn(more) \in Seq(SentEvents)
  BY <1>11, EventsInBlocks
<1> QED
  BY <1>6, <1>7, <1>9, <1>10, <1>12, <1>13

\* All of the wire, and what flushing the parser adds, is what the upstream sent.
THEOREM PushedAll ==
    ASSUME NEW s \in Scenarios, s.kind = "http"
    PROVE  LET pushed == PushedAt(s, Len(Wire(s)))
           IN  /\ pushed.events \o Flush(pushed.buffer) = s.events
               /\ pushed.events \in Seq(SentEvents) /\ Flush(pushed.buffer) \in Seq(SentEvents)
<1>1. PICK wire, done, open :
         /\ wire \in Texts /\ wire = Wire(s) /\ Reads(wire, done, open)
         /\ EventsIn(done) \o EventsOf(open) = s.events
  BY WireTells
<1>2. PICK n \in Nat : n = Len(wire)
  BY <1>1 DEF Texts
<1>3. SubSeq(wire, 1, n) = wire
  <2>1. SubSeq(wire, 1, n) \in Seq(Pieces) /\ Len(SubSeq(wire, 1, n)) = n
        /\ \A i \in 1 .. n : SubSeq(wire, 1, n)[i] = wire[i]
    BY <1>1, <1>2 DEF Texts
  <2> QED
    BY <1>1, <1>2, <2>1, SeqEqual DEF Texts
<1>4. <<>> \o wire = wire
  BY <1>1, TextsClosed, TextFacts
<1>5. PushedAt(s, n) = [events |-> EventsIn(done), buffer |-> open]
  <2>1. PICK none : none = <<>> /\ Reads(none \o wire, done, open)
    BY <1>1, <1>4
  <2>2. Pushes(none, wire, done, open)
    BY <2>1, PushReads, Zenon
  <2> QED
    BY <1>1, <1>3, <2>1, <2>2 DEF PushedAt, Pushes
<1>6. done \in Cuts /\ open \in Texts
  BY <1>1 DEF Reads, CutInto
<1>7. EventsIn(done) \in Seq(SentEvents) /\ EventsOf(open) \in Seq(SentEvents)
  BY <1>6, EventsInBlocks, EventsOfType
<1> QED
  BY <1>1, <1>2, <1>5, <1>7 DEF Flush

\* What has been parsed is the beginning of what the upstream sent.
LEMMA PushedPrefix ==
    ASSUME NEW s \in Scenarios, s.kind = "http", NEW n \in Nat, n <= Len(Wire(s))
    PROVE  /\ PushedAt(s, n).events \in Seq(SentEvents)
           /\ \E rest \in Seq(SentEvents) : s.events = PushedAt(s, n).events \o rest
<1>1. PICK l \in Nat : l = Len(Wire(s))
  BY WireTells DEF Texts
<1>2. PICK pushed : pushed = Push(PushedAt(s, n).buffer, SubSeq(Wire(s), n + 1, l))
  OBVIOUS
<1>3. /\ PushedAt(s, l).events = PushedAt(s, n).events \o pushed.events
      /\ PushedAt(s, n).events \in Seq(SentEvents) /\ pushed.events \in Seq(SentEvents)
  <2>1. n <= l /\ l <= Len(Wire(s))
    BY <1>1
  <2> QED
    BY <1>2, <2>1, PushedOn
<1>4. PICK flushed \in Seq(SentEvents) : PushedAt(s, l).events \o flushed = s.events
  BY <1>1, PushedAll
<1>5. PICK a \in Seq(SentEvents), b \in Seq(SentEvents) : a = PushedAt(s, n).events /\ b = pushed.events
  BY <1>3
<1>6. (a \o b) \o flushed = a \o (b \o flushed) /\ b \o flushed \in Seq(SentEvents)
  BY ConcatAssociative
<1> QED
  BY <1>3, <1>4, <1>5, <1>6

\* Before the first read nothing has been parsed.
LEMMA PushedNone ==
    ASSUME NEW s \in Scenarios, s.kind = "http"
    PROVE  Len(Wire(s)) \in Nat /\ PushedAt(s, 0) = [events |-> <<>>, buffer |-> <<>>]
<1>1. Len(Wire(s)) \in Nat /\ SubSeq(Wire(s), 1, 0) = <<>>
  BY WireTells, SubSeqEmpty DEF Texts
<1>2. Reads(<<>> \o <<>>, <<>>, <<>>)
  BY EmptySettled
<1>3. Push(<<>>, <<>>) = [events |-> <<>>, buffer |-> <<>>]
  <2>1. PICK none : none = <<>> /\ Reads(none \o none, none, none)
    BY <1>2
  <2>2. Pushes(none, none, none, none)
    BY <2>1, PushReads, Zenon
  <2>3. EventsIn(<<>>) = <<>>
    BY EventsInAppend, TextFacts
  <2> QED
    BY <2>1, <2>3, <2>2 DEF Pushes
<1> QED
  BY <1>1, <1>3 DEF PushedAt

-----------------------------------------------------------------------------
\* Rendering, event by event.

\* Nothing has been let out.
Nothing(pipe) == [out |-> <<>>, pipe |-> pipe]

\* What renderEvents() computes from the left.
Renders(g, events, pipe) ==
    g = [i \in 0 .. Len(events) |-> IF i = 0 THEN Nothing(pipe) ELSE RenderEvent(g[i - 1], events[i])]

\* One step of that computation.
LEMMA RendersAt ==
    ASSUME NEW events, NEW pipe, NEW g, Renders(g, events, pipe),
           NEW i \in Nat, i <= Len(events), Len(events) \in Nat
    PROVE  g[i] = IF i = 0 THEN Nothing(pipe) ELSE RenderEvent(g[i - 1], events[i])
<1>1. i \in 0 .. Len(events)
  OBVIOUS
<1> QED
  BY <1>1 DEF Renders

\* It is the same for events that agree so far.
LEMMA RendersOnce ==
    ASSUME NEW pipe, NEW Y, NEW s \in Seq(Y), NEW t \in Seq(Y),
           NEW g, Renders(g, s, pipe), NEW h, Renders(h, t, pipe),
           NEW n \in Nat, n <= Len(s), n <= Len(t), \A i \in 1 .. n : s[i] = t[i]
    PROVE  g[n] = h[n]
<1> DEFINE S == {k \in Nat : k <= n => g[k] = h[k]}
<1>1. 0 \in S
  <2>1. g[0] = Nothing(pipe) /\ h[0] = Nothing(pipe)
    BY RendersAt
  <2> QED
    BY <2>1
<1>2. ASSUME NEW k \in Nat, k \in S PROVE k + 1 \in S
  <2> SUFFICES ASSUME k + 1 <= n PROVE g[k + 1] = h[k + 1]
    OBVIOUS
  <2>1. k + 1 \in Nat /\ k + 1 # 0 /\ k + 1 - 1 = k /\ k + 1 <= Len(s) /\ k + 1 <= Len(t)
        /\ s[k + 1] = t[k + 1] /\ g[k] = h[k] /\ Len(s) \in Nat /\ Len(t) \in Nat
    BY <1>2
  <2>2. g[k + 1] = RenderEvent(g[k + 1 - 1], s[k + 1])
    BY <2>1, RendersAt
  <2>3. h[k + 1] = RenderEvent(h[k + 1 - 1], t[k + 1])
    BY <2>1, RendersAt
  <2> QED
    BY <2>1, <2>2, <2>3
<1>3. Nat \subseteq S
  <2> HIDE DEF S
  <2> QED
    BY <1>1, <1>2, Induction
<1> QED
  BY <1>3

\* It exists for all events.
LEMMA RendersExists ==
    ASSUME NEW pipe, NEW Y, NEW s \in Seq(Y)
    PROVE  \E g : Renders(g, s, pipe)
<1> DEFINE Good(n, g) == g = [i \in 0 .. n |-> IF i = 0 THEN Nothing(pipe) ELSE RenderEvent(g[i - 1], s[i])]
           S == {n \in Nat : \E g : Good(n, g)}
<1>1. 0 \in S
  <2>1. Good(0, [i \in 0 .. 0 |-> Nothing(pipe)])
    OBVIOUS
  <2> HIDE DEF Good
  <2> QED
    BY <2>1
<1>2. ASSUME NEW n \in Nat, n \in S PROVE n + 1 \in S
  <2>1. PICK g : Good(n, g)
    BY <1>2
  <2> DEFINE h == [i \in 0 .. n + 1 |-> IF i = n + 1 THEN RenderEvent(g[n], s[n + 1]) ELSE g[i]]
  <2>2. \A i \in 0 .. n : h[i] = g[i]
    OBVIOUS
  <2>3. \A i \in 0 .. n : g[i] = IF i = 0 THEN Nothing(pipe) ELSE RenderEvent(g[i - 1], s[i])
    BY <2>1
  <2>4. h[n + 1] = RenderEvent(g[n], s[n + 1])
    OBVIOUS
  <2>5. DOMAIN h = 0 .. n + 1 /\ h = [i \in DOMAIN h |-> h[i]]
    OBVIOUS
  <2> HIDE DEF h
  <2>6. ASSUME NEW i \in 0 .. n + 1
        PROVE  h[i] = IF i = 0 THEN Nothing(pipe) ELSE RenderEvent(h[i - 1], s[i])
    <3>1. CASE i = n + 1
      <4>1. i # 0 /\ i - 1 = n /\ n \in 0 .. n
        BY <3>1
      <4> QED
        BY <2>2, <2>4, <3>1, <4>1
    <3>2. CASE i # n + 1
      <4>1. i \in 0 .. n /\ (i # 0 => i - 1 \in 0 .. n)
        BY <3>2
      <4>2. h[i] = g[i] /\ (i # 0 => h[i - 1] = g[i - 1])
        BY <2>2, <4>1
      <4>3. g[i] = IF i = 0 THEN Nothing(pipe) ELSE RenderEvent(g[i - 1], s[i])
        BY <2>3, <4>1
      <4> QED
        BY <4>2, <4>3
    <3> QED
      BY <3>1, <3>2
  <2>7. Good(n + 1, h)
    BY <2>5, <2>6
  <2> HIDE DEF Good
  <2> QED
    BY <2>7
<1>3. Nat \subseteq S
  <2> HIDE DEF S
  <2> QED
    BY <1>1, <1>2, Induction
<1>4. Len(s) \in Nat
  OBVIOUS
<1> QED
  BY <1>3, <1>4 DEF Renders

\* Rendered is its last value.
LEMMA RenderedValue ==
    ASSUME NEW Y, NEW s \in Seq(Y), NEW pipe
    PROVE  \E g : Renders(g, s, pipe) /\ Rendered(pipe, s) = g[Len(s)]
<1> DEFINE g == CHOOSE g : Renders(g, s, pipe)
<1>1. Renders(g, s, pipe)
  BY RendersExists
<1>2. Rendered(pipe, s) = g[Len(s)]
  BY DEF Rendered, Nothing, Renders
<1> QED
  BY <1>1, <1>2

\* No event lets nothing out.
LEMMA RenderedEmpty ==
    ASSUME NEW pipe
    PROVE  Rendered(pipe, <<>>) = Nothing(pipe)
<1>1. <<>> \in Seq({}) /\ Len(<<>>) = 0
  OBVIOUS
<1>2. PICK g : Renders(g, <<>>, pipe) /\ Rendered(pipe, <<>>) = g[Len(<<>>)]
  BY <1>1, RenderedValue
<1>3. g[0] = Nothing(pipe)
  BY <1>1, <1>2, RendersAt
<1> QED
  BY <1>1, <1>2, <1>3

\* One more event is rendered in the state the others left.
LEMMA RenderedAppend ==
    ASSUME NEW X, NEW events \in Seq(X), NEW event \in X, NEW pipe
    PROVE  Rendered(pipe, Append(events, event)) = RenderEvent(Rendered(pipe, events), event)
<1>1. PICK n \in Nat : n = Len(events)
  OBVIOUS
<1>2. PICK t : t = Append(events, event)
  OBVIOUS
<1>3. /\ t \in Seq(X) /\ Len(t) = n + 1 /\ t[n + 1] = event
      /\ \A i \in 1 .. n : events[i] = t[i]
  BY <1>1, <1>2, AppendProperties
<1>4. PICK g : Renders(g, events, pipe) /\ Rendered(pipe, events) = g[n]
  BY <1>1, RenderedValue
<1>5. PICK h : Renders(h, t, pipe) /\ Rendered(pipe, t) = h[n + 1]
  BY <1>3, RenderedValue
<1>6. n <= Len(events) /\ n <= Len(t) /\ n + 1 <= Len(t) /\ n + 1 # 0 /\ n + 1 - 1 = n
      /\ n + 1 \in Nat /\ Len(t) \in Nat
  BY <1>1, <1>3
<1>7. g[n] = h[n]
  BY <1>3, <1>4, <1>5, <1>6, RendersOnce
<1>8. h[n + 1] = RenderEvent(h[n + 1 - 1], t[n + 1])
  BY <1>5, <1>6, RendersAt
<1> QED
  BY <1>2, <1>3, <1>4, <1>5, <1>6, <1>7, <1>8

\* A result of Rendered.
Rendering(out, pipe) == [out |-> out, pipe |-> pipe]

\* The event that is let out for an event.
Shown(pipe, event) ==
    IF Parses(event) THEN EventOf(Transform(scenario.provider, pipe.normalizer, ChunkOf(event)).chunk)
    ELSE event

\* The state of the pipeline after it.
NextPipe(pipe, event) ==
    IF Parses(event)
    THEN [normalizer  |-> Transform(scenario.provider, pipe.normalizer, ChunkOf(event)).state,
          accumulated |-> pipe.accumulated \o ChunkOf(event).text,
          chunkCount  |-> pipe.chunkCount + 1]
    ELSE pipe

\* RenderEvent by these two.
LEMMA RenderEventShown ==
    ASSUME NEW out, NEW pipe, NEW event
    PROVE  RenderEvent(Rendering(out, pipe), event)
              = Rendering(Append(out, Shown(pipe, event)), NextPipe(pipe, event))
<1>1. CASE Parses(event)
  BY <1>1 DEF RenderEvent, Rendering, Shown, NextPipe
<1>2. CASE ~Parses(event)
  BY <1>2 DEF RenderEvent, Rendering, Shown, NextPipe
<1> QED
  BY <1>1, <1>2

\* No parser yields the comment of the heartbeat,
LEMMA SentIsNoKeepAlive ==
    ASSUME NEW event \in SentEvents
    PROVE  event # KeepAlive
<1>1. "text" \in DOMAIN KeepAlive /\ "text" \notin DOMAIN CommentEvent
  BY DEF KeepAlive, CommentEvent
<1>2. CommentEvent # KeepAlive
  BY <1>1
<1>3. KeepAlive.type = "comment" /\ DoneEvent.type = "done" /\ \A d : DataEvent(d).type = "data"
  BY DEF KeepAlive, DoneEvent, DataEvent
<1>4. DoneEvent # KeepAlive /\ \A d : DataEvent(d) # KeepAlive
  BY <1>3
<1> QED
  BY <1>2, <1>4 DEF SentEvents

\* nor does the pipeline let it out.
LEMMA ShownIsNoKeepAlive ==
    ASSUME NEW event \in SentEvents, NEW pipe
    PROVE  Shown(pipe, event) # KeepAlive
<1>1. KeepAlive.type = "comment"
  BY DEF KeepAlive
<1>2. ASSUME NEW x PROVE EventOf(x).type = "data"
  BY DEF EventOf, DataEvent
<1> QED
  BY <1>1, <1>2, SentIsNoKeepAlive DEF Shown

\* What the pipeline lets out.
Outgoing(s) == IsSequence(s) /\ \A i \in DOMAIN s : s[i] # KeepAlive

\* What is a sequence over some set is one over its own members.
LEMMA SequenceFacts ==
    ASSUME NEW Y, NEW s \in Seq(Y)
    PROVE  IsSequence(s)
<1>1. \A i \in 1 .. Len(s) : s[i] \in {s[j] : j \in DOMAIN s}
  OBVIOUS
<1>2. s = [i \in 1 .. Len(s) |-> s[i]] /\ Len(s) \in Nat
  OBVIOUS
<1> QED
  BY <1>1, <1>2, IsASeq DEF IsSequence

\* Two sequences are sequences over one set.
LEMMA JoinSequences ==
    ASSUME NEW s, NEW t, IsSequence(s), IsSequence(t)
    PROVE  \E Y : s \in Seq(Y) /\ t \in Seq(Y)
<1> DEFINE A == {s[i] : i \in DOMAIN s}
           B == {t[i] : i \in DOMAIN t}
<1>1. s \in Seq(A) /\ t \in Seq(B)
  BY DEF IsSequence
<1> HIDE DEF A, B
<1>2. s \in Seq(A \cup B) /\ t \in Seq(A \cup B)
  BY <1>1
<1> QED
  BY <1>2

\* Nothing may be let out,
LEMMA OutgoingEmpty == Outgoing(<<>>)
<1>1. <<>> \in Seq({}) /\ DOMAIN <<>> = {}
  OBVIOUS
<1> QED
  BY <1>1, SequenceFacts DEF Outgoing

\* and one event more that is no comment of the heartbeat.
LEMMA OutgoingAppend ==
    ASSUME NEW s, Outgoing(s), NEW e, e # KeepAlive
    PROVE  Outgoing(Append(s, e))
<1>1. PICK Y : s \in Seq(Y)
  BY DEF Outgoing, IsSequence
<1>2. PICK n \in Nat : n = Len(s)
  BY <1>1
<1>3. PICK t : t = Append(s, e)
  OBVIOUS
<1>4. s \in Seq(Y \cup {e}) /\ e \in Y \cup {e}
  BY <1>1
<1>5. t \in Seq(Y \cup {e})
  BY <1>3, <1>4, AppendProperties
<1>6. /\ Len(t) = n + 1 /\ t[n + 1] = e /\ DOMAIN t = 1 .. n + 1
      /\ \A i \in 1 .. n : t[i] = s[i]
  BY <1>2, <1>3, <1>4, <1>5, AppendProperties
<1>7. DOMAIN s = 1 .. n
  BY <1>1, <1>2
<1>8. ASSUME NEW i \in DOMAIN t PROVE t[i] # KeepAlive
  <2>1. i \in 1 .. n \/ i = n + 1
    BY <1>6
  <2> QED
    BY <1>6, <1>7, <2>1 DEF Outgoing
<1> QED
  BY <1>3, <1>5, <1>8, SequenceFacts DEF Outgoing

\* What is let out for the events of a parser.
LEMMA RenderedShape ==
    ASSUME NEW pipe
    PROVE  \A s \in Seq(SentEvents) :
              \E out, after : Rendered(pipe, s) = Rendering(out, after) /\ Outgoing(out)
<1> DEFINE Good(s) == \E out, after : Rendered(pipe, s) = Rendering(out, after) /\ Outgoing(out)
           S == {s \in Seq(SentEvents) : Good(s)}
<1>1. Good(<<>>)
  <2>1. PICK none : none = <<>> /\ Outgoing(none)
    BY OutgoingEmpty
  <2>2. Rendered(pipe, <<>>) = Rendering(none, pipe)
    BY <2>1, RenderedEmpty DEF Nothing, Rendering
  <2> QED
    BY <2>1, <2>2
<1>2. ASSUME NEW s \in Seq(SentEvents), NEW e \in SentEvents, Good(s) PROVE Good(Append(s, e))
  <2>1. PICK out, after : Rendered(pipe, s) = Rendering(out, after) /\ Outgoing(out)
    BY <1>2
  <2>2. Rendered(pipe, Append(s, e)) = RenderEvent(Rendered(pipe, s), e)
    BY RenderedAppend
  <2>3. Rendered(pipe, Append(s, e)) = Rendering(Append(out, Shown(after, e)), NextPipe(after, e))
    BY <2>1, <2>2, RenderEventShown
  <2>4. Outgoing(Append(out, Shown(after, e)))
    BY <2>1, ShownIsNoKeepAlive, OutgoingAppend
  <2> QED
    BY <2>3, <2>4
<1> HIDE DEF Good
<1>3. <<>> \in S /\ \A s \in Seq(SentEvents), e \in SentEvents : s \in S => Append(s, e) \in S
  <2>1. <<>> \in Seq(SentEvents)
    OBVIOUS
  <2>2. ASSUME NEW s \in Seq(SentEvents), NEW e \in SentEvents PROVE Append(s, e) \in Seq(SentEvents)
    BY AppendProperties
  <2> QED
    BY <1>1, <1>2, <2>1, <2>2
<1> HIDE DEF S
<1>4. Seq(SentEvents) \subseteq S
  BY <1>3, SeqInduction
<1> USE DEF S
<1> QED
  BY <1>4 DEF Good

\* Appending to the second of two sequences.
LEMMA JoinAppend ==
    ASSUME NEW s, NEW t, IsSequence(s), IsSequence(t), NEW e
    PROVE  s \o Append(t, e) = Append(s \o t, e)
<1>1. PICK Y : s \in Seq(Y) /\ t \in Seq(Y)
  BY JoinSequences
<1>2. s \in Seq(Y \cup {e}) /\ t \in Seq(Y \cup {e}) /\ e \in Y \cup {e}
  BY <1>1
<1> QED
  BY <1>2, ConcatAppend

\* Rendering goes on from the state where it stopped.
THEOREM RenderedConcat ==
    ASSUME NEW pipe, NEW s \in Seq(SentEvents), NEW out, NEW after,
           Rendered(pipe, s) = Rendering(out, after), Outgoing(out)
    PROVE  \A t \in Seq(SentEvents) : \A more, last :
              Rendered(after, t) = Rendering(more, last) =>
                 Rendered(pipe, s \o t) = Rendering(out \o more, last)
<1> DEFINE Good(t) == \A more, last : Rendered(after, t) = Rendering(more, last) =>
                         Rendered(pipe, s \o t) = Rendering(out \o more, last)
           S == {t \in Seq(SentEvents) : Good(t)}
<1>1. \A a, b, c, d : Rendering(a, b) = Rendering(c, d) => a = c /\ b = d
  BY DEF Rendering
<1>2. Good(<<>>)
  <2> SUFFICES ASSUME NEW more, NEW last, Rendered(after, <<>>) = Rendering(more, last)
               PROVE  Rendered(pipe, s \o <<>>) = Rendering(out \o more, last)
    OBVIOUS
  <2>1. Rendered(after, <<>>) = Rendering(<<>>, after)
    BY RenderedEmpty DEF Nothing, Rendering
  <2>2. more = <<>> /\ last = after
    BY <1>1, <2>1
  <2>3. s \o <<>> = s
    OBVIOUS
  <2>4. out \o more = out
    <3>1. PICK Y : out \in Seq(Y)
      BY DEF Outgoing, IsSequence
    <3> QED
      BY <2>2, <3>1
  <2> QED
    BY <2>2, <2>3, <2>4
<1>3. ASSUME NEW t \in Seq(SentEvents), NEW e \in SentEvents, Good(t) PROVE Good(Append(t, e))
  <2> SUFFICES ASSUME NEW more, NEW last, Rendered(after, Append(t, e)) = Rendering(more, last)
               PROVE  Rendered(pipe, s \o Append(t, e)) = Rendering(out \o more, last)
    OBVIOUS
  <2>1. PICK some, then : Rendered(after, t) = Rendering(some, then) /\ Outgoing(some)
    BY RenderedShape
  <2>2. Rendered(after, Append(t, e)) = RenderEvent(Rendered(after, t), e)
    BY RenderedAppend
  <2>3. Rendering(more, last) = Rendering(Append(some, Shown(then, e)), NextPipe(then, e))
    BY <2>1, <2>2, RenderEventShown
  <2>4. more = Append(some, Shown(then, e)) /\ last = NextPipe(then, e)
    <3>1. PICK a, b : a = Append(some, Shown(then, e)) /\ b = NextPipe(then, e)
      OBVIOUS
    <3>2. Rendering(more, last) = Rendering(a, b)
      BY <2>3, <3>1
    <3>3. more = a /\ last = b
      BY <3>2 DEF Rendering
    <3> QED
      BY <3>1, <3>3
  <2>5. Rendered(pipe, s \o t) = Rendering(out \o some, then)
    BY <1>3, <2>1
  <2>6. s \o Append(t, e) = Append(s \o t, e) /\ s \o t \in Seq(SentEvents)
    OBVIOUS
  <2>7. Rendered(pipe, Append(s \o t, e)) = RenderEvent(Rendered(pipe, s \o t), e)
    BY <2>6, RenderedAppend
  <2>8. Rendered(pipe, Append(s \o t, e))
           = Rendering(Append(out \o some, Shown(then, e)), NextPipe(then, e))
    BY <2>5, <2>7, RenderEventShown
  <2>9. out \o more = Append(out \o some, Shown(then, e))
    BY <2>1, <2>4, JoinAppend DEF Outgoing
  <2> QED
    BY <2>4, <2>6, <2>8, <2>9
<1> HIDE DEF Good
<1>4. <<>> \in S /\ \A t \in Seq(SentEvents), e \in SentEvents : t \in S => Append(t, e) \in S
  <2>1. <<>> \in Seq(SentEvents)
    OBVIOUS
  <2>2. ASSUME NEW t \in Seq(SentEvents), NEW e \in SentEvents PROVE Append(t, e) \in Seq(SentEvents)
    BY AppendProperties
  <2> QED
    BY <1>2, <1>3, <2>1, <2>2
<1> HIDE DEF S
<1>5. Seq(SentEvents) \subseteq S
  BY <1>4, SeqInduction
<1> USE DEF S
<1> QED
  BY <1>5 DEF Good

-----------------------------------------------------------------------------
\* What a client reads, but for the heartbeat.

\* The members of s that are in K, in order.
OnlyIn(K, s) == FlattenSeq([i \in DOMAIN s |-> IF s[i] \in K THEN <<s[i]>> ELSE <<>>])

\* It is a sequence over K.
LEMMA OnlyInType ==
    ASSUME NEW X, NEW K, NEW s \in Seq(X)
    PROVE  /\ [i \in DOMAIN s |-> IF s[i] \in K THEN <<s[i]>> ELSE <<>>] \in Seq(Seq(K))
           /\ OnlyIn(K, s) \in Seq(K)
<1>1. PICK Y : Y = Seq(K)
  OBVIOUS
<1>2. PICK n \in Nat : n = Len(s) /\ DOMAIN s = 1 .. n
  OBVIOUS
<1>3. \A i \in 1 .. n : (IF s[i] \in K THEN <<s[i]>> ELSE <<>>) \in Y
  BY <1>1, <1>2
<1>4. [i \in 1 .. n |-> IF s[i] \in K THEN <<s[i]>> ELSE <<>>] \in [1 .. n -> Y]
  BY <1>3
<1>5. [i \in 1 .. n |-> IF s[i] \in K THEN <<s[i]>> ELSE <<>>] \in Seq(Y)
  BY <1>4
<1>6. [i \in DOMAIN s |-> IF s[i] \in K THEN <<s[i]>> ELSE <<>>] \in Seq(Seq(K))
  BY <1>1, <1>2, <1>5
<1> QED
  BY <1>6, FlattenType DEF OnlyIn

\* One more member is taken, or it is not.
LEMMA OnlyInAppend ==
    ASSUME NEW X, NEW K, NEW s \in Seq(X), NEW e \in X
    PROVE  OnlyIn(K, Append(s, e)) = IF e \in K THEN Append(OnlyIn(K, s), e) ELSE OnlyIn(K, s)
<1>1. PICK n \in Nat : n = Len(s) /\ DOMAIN s = 1 .. n
  OBVIOUS
<1>2. PICK longer : longer = Append(s, e)
  OBVIOUS
<1>3. /\ longer \in Seq(X) /\ Len(longer) = n + 1 /\ longer[n + 1] = e
      /\ DOMAIN longer = 1 .. n + 1 /\ \A i \in 1 .. n : longer[i] = s[i]
  BY <1>1, <1>2, AppendProperties
<1>4. PICK Y : Y = Seq(K)
  OBVIOUS
<1>5. PICK x : x = IF e \in K THEN <<e>> ELSE <<>>
  OBVIOUS
<1>6. x \in Y
  <2>1. <<>> \in Y /\ (e \in K => <<e>> \in Y)
    BY <1>4
  <2> QED
    BY <1>5, <2>1
<1>7. PICK a : a = [i \in 1 .. n |-> IF s[i] \in K THEN <<s[i]>> ELSE <<>>]
  OBVIOUS
<1>8. a \in Seq(Y) /\ Len(a) = n /\ OnlyIn(K, s) = FlattenSeq(a)
  BY <1>1, <1>4, <1>7, OnlyInType DEF OnlyIn
<1>9. PICK b : b = [i \in 1 .. n + 1 |-> IF longer[i] \in K THEN <<longer[i]>> ELSE <<>>]
  OBVIOUS
<1>10. b \in Seq(Y) /\ Len(b) = n + 1 /\ OnlyIn(K, longer) = FlattenSeq(b)
  BY <1>3, <1>4, <1>9, OnlyInType DEF OnlyIn
<1>11. b = Append(a, x)
  <2>1. PICK u : u = Append(a, x)
    OBVIOUS
  <2>2. /\ u \in Seq(Y) /\ Len(u) = n + 1 /\ u[n + 1] = x
        /\ \A i \in 1 .. n : u[i] = a[i]
    BY <1>6, <1>8, <2>1, FrontFacts
  <2>3. \A i \in 1 .. n : b[i] = u[i]
    BY <1>3, <1>7, <1>9, <2>2
  <2>4. b[n + 1] = u[n + 1]
    BY <1>3, <1>5, <1>9, <2>2
  <2>5. \A i \in 1 .. n + 1 : b[i] = u[i]
    <3> SUFFICES ASSUME NEW i \in 1 .. n + 1 PROVE b[i] = u[i]
      OBVIOUS
    <3>1. i \in 1 .. n \/ i = n + 1
      OBVIOUS
    <3> QED
      BY <2>3, <2>4, <3>1
  <2> QED
    BY <1>10, <2>1, <2>2, <2>5, SeqEqual
<1>12. FlattenSeq(Append(a, x)) = FlattenSeq(a) \o x
  BY <1>4, <1>6, <1>8, FlattenAppend
<1>13. OnlyIn(K, longer) = OnlyIn(K, s) \o x
  BY <1>8, <1>10, <1>11, <1>12
<1>14. OnlyIn(K, s) \in Seq(K)
  BY OnlyInType
<1>15. CASE e \notin K
  BY <1>2, <1>5, <1>13, <1>14, <1>15
<1>16. CASE e \in K
  <2>1. OnlyIn(K, s) \o <<e>> = Append(OnlyIn(K, s), e)
    BY <1>14, <1>16, ConcatAppend
  <2> QED
    BY <1>2, <1>5, <1>13, <1>16, <2>1
<1> QED
  BY <1>15, <1>16

\* What a client has read of its stream but the comments that keep it open.
News(read) == FlattenSeq([i \in DOMAIN read |-> IF read[i] # KeepAlive THEN <<read[i]>> ELSE <<>>])

\* FromUpstream of the model, for what has been written.
LEMMA NewsIsFromUpstream == FromUpstream = News(written)
  BY DEF FromUpstream, News, Selected

\* News by OnlyIn.
LEMMA NewsOnly ==
    ASSUME NEW X, NEW s \in Seq(X)
    PROVE  News(s) = OnlyIn(X \ {KeepAlive}, s) /\ News(s) \in Seq(X)
<1>1. \A i \in DOMAIN s : s[i] # KeepAlive <=> s[i] \in X \ {KeepAlive}
  OBVIOUS
<1>2. News(s) = OnlyIn(X \ {KeepAlive}, s)
  BY <1>1 DEF News, OnlyIn
<1>3. OnlyIn(X \ {KeepAlive}, s) \in Seq(X \ {KeepAlive})
  BY OnlyInType
<1> QED
  BY <1>2, <1>3

\* One more event is news, unless it is a keep-alive comment.
LEMMA NewsAppend ==
    ASSUME NEW X, NEW s \in Seq(X), NEW e \in X
    PROVE  News(Append(s, e)) = IF e = KeepAlive THEN News(s) ELSE Append(News(s), e)
<1>1. PICK K : K = X \ {KeepAlive}
  OBVIOUS
<1>2. Append(s, e) \in Seq(X) /\ (e \in K <=> e # KeepAlive)
  BY <1>1
<1>3. News(s) = OnlyIn(K, s) /\ News(Append(s, e)) = OnlyIn(K, Append(s, e))
  BY <1>1, <1>2, NewsOnly
<1>4. OnlyIn(K, Append(s, e)) = IF e \in K THEN Append(OnlyIn(K, s), e) ELSE OnlyIn(K, s)
  BY OnlyInAppend
<1> QED
  BY <1>2, <1>3, <1>4

\* Nothing but a keep-alive comment is left out.
LEMMA NewsConcat ==
    ASSUME NEW s, NEW out, IsSequence(s), Outgoing(out)
    PROVE  News(s \o out) = News(s) \o out
<1> DEFINE Z == {out[i] : i \in DOMAIN out}
<1>1. out \in Seq(Z) /\ KeepAlive \notin Z
  BY DEF Outgoing, IsSequence
<1> HIDE DEF Z
<1>2. PICK X : s \in Seq(X) /\ Z \subseteq X
  <2> DEFINE A == {s[i] : i \in DOMAIN s}
  <2>1. s \in Seq(A)
    BY DEF IsSequence
  <2> HIDE DEF A
  <2>2. s \in Seq(A \cup Z) /\ Z \subseteq A \cup Z
    BY <2>1
  <2> QED
    BY <2>2
<1>3. News(s) \in Seq(X)
  BY <1>2, NewsOnly
<1> DEFINE S == {t \in Seq(Z) : News(s \o t) = News(s) \o t}
<1>4. <<>> \in S
  <2>1. s \o <<>> = s /\ News(s) \o <<>> = News(s) /\ <<>> \in Seq(Z)
    BY <1>2, <1>3
  <2> QED
    BY <2>1
<1>5. ASSUME NEW t \in Seq(Z), NEW e \in Z, t \in S PROVE Append(t, e) \in S
  <2>1. t \in Seq(X) /\ e \in X /\ e # KeepAlive /\ Append(t, e) \in Seq(Z)
    BY <1>1, <1>2
  <2>2. s \o Append(t, e) = Append(s \o t, e) /\ s \o t \in Seq(X)
    BY <1>2, <2>1, ConcatAppend
  <2>3. News(Append(s \o t, e)) = Append(News(s \o t), e)
    BY <2>1, <2>2, NewsAppend
  <2>4. News(s) \o Append(t, e) = Append(News(s) \o t, e)
    BY <1>3, <2>1, ConcatAppend
  <2>5. News(s \o t) = News(s) \o t
    BY <1>5
  <2> QED
    BY <2>1, <2>2, <2>3, <2>4, <2>5
<1>6. Seq(Z) \subseteq S
  <2> HIDE DEF S
  <2> QED
    BY <1>4, <1>5, SeqInduction
<1> QED
  BY <1>1, <1>6

\* The heartbeat is no news.
LEMMA NewsHeartbeat ==
    ASSUME NEW s, IsSequence(s)
    PROVE  /\ IsSequence(s \o <<KeepAlive>>)
           /\ News(s \o <<KeepAlive>>) = News(s)
<1>1. PICK X : s \in Seq(X) /\ KeepAlive \in X
  <2> DEFINE A == {s[i] : i \in DOMAIN s}
  <2>1. s \in Seq(A)
    BY DEF IsSequence
  <2> HIDE DEF A
  <2>2. s \in Seq(A \cup {KeepAlive})
    BY <2>1
  <2> QED
    BY <2>2
<1>2. s \o <<KeepAlive>> = Append(s, KeepAlive) /\ Append(s, KeepAlive) \in Seq(X)
  BY <1>1
<1>3. News(Append(s, KeepAlive)) = News(s)
  BY <1>1, NewsAppend
<1> QED
  BY <1>2, <1>3, SequenceFacts

\* Two sequences joined are a sequence,
LEMMA JoinedIsSequence ==
    ASSUME NEW s, NEW t, IsSequence(s), IsSequence(t)
    PROVE  IsSequence(s \o t)
<1>1. PICK X : s \in Seq(X) /\ t \in Seq(X)
  BY JoinSequences
<1>2. s \o t \in Seq(X)
  BY <1>1
<1> QED
  BY <1>2, SequenceFacts

\* and the first of them is its beginning.
LEMMA PrefixOfJoin ==
    ASSUME NEW s, NEW t, IsSequence(s), IsSequence(t)
    PROVE  IsPrefix(s, s \o t)
<1>1. PICK X : s \in Seq(X) /\ t \in Seq(X)
  BY JoinSequences
<1>2. PICK n \in Nat, m \in Nat : n = Len(s) /\ m = Len(t)
  BY <1>1
<1>3. PICK u : u = s \o t
  OBVIOUS
<1>4. u \in Seq(X) /\ Len(u) = n + m /\ \A i \in 1 .. n : u[i] = s[i]
  BY <1>1, <1>2, <1>3
<1>5. /\ SubSeq(s, 1, n) \in Seq(X) /\ Len(SubSeq(s, 1, n)) = n
      /\ \A i \in 1 .. n : SubSeq(s, 1, n)[i] = s[i]
  BY <1>1, <1>2
<1>6. /\ SubSeq(u, 1, n) \in Seq(X) /\ Len(SubSeq(u, 1, n)) = n
      /\ \A i \in 1 .. n : SubSeq(u, 1, n)[i] = u[i]
  BY <1>2, <1>4
<1>7. SubSeq(s, 1, n) = SubSeq(u, 1, n)
  BY <1>4, <1>5, <1>6, SeqEqual
<1>8. n <= n + m
  BY <1>2
<1> QED
  BY <1>2, <1>3, <1>4, <1>7, <1>8 DEF IsPrefix

-----------------------------------------------------------------------------
\* An http upstream from end to end.

\* What a client that stayed has read, and the relay still holds, of an http
\* upstream of which taken pieces have been read, however they were cut.
WhileRelaying ==
    LET pushed   == PushedAt(scenario, taken)
        rendered == Rendered(NewPipeline, pushed.events)
    IN  /\ buffer = pushed.buffer /\ pipeline = rendered.pipe
        /\ client = "connected" => News(written) = rendered.out

\* The body of an http upstream ends when all has been read, and is not cancelled before the relay.
WireRelay ==
    /\ scenario \in Scenarios /\ taken \in 0 .. Len(Wire(scenario)) /\ IsSequence(written)
    /\ body \in {"open", "closed", "broken", "cancelled"}
    /\ body = "closed" => taken = Len(Wire(scenario))
    /\ phase = "routing" => body = "open"
    /\ phase # "ended" => WhileRelaying

\* The inductive invariant of an http upstream.
HttpIInv == scenario.kind = "http" => WireRelay /\ ClientSeesEvents

\* Rendering depends on the upstream only.
LEMMA RenderedStays ==
    ASSUME scenario' = scenario, NEW p, NEW e
    PROVE  Rendered(p, e)' = Rendered(p, e)
  BY DEF Rendered, RenderEvent

\* One read more lets out what Rendered lets out for the events that it completes.
LEMMA ReadOn ==
    ASSUME scenario \in Scenarios, scenario.kind = "http", NEW n \in Nat, NEW m \in Nat,
           n <= m, m <= Len(Wire(scenario)),
           NEW pushed, pushed = Push(PushedAt(scenario, n).buffer, SubSeq(Wire(scenario), n + 1, m)),
           NEW out, NEW pipe, Rendered(NewPipeline, PushedAt(scenario, n).events) = Rendering(out, pipe)
    PROVE  /\ PushedAt(scenario, m).buffer = pushed.buffer
           /\ \E more, last :
                 /\ Rendered(pipe, pushed.events) = Rendering(more, last)
                 /\ Rendered(NewPipeline, PushedAt(scenario, m).events) = Rendering(out \o more, last)
                 /\ Outgoing(out) /\ Outgoing(more)
<1>1. /\ PushedAt(scenario, m).buffer = pushed.buffer
      /\ PushedAt(scenario, m).events = PushedAt(scenario, n).events \o pushed.events
      /\ PushedAt(scenario, n).events \in Seq(SentEvents) /\ pushed.events \in Seq(SentEvents)
  <2>1. PICK s \in Scenarios : s = scenario /\ s.kind = "http"
    OBVIOUS
  <2>2. m <= Len(Wire(s)) /\ pushed = Push(PushedAt(s, n).buffer, SubSeq(Wire(s), n + 1, m))
    BY <2>1
  <2>3. /\ PushedAt(s, m).buffer = pushed.buffer
        /\ PushedAt(s, m).events = PushedAt(s, n).events \o pushed.events
        /\ PushedAt(s, n).events \in Seq(SentEvents) /\ pushed.events \in Seq(SentEvents)
    BY <2>1, <2>2, PushedOn
  <2> QED
    BY <2>1, <2>3
<1>2. Outgoing(out)
  <2>1. PICK o, p : Rendered(NewPipeline, PushedAt(scenario, n).events) = Rendering(o, p) /\ Outgoing(o)
    BY <1>1, RenderedShape
  <2>2. Rendering(o, p) = Rendering(out, pipe)
    BY <2>1
  <2>3. o = out
    BY <2>2 DEF Rendering
  <2> QED
    BY <2>1, <2>3
<1>3. PICK more, last : Rendered(pipe, pushed.events) = Rendering(more, last) /\ Outgoing(more)
  BY <1>1, RenderedShape
<1>4. Rendered(NewPipeline, PushedAt(scenario, m).events) = Rendering(out \o more, last)
  BY <1>1, <1>2, <1>3, RenderedConcat
<1> QED
  BY <1>1, <1>2, <1>3, <1>4

\* At the end of the bytes, the tail lets out what was missing.
LEMMA FlushAll ==
    ASSUME scenario \in Scenarios, scenario.kind = "http", NEW n, n = Len(Wire(scenario)),
           NEW out, NEW pipe, Rendered(NewPipeline, PushedAt(scenario, n).events) = Rendering(out, pipe)
    PROVE  \E more, last :
              /\ Drained(pipe, PushedAt(scenario, n).buffer) = Rendering(more, last)
              /\ Rendered(NewPipeline, scenario.events) = Rendering(out \o more, last)
              /\ Outgoing(out) /\ Outgoing(more)
<1>1. PICK a \in Seq(SentEvents), b \in Seq(SentEvents) :
         /\ a = PushedAt(scenario, n).events /\ b = Flush(PushedAt(scenario, n).buffer)
         /\ a \o b = scenario.events
  BY PushedAll
<1>2. Outgoing(out)
  <2>1. PICK o, p : Rendered(NewPipeline, a) = Rendering(o, p) /\ Outgoing(o)
    BY RenderedShape
  <2>2. Rendering(o, p) = Rendering(out, pipe)
    BY <1>1, <2>1
  <2>3. o = out
    BY <2>2 DEF Rendering
  <2> QED
    BY <2>1, <2>3
<1>3. PICK more, last : Rendered(pipe, b) = Rendering(more, last) /\ Outgoing(more)
  BY RenderedShape
<1>4. Rendered(NewPipeline, a \o b) = Rendering(out \o more, last)
  <2>1. Rendered(NewPipeline, a) = Rendering(out, pipe)
    BY <1>1
  <2>2. \A t \in Seq(SentEvents) : \A r, l : Rendered(pipe, t) = Rendering(r, l) =>
            Rendered(NewPipeline, a \o t) = Rendering(out \o r, l)
    BY <1>2, <2>1, RenderedConcat
  <2> QED
    BY <1>3, <2>2, Zenon
<1> QED
  BY <1>1, <1>2, <1>3, <1>4 DEF Drained

\* What has been let out is the beginning of what will have been let out in the end.
LEMMA ReadIsPrefix ==
    ASSUME scenario \in Scenarios, scenario.kind = "http", NEW n \in Nat, n <= Len(Wire(scenario))
    PROVE  \E out, pipe :
              /\ Rendered(NewPipeline, PushedAt(scenario, n).events) = Rendering(out, pipe)
              /\ IsPrefix(out, Rendered(NewPipeline, scenario.events).out)
<1>1. PICK a \in Seq(SentEvents), b \in Seq(SentEvents) :
         a = PushedAt(scenario, n).events /\ scenario.events = a \o b
  BY PushedPrefix
<1>2. PICK out, pipe : Rendered(NewPipeline, a) = Rendering(out, pipe) /\ Outgoing(out)
  BY RenderedShape
<1>3. PICK more, last : Rendered(pipe, b) = Rendering(more, last) /\ Outgoing(more)
  BY RenderedShape
<1>4. Rendered(NewPipeline, a \o b) = Rendering(out \o more, last)
  BY <1>2, <1>3, RenderedConcat
<1>5. IsPrefix(out, out \o more)
  BY <1>2, <1>3, PrefixOfJoin DEF Outgoing
<1>6. Rendering(out \o more, last).out = out \o more
  BY DEF Rendering
<1> QED
  BY <1>1, <1>2, <1>4, <1>5, <1>6

\* The invariant holds at first.
LEMMA HttpInit == Init => HttpIInv
<1> SUFFICES ASSUME Init, scenario.kind = "http" PROVE WireRelay /\ ClientSeesEvents
  BY DEF HttpIInv
<1>1. /\ scenario \in Scenarios /\ phase = "routing" /\ body = "open" /\ taken = 0 /\ buffer = <<>>
      /\ written = <<>> /\ pipeline = NewPipeline
  BY DEF Init
<1>2. Len(Wire(scenario)) \in Nat /\ PushedAt(scenario, 0) = [events |-> <<>>, buffer |-> <<>>]
  BY <1>1, PushedNone
<1>3. News(<<>>) = <<>> /\ IsSequence(<<>>)
  <2>1. News(<<>>) = FlattenSeq(<<>>)
    BY DEF News
  <2> QED
    BY <2>1, OutgoingEmpty DEF Outgoing, FlattenSeq
<1>4. Rendered(NewPipeline, <<>>) = Rendering(<<>>, NewPipeline)
  BY RenderedEmpty DEF Nothing, Rendering
<1>5. WhileRelaying
  BY <1>1, <1>2, <1>3, <1>4 DEF WhileRelaying, Rendering
<1>6. WireRelay
  BY <1>1, <1>2, <1>3, <1>5 DEF WireRelay
<1>7. IsPrefix(News(written), Rendered(NewPipeline, scenario.events).out)
  <2>1. 0 \in Nat /\ 0 <= Len(Wire(scenario))
    BY <1>2
  <2>2. PICK out, pipe : /\ Rendered(NewPipeline, PushedAt(scenario, 0).events) = Rendering(out, pipe)
                         /\ IsPrefix(out, Rendered(NewPipeline, scenario.events).out)
    BY <1>1, <2>1, ReadIsPrefix
  <2>3. Rendering(out, pipe) = Rendering(<<>>, NewPipeline)
    BY <1>2, <1>4, <2>2
  <2>4. out = <<>>
    BY <2>3 DEF Rendering
  <2> QED
    BY <1>1, <1>3, <2>2, <2>4
<1>8. ~Complete
  BY <1>1 DEF Complete, Delivered
<1> QED
  BY <1>6, <1>7, <1>8, NewsIsFromUpstream DEF ClientSeesEvents

\* Nothing new in the stream.
LEMMA SeesNoMore ==
    ASSUME ClientSeesEvents, scenario.kind = "http", scenario' = scenario,
           News(written') = News(written), ~Complete'
    PROVE  ClientSeesEvents'
<1>1. Rendered(NewPipeline, scenario.events)' = Rendered(NewPipeline, scenario.events)
  BY RenderedStays DEF NewPipeline, NewNormalizer
<1>2. FromUpstream' = FromUpstream
  BY DEF FromUpstream, News, Selected
<1> QED
  BY <1>1, <1>2 DEF ClientSeesEvents

\* A step that neither reads nor writes to a client that stays.
LEMMA StaysRelaying ==
    ASSUME WhileRelaying, UNCHANGED <<scenario, taken, buffer, pipeline>>,
           client' = "connected" => client = "connected" /\ News(written') = News(written)
    PROVE  WhileRelaying'
<1>1. Rendered(NewPipeline, PushedAt(scenario, taken).events)'
         = Rendered(NewPipeline, PushedAt(scenario, taken).events)
  BY RenderedStays DEF NewPipeline, NewNormalizer, PushedAt, Push
<1> QED
  BY <1>1 DEF WhileRelaying

\* The bytes are read on.
LEMMA HttpRead ==
    ASSUME WireRelay, ClientSeesEvents, scenario.kind = "http", Read
    PROVE  WireRelay' /\ ClientSeesEvents'
<1>1. PICK m \in taken + 1 .. Len(Wire(scenario)) :
         Relay(SubSeq(Wire(scenario), taken + 1, m)) /\ taken' = m
  BY DEF Read
<1>2. phase = "relaying" /\ body = "open" /\ UNCHANGED <<scenario, phase, client, body>>
  BY DEF Read, routeVars
<1>3. scenario \in Scenarios /\ taken \in 0 .. Len(Wire(scenario)) /\ IsSequence(written) /\ WhileRelaying
  BY <1>2 DEF WireRelay
<1>4. PICK n \in Nat : n = taken
  BY <1>3
<1>5. Len(Wire(scenario)) \in Nat
  BY <1>3, PushedNone
<1>6. m \in Nat /\ n <= m /\ m <= Len(Wire(scenario)) /\ n <= Len(Wire(scenario))
  BY <1>1, <1>4, <1>5
<1>7. PICK out, pipe : /\ Rendered(NewPipeline, PushedAt(scenario, n).events) = Rendering(out, pipe)
                       /\ IsPrefix(out, Rendered(NewPipeline, scenario.events).out)
  BY <1>3, <1>6, ReadIsPrefix
<1>8. PICK pushed : pushed = Push(PushedAt(scenario, n).buffer, SubSeq(Wire(scenario), n + 1, m))
  OBVIOUS
<1>9. /\ PushedAt(scenario, m).buffer = pushed.buffer
      /\ \E more, last :
            /\ Rendered(pipe, pushed.events) = Rendering(more, last)
            /\ Rendered(NewPipeline, PushedAt(scenario, m).events) = Rendering(out \o more, last)
            /\ Outgoing(out) /\ Outgoing(more)
  <2>1. \A i \in Nat : \A j \in Nat : \A p : \A o : \A q :
           (/\ i <= j /\ j <= Len(Wire(scenario))
            /\ p = Push(PushedAt(scenario, i).buffer, SubSeq(Wire(scenario), i + 1, j))
            /\ Rendered(NewPipeline, PushedAt(scenario, i).events) = Rendering(o, q)) =>
           /\ PushedAt(scenario, j).buffer = p.buffer
           /\ \E more, last :
                 /\ Rendered(q, p.events) = Rendering(more, last)
                 /\ Rendered(NewPipeline, PushedAt(scenario, j).events) = Rendering(o \o more, last)
                 /\ Outgoing(o) /\ Outgoing(more)
    BY <1>3, ReadOn
  <2> QED
    <3>1. n \in Nat /\ m \in Nat /\ n <= m /\ m <= Len(Wire(scenario))
      BY <1>6
    <3>2. Rendered(NewPipeline, PushedAt(scenario, n).events) = Rendering(out, pipe)
      BY <1>7
    <3>3. \A p : p = Push(PushedAt(scenario, n).buffer, SubSeq(Wire(scenario), n + 1, m)) =>
           /\ PushedAt(scenario, m).buffer = p.buffer
           /\ \E more, last :
                 /\ Rendered(pipe, p.events) = Rendering(more, last)
                 /\ Rendered(NewPipeline, PushedAt(scenario, m).events) = Rendering(out \o more, last)
                 /\ Outgoing(out) /\ Outgoing(more)
      BY <2>1, <3>1, <3>2
    <3> QED
      BY <1>8, <3>3
<1>10. PICK more, last :
            /\ Rendered(pipe, pushed.events) = Rendering(more, last)
            /\ Rendered(NewPipeline, PushedAt(scenario, m).events) = Rendering(out \o more, last)
            /\ Outgoing(out) /\ Outgoing(more)
  BY <1>9
<1>11. /\ buffer = PushedAt(scenario, n).buffer /\ pipeline = pipe
       /\ client = "connected" => News(written) = out
  BY <1>3, <1>4, <1>7 DEF WhileRelaying, Rendering
<1>12. /\ buffer' = pushed.buffer
       /\ pipeline' = Rendered(pipe, pushed.events).pipe
       /\ Write(Rendered(pipe, pushed.events).out)
  BY <1>1, <1>4, <1>8, <1>11 DEF Relay
<1>13. pipeline' = last /\ Write(more)
  BY <1>10, <1>12 DEF Rendering
<1>14. IsSequence(written')
  BY <1>3, <1>10, <1>13, JoinedIsSequence DEF Write, Outgoing
<1>15. client = "connected" => News(written') = out \o more
  <2>1. News(written \o more) = News(written) \o more
    BY <1>3, <1>10, NewsConcat
  <2> QED
    BY <1>11, <1>13, <2>1 DEF Write
<1>16. WhileRelaying'
  <2>1. Rendered(NewPipeline, PushedAt(scenario, m).events)'
          = Rendered(NewPipeline, PushedAt(scenario, m).events)
    BY <1>2, RenderedStays DEF NewPipeline, NewNormalizer, PushedAt, Push
  <2>2. PushedAt(scenario, taken)' = PushedAt(scenario, m)
    BY <1>1, <1>2
  <2>3. Rendered(NewPipeline, PushedAt(scenario, taken).events)' = Rendering(out \o more, last)
    BY <1>1, <1>2, <1>10, <2>1, <2>2
  <2> QED
    BY <1>2, <1>9, <1>12, <1>13, <1>15, <2>2, <2>3 DEF WhileRelaying, Rendering
<1>17. WireRelay'
  BY <1>1, <1>2, <1>3, <1>5, <1>6, <1>14, <1>16 DEF WireRelay
<1>18. ~Complete'
  BY <1>2 DEF Complete, Delivered
<1>19. ClientSeesEvents'
  <2>1. CASE client = "connected"
    <3>1. PICK o, p : /\ Rendered(NewPipeline, PushedAt(scenario, m).events) = Rendering(o, p)
                      /\ IsPrefix(o, Rendered(NewPipeline, scenario.events).out)
      BY <1>3, <1>6, ReadIsPrefix
    <3>2. o = out \o more
      <4>1. PICK o2 : o2 = out \o more
        OBVIOUS
      <4>2. Rendering(o, p) = Rendering(o2, last)
        BY <1>10, <3>1, <4>1
      <4> QED
        BY <4>1, <4>2 DEF Rendering
    <3>3. FromUpstream' = o
      BY <1>15, <2>1, <3>2 DEF FromUpstream, News, Selected
    <3>4. Rendered(NewPipeline, scenario.events)' = Rendered(NewPipeline, scenario.events)
      BY <1>2, RenderedStays DEF NewPipeline, NewNormalizer
    <3> QED
      BY <1>18, <3>1, <3>3, <3>4 DEF ClientSeesEvents
  <2>2. CASE client # "connected"
    <3>1. News(written') = News(written)
      BY <1>13, <2>2 DEF Write
    <3> QED
      BY <1>2, <1>18, <3>1, SeesNoMore
  <2> QED
    BY <2>1, <2>2
<1> QED
  BY <1>17, <1>19

\* The stream comes to its end, and what the parser still held is flushed.
LEMMA HttpFinish ==
    ASSUME WireRelay, ClientSeesEvents, Cancelled, scenario.kind = "http", Finish
    PROVE  WireRelay' /\ ClientSeesEvents'
<1>1. /\ phase = "relaying" /\ phase' = "ended" /\ body \notin {"open", "broken"}
      /\ UNCHANGED <<scenario, client, body, taken>>
      /\ Write(Drained(pipeline, buffer).out)
  BY DEF Finish, NothingToRead, EndRelay, producerVars
<1>2. /\ scenario \in Scenarios /\ taken \in 0 .. Len(Wire(scenario)) /\ IsSequence(written)
      /\ body \in {"closed", "cancelled"} /\ WhileRelaying
      /\ body = "closed" => taken = Len(Wire(scenario))
  BY <1>1 DEF WireRelay
<1>3. CASE client # "connected"
  <2>1. written' = written /\ client' # "connected"
    BY <1>1, <1>3 DEF Write
  <2>2. ~Complete'
    BY <2>1 DEF Complete, Delivered
  <2>3. ClientSeesEvents'
    BY <1>1, <2>1, <2>2, SeesNoMore
  <2> QED
    BY <1>1, <1>2, <2>1, <2>3 DEF WireRelay
<1>4. CASE client = "connected"
  <2>1. body = "closed" /\ taken = Len(Wire(scenario))
    BY <1>2, <1>4 DEF Cancelled
  <2>2. taken \in Nat /\ taken <= Len(Wire(scenario))
    BY <1>2, <2>1, PushedNone
  <2>3. PICK out, pipe : /\ Rendered(NewPipeline, PushedAt(scenario, taken).events) = Rendering(out, pipe)
                         /\ IsPrefix(out, Rendered(NewPipeline, scenario.events).out)
    BY <1>2, <2>2, ReadIsPrefix
  <2>4. PICK more, last :
           /\ Drained(pipe, PushedAt(scenario, taken).buffer) = Rendering(more, last)
           /\ Rendered(NewPipeline, scenario.events) = Rendering(out \o more, last)
           /\ Outgoing(out) /\ Outgoing(more)
    BY <1>2, <2>1, <2>3, FlushAll
  <2>5. buffer = PushedAt(scenario, taken).buffer /\ pipeline = pipe /\ News(written) = out
    BY <1>2, <1>4, <2>3 DEF WhileRelaying, Rendering
  <2>6. written' = written \o more
    BY <1>1, <1>4, <2>4, <2>5 DEF Write, Rendering
  <2>7. IsSequence(written') /\ News(written') = out \o more
    BY <1>2, <2>4, <2>5, <2>6, NewsConcat, JoinedIsSequence DEF Outgoing
  <2>8. PICK all : all = out \o more /\ Rendered(NewPipeline, scenario.events).out = all
    BY <2>4 DEF Rendering
  <2>9. FromUpstream' = all
    BY <2>7, <2>8 DEF FromUpstream, News, Selected
  <2>10. Rendered(NewPipeline, scenario.events)' = Rendered(NewPipeline, scenario.events)
    BY <1>1, RenderedStays DEF NewPipeline, NewNormalizer
  <2>11. IsPrefix(all, all)
    <3>1. IsSequence(all) /\ IsSequence(<<>>)
      BY <2>4, <2>8, OutgoingEmpty, JoinedIsSequence DEF Outgoing
    <3>2. all \o <<>> = all
      BY <3>1 DEF IsSequence
    <3> QED
      BY <3>1, <3>2, PrefixOfJoin
  <2>12. ClientSeesEvents'
    BY <2>8, <2>9, <2>10, <2>11 DEF ClientSeesEvents
  <2> QED
    BY <1>1, <1>2, <2>7, <2>12 DEF WireRelay
<1> QED
  BY <1>3, <1>4

\* The invariant is kept by every step.
LEMMA HttpStep == RelayIInv /\ HttpIInv /\ [Next]_vars => HttpIInv'
<1> SUFFICES ASSUME RelayIInv, HttpIInv, [Next]_vars, scenario'.kind = "http"
             PROVE  WireRelay' /\ ClientSeesEvents'
  BY DEF HttpIInv
<1>1. scenario' = scenario
  BY DEF Next, vars, routeVars, Routed, RoutedWithoutBody, RouteFails, ClientLeaves, Read, ReadQueued,
         Finish, FinishBroken, Heartbeat, UpstreamEnds, Produce, ProducerEnds, ProducerBreaks, Ended
<1>2. /\ scenario.kind = "http" /\ WireRelay /\ ClientSeesEvents
      /\ ~producer.running /\ queue = <<>> /\ Cancelled
  BY <1>1 DEF HttpIInv, RelayIInv, OwnStreams
<1>3. ASSUME UNCHANGED <<taken, buffer, pipeline>>, News(written') = News(written), IsSequence(written'),
             client' = "connected" => client = "connected",
             phase' # "ended" => phase # "ended",
             body' \in {"open", "closed", "broken", "cancelled"},
             body' = "closed" => taken = Len(Wire(scenario)),
             phase' = "routing" => body' = "open", ~Complete'
      PROVE  WireRelay' /\ ClientSeesEvents'
  <2>1. ClientSeesEvents'
    BY <1>1, <1>2, <1>3, SeesNoMore
  <2>2. phase' # "ended" => WhileRelaying'
    BY <1>1, <1>2, <1>3, StaysRelaying DEF WireRelay
  <2> QED
    BY <1>1, <1>2, <1>3, <2>1, <2>2 DEF WireRelay
<1>4. CASE Routed
  <2>1. phase = "routing" /\ phase' = "relaying" /\ UNCHANGED <<client, body, taken, buffer, pipeline, written>>
    BY <1>4 DEF Routed, relayVars, producerVars
  <2> QED
    BY <1>2, <1>3, <2>1 DEF WireRelay, Complete, Delivered
<1>5. CASE RouteFails
  <2>1. phase = "routing" /\ phase' = "ended" /\ UNCHANGED <<client, body, taken, buffer, pipeline, written>>
    BY <1>5 DEF RouteFails, relayVars
  <2> QED
    BY <1>2, <1>3, <2>1 DEF WireRelay, Complete, Delivered
<1>6. CASE ClientLeaves
  <2>1. /\ client' = "gone" /\ UNCHANGED <<phase, taken, buffer, pipeline, written>>
        /\ body' = IF phase = "relaying" /\ body # "broken" THEN "cancelled" ELSE body
    BY <1>6 DEF ClientLeaves, relayVars
  <2> QED
    BY <1>2, <1>3, <2>1 DEF WireRelay, Complete, Delivered
<1>7. CASE FinishBroken
  <2>1. /\ phase = "relaying" /\ body = "broken" /\ phase' = "ended"
        /\ UNCHANGED <<client, body, taken, buffer, pipeline, written>>
    BY <1>7 DEF FinishBroken, NothingToRead, EndRelay, relayVars, producerVars
  <2> QED
    BY <1>2, <1>3, <2>1 DEF WireRelay, Complete, Delivered
<1>8. CASE Heartbeat
  <2>1. /\ heartbeat /\ Write(<<KeepAlive>>) /\ UNCHANGED <<phase, client, body, taken, buffer, pipeline>>
    BY <1>8 DEF Heartbeat, routeVars, producerVars
  <2>2. phase = "relaying"
    BY <2>1 DEF RelayIInv, Logged
  <2>3. IsSequence(written') /\ News(written') = News(written)
    BY <1>2, <2>1, NewsHeartbeat DEF Write, WireRelay
  <2> QED
    BY <1>2, <1>3, <2>1, <2>2, <2>3 DEF WireRelay, Complete, Delivered
<1>9. CASE UpstreamEnds
  <2>1. /\ phase = "relaying" /\ UNCHANGED <<phase, client, taken, buffer, pipeline, written>>
        /\ (body' = "closed" /\ taken = Len(Wire(scenario))) \/ body' = "broken"
    BY <1>9 DEF UpstreamEnds, routeVars, relayVars
  <2> QED
    BY <1>2, <1>3, <2>1 DEF WireRelay, Complete, Delivered
<1>10. CASE UNCHANGED vars
  <2>1. UNCHANGED <<phase, client, body, taken, buffer, pipeline, written, broke>>
    BY <1>10 DEF vars
  <2>2. CASE Complete
    <3>1. Rendered(NewPipeline, scenario.events)' = Rendered(NewPipeline, scenario.events)
      BY <1>1, RenderedStays DEF NewPipeline, NewNormalizer
    <3>2. FromUpstream' = FromUpstream /\ Complete' = Complete
      BY <2>1 DEF FromUpstream, Selected, Complete, Delivered
    <3>3. ClientSeesEvents'
      BY <1>2, <3>1, <3>2 DEF ClientSeesEvents
    <3> QED
      BY <1>1, <1>2, <2>1, <2>2, <3>3 DEF WireRelay, Complete, Delivered
  <2>3. CASE ~Complete
    BY <1>2, <1>3, <2>1, <2>3 DEF WireRelay, Complete, Delivered
  <2> QED
    BY <2>2, <2>3
<1>11. ~(Produce \/ ProducerEnds \/ ProducerBreaks \/ ReadQueued \/ RoutedWithoutBody)
  BY <1>2 DEF Produce, ProducerEnds, ProducerBreaks, ReadQueued, RoutedWithoutBody
<1> QED
  BY <1>2, <1>4, <1>5, <1>6, <1>7, <1>8, <1>9, <1>10, <1>11, HttpRead, HttpFinish DEF Next, Ended

\* However the network cuts the bytes of an http upstream, the client reads the events that
\* the upstream sent, in order and normalized, each of them once, and all of them when the
\* stream completes (SSEParser, renderEvents), for any upstreams and any cuts.
THEOREM ClientSeesItsEvents == Spec => []ClientSeesEvents
<1>1. HttpIInv => ClientSeesEvents
  BY DEF HttpIInv, ClientSeesEvents
<1> QED
  BY <1>1, RelayInit, RelayStep, HttpInit, HttpStep, PTL DEF Spec

-----------------------------------------------------------------------------
\* The text of a stream.

\* An event whose chunk, if it has one, is a chunk.
Textual(event) == Parses(event) => IsChunk(ChunkOf(event))

\* A sequence of such events.
Texted(read) == IsSequence(read) /\ \A i \in DOMAIN read : Textual(read[i])

\* The text of the chunks a client has read.
ChunksIn(read) ==
    LET Seen(i) == Parses(read[i])
        seen == Selected(read, Seen)
    IN  [i \in DOMAIN seen |-> ChunkOf(seen[i])]

\* All of that text.
TextIn(read) == LET chunks == ChunksIn(read) IN FlattenSeq([i \in DOMAIN chunks |-> chunks[i].text])

\* The events with a chunk.
SeenIn(read) == FlattenSeq([i \in DOMAIN read |-> IF Parses(read[i]) THEN <<read[i]>> ELSE <<>>])

\* Events with proper chunks are a sequence over a set of such events,
LEMMA TextedSet ==
    ASSUME NEW s, Texted(s)
    PROVE  \E E : s \in Seq(E) /\ \A e \in E : Textual(e)
<1> DEFINE E == {s[i] : i \in DOMAIN s}
<1>1. s \in Seq(E) /\ \A e \in E : Textual(e)
  BY DEF Texted, IsSequence
<1> HIDE DEF E
<1> QED
  BY <1>1

\* and the other way round.
LEMMA TextedSeq ==
    ASSUME NEW E, \A e \in E : Textual(e), NEW s \in Seq(E)
    PROVE  Texted(s)
<1>1. IsSequence(s) /\ \A i \in DOMAIN s : s[i] \in E
  BY SequenceFacts
<1> QED
  BY <1>1 DEF Texted

\* One more event with a proper chunk.
LEMMA TextedAppend ==
    ASSUME NEW s, Texted(s), NEW e, Textual(e)
    PROVE  Texted(Append(s, e)) /\ Texted(<<>>)
<1>1. PICK E : s \in Seq(E) /\ \A x \in E : Textual(x)
  BY TextedSet
<1>2. PICK F : F = E \cup {e}
  OBVIOUS
<1>3. s \in Seq(F) /\ e \in F /\ \A x \in F : Textual(x)
  BY <1>1, <1>2
<1>4. Append(s, e) \in Seq(F) /\ <<>> \in Seq(F)
  BY <1>3
<1> QED
  BY <1>3, <1>4, TextedSeq

\* Two such sequences joined.
LEMMA TextedConcat ==
    ASSUME NEW s, Texted(s), NEW t, Texted(t)
    PROVE  Texted(s \o t)
<1>1. PICK E : s \in Seq(E) /\ \A x \in E : Textual(x)
  BY TextedSet
<1>2. PICK F : t \in Seq(F) /\ \A x \in F : Textual(x)
  BY TextedSet
<1>3. PICK G : G = E \cup F
  OBVIOUS
<1>4. s \in Seq(G) /\ t \in Seq(G) /\ \A x \in G : Textual(x)
  BY <1>1, <1>2, <1>3
<1>5. s \o t \in Seq(G)
  BY <1>4
<1> QED
  BY <1>4, <1>5, TextedSeq

\* SeenIn by OnlyIn.
LEMMA SeenOnly ==
    ASSUME NEW X, NEW s \in Seq(X)
    PROVE  SeenIn(s) = OnlyIn({x \in X : Parses(x)}, s) /\ SeenIn(s) \in Seq({x \in X : Parses(x)})
<1>1. \A i \in DOMAIN s : Parses(s[i]) <=> s[i] \in {x \in X : Parses(x)}
  OBVIOUS
<1>2. SeenIn(s) = OnlyIn({x \in X : Parses(x)}, s)
  BY <1>1 DEF SeenIn, OnlyIn
<1> QED
  BY <1>2, OnlyInType

\* One more event is taken if it has a chunk.
LEMMA SeenAppend ==
    ASSUME NEW X, NEW s \in Seq(X), NEW e \in X
    PROVE  SeenIn(Append(s, e)) = IF Parses(e) THEN Append(SeenIn(s), e) ELSE SeenIn(s)
<1>1. PICK K : K = {x \in X : Parses(x)}
  OBVIOUS
<1>2. Append(s, e) \in Seq(X) /\ (e \in K <=> Parses(e))
  BY <1>1
<1>3. SeenIn(s) = OnlyIn(K, s) /\ SeenIn(Append(s, e)) = OnlyIn(K, Append(s, e))
  BY <1>1, <1>2, SeenOnly
<1>4. OnlyIn(K, Append(s, e)) = IF e \in K THEN Append(OnlyIn(K, s), e) ELSE OnlyIn(K, s)
  BY OnlyInAppend
<1> QED
  BY <1>2, <1>3, <1>4

\* The chunks are those of the events with a chunk.
LEMMA ChunksAre ==
    ASSUME NEW s
    PROVE  ChunksIn(s) = [i \in DOMAIN SeenIn(s) |-> ChunkOf(SeenIn(s)[i])]
  BY DEF ChunksIn, Selected, SeenIn

\* The text is that of the events with a chunk.
LEMMA TextIs ==
    ASSUME NEW X, NEW s \in Seq(X)
    PROVE  TextIn(s) = FlattenSeq([i \in DOMAIN SeenIn(s) |-> ChunkOf(SeenIn(s)[i]).text])
<1>1. PICK seen : seen = SeenIn(s)
  OBVIOUS
<1>2. PICK chunks : chunks = [i \in DOMAIN seen |-> ChunkOf(seen[i])]
  OBVIOUS
<1>3. ChunksIn(s) = chunks
  BY <1>1, <1>2, ChunksAre
<1>4. [i \in DOMAIN chunks |-> chunks[i].text] = [i \in DOMAIN seen |-> ChunkOf(seen[i]).text]
  BY <1>2
<1> QED
  BY <1>1, <1>3, <1>4 DEF TextIn

\* A sequence mapped by f, one member longer.
LEMMA MapAppend ==
    ASSUME NEW X, NEW Y, NEW f \in [X -> Y], NEW s \in Seq(X), NEW e \in X,
           NEW t, t = Append(s, e)
    PROVE  /\ [i \in DOMAIN s |-> f[s[i]]] \in Seq(Y)
           /\ [i \in DOMAIN t |-> f[t[i]]] = Append([i \in DOMAIN s |-> f[s[i]]], f[e])
<1>1. PICK n \in Nat : n = Len(s) /\ DOMAIN s = 1 .. n
  OBVIOUS
<1>2. /\ t \in Seq(X) /\ Len(t) = n + 1 /\ t[n + 1] = e
      /\ DOMAIN t = 1 .. n + 1 /\ \A i \in 1 .. n : t[i] = s[i]
  BY <1>1, AppendProperties
<1>3. PICK a : a = [i \in 1 .. n |-> f[s[i]]]
  OBVIOUS
<1>4. a \in Seq(Y) /\ Len(a) = n /\ f[e] \in Y
  <2>1. \A i \in 1 .. n : f[s[i]] \in Y
    BY <1>1
  <2>2. [i \in 1 .. n |-> f[s[i]]] \in [1 .. n -> Y]
    BY <2>1
  <2>3. [i \in 1 .. n |-> f[s[i]]] \in Seq(Y)
    BY <2>2
  <2>4. Len(a) = n
    BY <1>3
  <2> QED
    BY <1>3, <2>3, <2>4
<1>5. PICK b : b = [i \in 1 .. n + 1 |-> f[t[i]]]
  OBVIOUS
<1>6. b \in Seq(Y) /\ Len(b) = n + 1
  <2>1. PICK m \in Nat : m = n + 1
    OBVIOUS
  <2>2. \A i \in 1 .. m : f[t[i]] \in Y
    BY <1>2, <2>1
  <2>3. [i \in 1 .. m |-> f[t[i]]] \in [1 .. m -> Y]
    BY <2>2
  <2>4. PICK g : g = [i \in 1 .. m |-> f[t[i]]]
    OBVIOUS
  <2>5. g \in [1 .. m -> Y]
    BY <2>3, <2>4
  <2>6. g \in Seq(Y)
    BY <2>1, <2>5, SeqDef
  <2>7. [i \in 1 .. m |-> f[t[i]]] \in Seq(Y)
    BY <2>4, <2>6
  <2>8. b = [i \in 1 .. m |-> f[t[i]]] /\ Len(b) = m
    BY <1>5, <2>1
  <2> QED
    BY <2>7, <2>8, <2>1
<1>7. PICK u : u = Append(a, f[e])
  OBVIOUS
<1>8. /\ u \in Seq(Y) /\ Len(u) = n + 1 /\ u[n + 1] = f[e]
      /\ \A i \in 1 .. n : u[i] = a[i]
  BY <1>4, <1>7, FrontFacts
<1>9. ASSUME NEW i \in 1 .. n PROVE b[i] = u[i]
  <2>1. i \in 1 .. n + 1 /\ t[i] = s[i] /\ u[i] = a[i]
    BY <1>2, <1>8
  <2>2. a[i] = f[s[i]]
    BY <1>3
  <2>3. b[i] = f[t[i]]
    BY <1>5, <2>1
  <2> QED
    BY <2>1, <2>2, <2>3
<1>10. b[n + 1] = u[n + 1]
  BY <1>2, <1>5, <1>8
<1>11. ASSUME NEW i \in 1 .. n + 1 PROVE b[i] = u[i]
  <2>1. i \in 1 .. n \/ i = n + 1
    OBVIOUS
  <2> QED
    BY <1>9, <1>10, <2>1
<1>12. b = u
  BY <1>6, <1>8, <1>11, SeqEqual
<1> QED
  BY <1>1, <1>2, <1>3, <1>4, <1>5, <1>7, <1>12

\* The pieces of text in the chunks of events.
Letters(X) == UNION {{ChunkOf(x).text[k] : k \in DOMAIN ChunkOf(x).text} : x \in {y \in X : Parses(y)}}

\* What one more event adds to the text a client has read.
LEMMA TextAppend ==
    ASSUME NEW s, Texted(s), NEW e, Textual(e)
    PROVE  /\ TextIn(Append(s, e)) = IF Parses(e) THEN TextIn(s) \o ChunkOf(e).text ELSE TextIn(s)
           /\ IsSequence(TextIn(s))
<1>1. PICK E : s \in Seq(E) /\ \A x \in E : Textual(x)
  BY TextedSet
<1>2. PICK X : X = E \cup {e}
  OBVIOUS
<1>3. s \in Seq(X) /\ e \in X /\ \A x \in X : Textual(x)
  BY <1>1, <1>2
<1>4. PICK K, Y : K = {x \in X : Parses(x)} /\ Y = Seq(Letters(X))
  OBVIOUS
<1>5. ASSUME NEW x \in K PROVE ChunkOf(x).text \in Y
  <2>1. x \in X /\ Parses(x)
    BY <1>4
  <2>2. PICK t : t = ChunkOf(x).text
    OBVIOUS
  <2>3. t \in Seq({t[k] : k \in DOMAIN t})
    BY <1>3, <2>1, <2>2 DEF Textual, IsChunk, IsSequence
  <2>4. {t[k] : k \in DOMAIN t} \subseteq Letters(X)
    BY <2>1, <2>2 DEF Letters
  <2>5. t \in Seq(Letters(X))
    BY <2>3, <2>4
  <2> QED
    BY <1>4, <2>2, <2>5
<1>6. PICK f \in [K -> Y] : \A x \in K : f[x] = ChunkOf(x).text
  <2>1. [x \in K |-> ChunkOf(x).text] \in [K -> Y]
    BY <1>5
  <2> QED
    BY <2>1
<1>7. ASSUME NEW t \in Seq(X), NEW seen, seen = SeenIn(t)
      PROVE  seen \in Seq(K) /\ TextIn(t) = FlattenSeq([i \in DOMAIN seen |-> f[seen[i]]])
  <2>1. seen \in Seq(K)
    BY <1>4, <1>7, SeenOnly
  <2>2. ASSUME NEW i \in DOMAIN seen PROVE f[seen[i]] = ChunkOf(seen[i]).text
    <3>1. seen[i] \in K
      BY <2>1
    <3> QED
      BY <1>6, <3>1
  <2>3. [i \in DOMAIN seen |-> ChunkOf(seen[i]).text] = [i \in DOMAIN seen |-> f[seen[i]]]
    BY <2>2
  <2>4. TextIn(t) = FlattenSeq([i \in DOMAIN seen |-> ChunkOf(seen[i]).text])
    BY <1>7, TextIs
  <2> QED
    BY <2>1, <2>3, <2>4
<1>8. PICK seen \in Seq(K) : seen = SeenIn(s)
  BY <1>3, <1>7
<1>9. PICK texts : texts = [i \in DOMAIN seen |-> f[seen[i]]] /\ TextIn(s) = FlattenSeq(texts)
  BY <1>3, <1>7, <1>8
<1>10. texts \in Seq(Y)
  <2>1. PICK n \in Nat : n = Len(seen) /\ DOMAIN seen = 1 .. n
    OBVIOUS
  <2>2. \A i \in 1 .. n : f[seen[i]] \in Y
    BY <2>1
  <2>3. texts \in [1 .. n -> Y]
    BY <1>9, <2>1, <2>2
  <2> QED
    BY <2>3
<1>11. TextIn(s) \in Y
  BY <1>4, <1>9, <1>10, FlattenType
<1>12. IsSequence(TextIn(s))
  BY <1>4, <1>11, SequenceFacts
<1>13. PICK longer : longer = Append(s, e)
  OBVIOUS
<1>14. longer \in Seq(X) /\ longer = Append(s, e)
  BY <1>3, <1>13, AppendProperties
<1>15. CASE ~Parses(e)
  <2>1. SeenIn(longer) = seen
    BY <1>3, <1>8, <1>14, <1>15, SeenAppend
  <2>2. TextIn(longer) = TextIn(s)
    <3>1. \A t \in Seq(X) : \A q : q = SeenIn(t) => TextIn(t) = FlattenSeq([i \in DOMAIN q |-> f[q[i]]])
      BY <1>7
    <3>2. TextIn(longer) = FlattenSeq([i \in DOMAIN seen |-> f[seen[i]]])
      BY <1>14, <2>1, <3>1, Zenon
    <3> QED
      BY <1>9, <3>2
  <2> QED
    BY <1>12, <1>14, <1>15, <2>2
<1>16. CASE Parses(e)
  <2>1. e \in K
    BY <1>3, <1>4, <1>16
  <2>2. PICK more : more = Append(seen, e)
    OBVIOUS
  <2>3. more \in Seq(K) /\ more = Append(seen, e)
    BY <2>1, <2>2, AppendProperties
  <2>4. SeenIn(longer) = more
    BY <1>3, <1>8, <1>14, <1>16, <2>3, SeenAppend
  <2>5. [i \in DOMAIN more |-> f[more[i]]] = Append(texts, f[e])
    BY <1>9, <2>1, <2>3, MapAppend
  <2>6. TextIn(longer) = FlattenSeq(Append(texts, f[e]))
    <3>1. \A t \in Seq(X) : \A q : q = SeenIn(t) => TextIn(t) = FlattenSeq([i \in DOMAIN q |-> f[q[i]]])
      BY <1>7
    <3>2. TextIn(longer) = FlattenSeq([i \in DOMAIN more |-> f[more[i]]])
      BY <1>14, <2>4, <3>1, Zenon
    <3> QED
      BY <2>5, <3>2
  <2>7. f[e] \in Y
    BY <2>1
  <2>8. FlattenSeq(Append(texts, f[e])) = FlattenSeq(texts) \o f[e]
    BY <1>4, <1>10, <2>7, FlattenAppend
  <2>9. TextIn(longer) = TextIn(s) \o ChunkOf(e).text
    BY <1>6, <1>9, <2>1, <2>6, <2>8
  <2> QED
    BY <1>12, <1>14, <1>16, <2>9
<1> QED
  BY <1>15, <1>16

\* A client that has read nothing has read no text.
LEMMA NoText == TextIn(<<>>) = <<>> /\ Texted(<<>>)
<1>1. <<>> \in Seq({})
  OBVIOUS
<1>2. SeenIn(<<>>) = <<>>
  BY DEF SeenIn, FlattenSeq
<1>3. TextIn(<<>>) = <<>>
  <2>1. PICK none : none = SeenIn(<<>>) /\ none = <<>>
    BY <1>2
  <2>2. TextIn(<<>>) = FlattenSeq([i \in DOMAIN none |-> ChunkOf(none[i]).text])
    BY <1>1, <2>1, TextIs
  <2>3. [i \in DOMAIN none |-> ChunkOf(none[i]).text] = <<>>
    BY <2>1
  <2> QED
    BY <2>2, <2>3 DEF FlattenSeq
<1> QED
  BY <1>1, <1>3, TextedSeq

\* Three sequences are joined from the left or from the right.
Associates(r, s, t) == (r \o s) \o t = r \o (s \o t)

\* All do.
LEMMA JoinThree ==
    ASSUME NEW r, NEW s, NEW t, IsSequence(r), IsSequence(s), IsSequence(t)
    PROVE  Associates(r, s, t)
<1>1. PICK X : r \in Seq(X) /\ s \in Seq(X)
  BY JoinSequences
<1>2. PICK Y : t \in Seq(Y)
  BY DEF IsSequence
<1>3. PICK Z : Z = X \cup Y
  OBVIOUS
<1>4. r \in Seq(Z) /\ s \in Seq(Z) /\ t \in Seq(Z)
  BY <1>1, <1>2, <1>3
<1> QED
  BY <1>4, ConcatAssociative DEF Associates

\* Joining nothing changes nothing.
LEMMA JoinNothing ==
    ASSUME NEW r, IsSequence(r)
    PROVE  r \o <<>> = r
  BY DEF IsSequence

\* The text of two parts of a stream is that of the one and that of the other.
LEMMA TextConcat ==
    ASSUME NEW s, NEW t, Texted(s), Texted(t)
    PROVE  TextIn(s \o t) = TextIn(s) \o TextIn(t)
<1>1. PICK E : t \in Seq(E) /\ \A e \in E : Textual(e)
  BY TextedSet
<1>2. ASSUME NEW r, Texted(r) PROVE IsSequence(TextIn(r))
  <2>1. DoneEvent.type = "done"
    BY DEF DoneEvent
  <2>2. Textual(DoneEvent)
    BY <2>1 DEF Textual, Parses
  <2> QED
    BY <1>2, <2>2, TextAppend
<1>3. \A r \in Seq(E) : Texted(r)
  BY <1>1, TextedSeq
<1> DEFINE Good(r) == TextIn(s \o r) = TextIn(s) \o TextIn(r)
           S == {r \in Seq(E) : Good(r)}
<1>4. Good(<<>>)
  <2>1. PICK none : none = <<>> /\ TextIn(none) = none
    BY NoText
  <2>2. s \o none = s /\ TextIn(s) \o none = TextIn(s)
    <3>1. IsSequence(s) /\ IsSequence(TextIn(s))
      BY <1>2 DEF Texted
    <3> QED
      BY <2>1, <3>1, JoinNothing
  <2> QED
    BY <2>1, <2>2
<1>5. ASSUME NEW r \in Seq(E), NEW e \in E, Good(r) PROVE Good(Append(r, e))
  <2>1. Texted(r) /\ Textual(e) /\ Texted(s \o r)
    BY <1>1, <1>3, TextedConcat
  <2>2. s \o Append(r, e) = Append(s \o r, e)
    BY <2>1, JoinAppend DEF Texted
  <2>3. CASE ~Parses(e)
    <3>1. TextIn(Append(s \o r, e)) = TextIn(s \o r) /\ TextIn(Append(r, e)) = TextIn(r)
      BY <2>1, <2>3, TextAppend
    <3> QED
      BY <1>5, <2>2, <3>1
  <2>4. CASE Parses(e)
    <3>1. PICK x : x = ChunkOf(e).text /\ IsSequence(x)
      BY <2>1, <2>4 DEF Textual, IsChunk
    <3>2. TextIn(Append(s \o r, e)) = TextIn(s \o r) \o x /\ TextIn(Append(r, e)) = TextIn(r) \o x
      BY <2>1, <2>4, <3>1, TextAppend
    <3>3. (TextIn(s) \o TextIn(r)) \o x = TextIn(s) \o (TextIn(r) \o x)
      <4>1. PICK a, b : a = TextIn(s) /\ b = TextIn(r) /\ IsSequence(a) /\ IsSequence(b)
        BY <1>2, <2>1
      <4>2. Associates(a, b, x)
        BY <3>1, <4>1, JoinThree
      <4> QED
        BY <4>1, <4>2 DEF Associates
    <3> QED
      BY <1>5, <2>2, <3>2, <3>3
  <2> QED
    BY <2>3, <2>4
<1> HIDE DEF Good
<1>6. <<>> \in S /\ \A r \in Seq(E), e \in E : r \in S => Append(r, e) \in S
  <2>1. <<>> \in Seq(E)
    OBVIOUS
  <2>2. ASSUME NEW r \in Seq(E), NEW e \in E PROVE Append(r, e) \in Seq(E)
    BY AppendProperties
  <2> QED
    BY <1>4, <1>5, <2>1, <2>2
<1> HIDE DEF S
<1>7. Seq(E) \subseteq S
  BY <1>6, SeqInduction
<1> USE DEF S
<1> QED
  BY <1>1, <1>7 DEF Good

\* The normalizers leave the text of a chunk alone.
LEMMA ShownText ==
    ASSUME NEW pipe, NEW e, Textual(e)
    PROVE  /\ Textual(Shown(pipe, e)) /\ (Parses(Shown(pipe, e)) <=> Parses(e))
           /\ Parses(e) => ChunkOf(Shown(pipe, e)).text = ChunkOf(e).text
<1>1. CASE ~Parses(e)
  BY <1>1 DEF Shown
<1>2. CASE Parses(e)
  <2>1. PICK c : c = ChunkOf(e) /\ c = Chunk(c.text, c.calls, c.finish) /\ IsSequence(c.text)
    BY <1>2 DEF Textual, IsChunk
  <2>2. PICK calls : Transform(scenario.provider, pipe.normalizer, c).chunk = [c EXCEPT !.calls = calls]
    BY DEF Transform
  <2>3. [c EXCEPT !.calls = calls] = Chunk(c.text, calls, c.finish)
    <3>1. PICK j, t, k, f : j = TRUE /\ t = c.text /\ k = c.calls /\ f = c.finish
      OBVIOUS
    <3>2. c = [json |-> j, text |-> t, calls |-> k, finish |-> f]
      BY <2>1, <3>1 DEF Chunk
    <3>3. [[json |-> j, text |-> t, calls |-> k, finish |-> f] EXCEPT !.calls = calls]
             = [json |-> j, text |-> t, calls |-> calls, finish |-> f]
      OBVIOUS
    <3> QED
      BY <3>1, <3>2, <3>3 DEF Chunk
  <2>4. PICK d : d = Chunk(c.text, calls, c.finish)
    OBVIOUS
  <2>5. d.json = TRUE /\ d.text = c.text /\ IsChunk(d)
    BY <2>1, <2>4 DEF Chunk, IsChunk
  <2>6. Shown(pipe, e) = EventOf(d)
    BY <1>2, <2>1, <2>2, <2>3, <2>4 DEF Shown
  <2>7. ChunkOf(EventOf(d)) = d /\ Parses(EventOf(d))
    BY <2>5 DEF ChunkOf, EventOf, Parses, DataEvent, Payload
  <2> QED
    BY <1>2, <2>1, <2>5, <2>6, <2>7 DEF Textual
<1> QED
  BY <1>1, <1>2

\* The text a pipeline accumulates is the text it lets out.
THEOREM RenderedText ==
    ASSUME NEW pipe, IsSequence(pipe.accumulated), NEW E, \A e \in E : Textual(e)
    PROVE  \A s \in Seq(E) : \E out, after :
              /\ Rendered(pipe, s) = Rendering(out, after) /\ Texted(out)
              /\ after.accumulated = pipe.accumulated \o TextIn(out)
              /\ IsSequence(after.accumulated)
<1> DEFINE Good(s) == \E out, after :
              /\ Rendered(pipe, s) = Rendering(out, after) /\ Texted(out)
              /\ after.accumulated = pipe.accumulated \o TextIn(out)
              /\ IsSequence(after.accumulated)
           S == {s \in Seq(E) : Good(s)}
<1>1. Good(<<>>)
  <2>1. PICK none : none = <<>> /\ TextIn(none) = none /\ Texted(none)
    BY NoText
  <2>2. Rendered(pipe, <<>>) = Rendering(none, pipe)
    BY <2>1, RenderedEmpty DEF Nothing, Rendering
  <2>3. pipe.accumulated = pipe.accumulated \o TextIn(none)
    BY <2>1, JoinNothing
  <2> QED
    BY <2>1, <2>2, <2>3
<1>2. ASSUME NEW s \in Seq(E), NEW e \in E, Good(s) PROVE Good(Append(s, e))
  <2>1. PICK out, after :
              /\ Rendered(pipe, s) = Rendering(out, after) /\ Texted(out)
              /\ after.accumulated = pipe.accumulated \o TextIn(out)
              /\ IsSequence(after.accumulated)
    BY <1>2
  <2>2. Rendered(pipe, Append(s, e)) = RenderEvent(Rendered(pipe, s), e)
    BY RenderedAppend
  <2>3. PICK f, more, last : f = Shown(after, e) /\ more = Append(out, f) /\ last = NextPipe(after, e)
    OBVIOUS
  <2>4. Rendered(pipe, Append(s, e)) = Rendering(more, last)
    BY <2>1, <2>2, <2>3, RenderEventShown
  <2>5. Textual(e) /\ Textual(f) /\ (Parses(f) <=> Parses(e))
        /\ (Parses(e) => ChunkOf(f).text = ChunkOf(e).text)
    BY <2>3, ShownText
  <2>6. Texted(more)
    BY <2>1, <2>3, <2>5, TextedAppend
  <2>7. last.accumulated = pipe.accumulated \o TextIn(more) /\ IsSequence(last.accumulated)
    <3>1. CASE ~Parses(e)
      <4>1. last = after /\ TextIn(more) = TextIn(out)
        BY <2>1, <2>3, <2>5, <3>1, TextAppend DEF NextPipe
      <4> QED
        BY <2>1, <4>1
    <3>2. CASE Parses(e)
      <4>1. PICK x : x = ChunkOf(e).text /\ IsSequence(x)
        BY <2>5, <3>2 DEF Textual, IsChunk
      <4>2. last.accumulated = after.accumulated \o x
        BY <2>3, <3>2, <4>1 DEF NextPipe
      <4>3. TextIn(more) = TextIn(out) \o x /\ IsSequence(TextIn(out))
        BY <2>1, <2>3, <2>5, <3>2, <4>1, TextAppend
      <4>4. (pipe.accumulated \o TextIn(out)) \o x = pipe.accumulated \o (TextIn(out) \o x)
        <5>1. PICK a, b : a = pipe.accumulated /\ b = TextIn(out) /\ IsSequence(a) /\ IsSequence(b)
          BY <4>3
        <5>2. Associates(a, b, x)
          BY <4>1, <5>1, JoinThree
        <5> QED
          BY <5>1, <5>2 DEF Associates
      <4>5. IsSequence(after.accumulated \o x)
        BY <2>1, <4>1, JoinedIsSequence
      <4> QED
        BY <2>1, <4>2, <4>3, <4>4, <4>5
    <3> QED
      BY <3>1, <3>2
  <2> QED
    BY <2>4, <2>6, <2>7
<1> HIDE DEF Good
<1>3. <<>> \in S /\ \A s \in Seq(E), e \in E : s \in S => Append(s, e) \in S
  <2>1. <<>> \in Seq(E)
    OBVIOUS
  <2>2. ASSUME NEW s \in Seq(E), NEW e \in E PROVE Append(s, e) \in Seq(E)
    BY AppendProperties
  <2> QED
    BY <1>1, <1>2, <2>1, <2>2
<1> HIDE DEF S
<1>4. Seq(E) \subseteq S
  BY <1>3, SeqInduction
<1> USE DEF S
<1> QED
  BY <1>4 DEF Good

-----------------------------------------------------------------------------
\* What a claude provider enqueues.

\* The events a claude provider enqueues.
OwnEvents == {e \in UpstreamEvents : Textual(e)}

\* The events of a claude provider, enqueued whole, are read one by one.
THEOREM OwnEventRead ==
    ASSUME NEW event \in UpstreamEvents
    PROVE  Push(<<>>, Serialize(event, <<LF>>)) = [events |-> <<event>>, buffer |-> <<>>]
<1>1. PICK eol \in LineEnds : eol = <<LF>>
  BY DEF LineEnds
<1>2. PICK block, text : /\ text = Serialize(event, eol)
                         /\ Reads(text, Append(<<>>, block), <<>>) /\ EventsOf(block) = <<event>>
                         /\ block \in Texts
  BY EventRead
<1>3. PICK none : none = <<>>
  OBVIOUS
<1>4. PICK done : done = Append(none, block)
  OBVIOUS
<1>5. none \o text = text /\ text \in Texts
  <2>1. text \in Texts
    BY <1>2 DEF Reads
  <2> QED
    BY <1>3, <2>1, TextsClosed, TextFacts
<1>6. Pushes(none, text, done, none)
  <2>1. Reads(none \o text, done, none)
    BY <1>2, <1>3, <1>4, <1>5
  <2> QED
    BY <2>1, PushReads, Zenon
<1>7. EventsIn(done) = <<event>>
  <2>1. EventsIn(Append(<<>>, block)) = EventsIn(<<>>) \o EventsOf(block) /\ EventsIn(<<>>) = <<>>
    BY <1>2, EventsInAppend, TextFacts
  <2>2. <<>> \o <<event>> = <<event>>
    OBVIOUS
  <2> QED
    BY <1>2, <1>3, <1>4, <2>1, <2>2
<1> QED
  BY <1>1, <1>2, <1>3, <1>6, <1>7 DEF Pushes

\* The event of a chunk it makes is one of them,
LEMMA OwnEvent ==
    ASSUME NEW chunk, IsChunk(chunk), Payload(chunk) \in MadePieces
    PROVE  EventOf(chunk) \in OwnEvents
<1>1. PICK p : p = Payload(chunk) /\ p \in PlainPieces
  <2>1. Payload(chunk) # CR /\ Payload(chunk) # LF
    BY MarksDiffer
  <2> QED
    BY <2>1 DEF PlainPieces, Pieces
<1>2. chunk # Done
  <2>1. "json" \in DOMAIN Chunk(chunk.text, chunk.calls, chunk.finish) /\ "json" \notin DOMAIN Done
    BY DEF Chunk, Done
  <2> QED
    BY <2>1 DEF IsChunk
<1>3. Payload(Done).value = Done /\ Payload(chunk).value = chunk
  BY DEF Payload
<1>4. PICK d : d = Payload(Done) /\ p # d
  BY <1>1, <1>2, <1>3
<1>5. PICK line : line = <<p>> /\ line \in PlainTexts
  <2>1. <<p>> \in PlainTexts
    BY <1>1 DEF PlainTexts
  <2> QED
    BY <2>1
<1>6. PICK data : data = <<line>> /\ data \in Seq(PlainTexts)
  <2>1. <<line>> \in Seq(PlainTexts)
    BY <1>5
  <2> QED
    BY <2>1
<1>7. data # <<>> /\ data # <<<<d>>>>
  <2>1. data[1] = line /\ line[1] = p /\ <<<<d>>>>[1] = <<d>> /\ <<d>>[1] = d
    BY <1>5, <1>6
  <2> QED
    BY <1>4, <1>6, <2>1
<1>8. data \in Data
  BY <1>4, <1>6, <1>7 DEF Data
<1>9. EventOf(chunk) = DataEvent(data)
  BY <1>1, <1>5, <1>6 DEF EventOf
<1>10. EventOf(chunk) \in UpstreamEvents
  BY <1>8, <1>9 DEF UpstreamEvents
<1>11. ChunkOf(EventOf(chunk)) = chunk
  BY DEF ChunkOf, EventOf, DataEvent, Payload
<1> QED
  BY <1>10, <1>11 DEF OwnEvents, Textual

\* and so is the end of its stream.
LEMMA DoneIsOwn == DoneEvent \in OwnEvents
<1>1. DoneEvent.type = "done"
  BY DEF DoneEvent
<1> QED
  BY <1>1 DEF OwnEvents, UpstreamEvents, Textual, Parses

\* An event of the Messages API is made into a chunk at most, and a next state.
LEMMA ApiMakes ==
    ASSUME NEW s \in ApiStates, NEW evt, NEW r, r = ApiEvent(s, evt)
    PROVE  r.state \in ApiStates /\ (r.chunks = <<>> \/ \E c : r.chunks = <<c>> /\ IsChunk(c))
<1>1. PICK b, n : s = [blocks |-> b, toolCallCounter |-> n] /\ b \in Seq(Nat \cup {None}) /\ n \in Nat
  BY DEF ApiStates
<1>2. ASSUME NEW text, NEW calls, NEW finish, IsSequence(text) PROVE IsChunk(Chunk(text, calls, finish))
  BY <1>2 DEF IsChunk, Chunk
<1>3. IsSequence(<<>>) /\ \A x : IsSequence(<<x>>)
  <2>1. <<>> \in Seq({}) /\ \A x : <<x>> \in Seq({x})
    OBVIOUS
  <2> QED
    BY <2>1, SequenceFacts
<1>4. IsChunk(ErrorChunk)
  BY <1>2, <1>3 DEF ErrorChunk
<1> DEFINE Made(e) == e.chunks = <<>> \/ \E c : e.chunks = <<c>> /\ IsChunk(c)
<1>5. CASE evt.type = "message_start"
  <2>1. r = [state |-> s, chunks |-> <<Chunk(<<>>, <<>>, None)>>, failed |-> FALSE]
    BY <1>5 DEF ApiEvent
  <2> QED
    BY <1>2, <1>3, <2>1
<1>6. CASE evt.type = "content_block_start" /\ evt.block = "tool_use"
  <2>1. PICK f : r = [state |-> [blocks |-> Append(s.blocks, n), toolCallCounter |-> n + 1],
                      chunks |-> <<Chunk(<<>>, f, None)>>, failed |-> FALSE]
    BY <1>1, <1>6 DEF ApiEvent, CallIndex
  <2>2. [blocks |-> Append(s.blocks, n), toolCallCounter |-> n + 1] \in ApiStates
    BY <1>1 DEF ApiStates
  <2> QED
    BY <1>2, <1>3, <2>1, <2>2
<1>7. CASE evt.type = "content_block_start" /\ evt.block # "tool_use"
  <2>1. r = [state |-> [s EXCEPT !.blocks = Append(s.blocks, None)], chunks |-> <<>>, failed |-> FALSE]
    BY <1>7 DEF ApiEvent
  <2>2. [s EXCEPT !.blocks = Append(s.blocks, None)] \in ApiStates
    BY <1>1 DEF ApiStates
  <2> QED
    BY <2>1, <2>2
<1>8. CASE evt.type = "text_delta"
  <2>1. r = [state |-> s, chunks |-> <<Chunk(<<evt.piece>>, <<>>, None)>>, failed |-> FALSE]
    BY <1>8 DEF ApiEvent
  <2> QED
    BY <1>2, <1>3, <2>1
<1>9. CASE evt.type = "input_json_delta"
  <2>1. \/ r = [state |-> s, chunks |-> <<>>, failed |-> FALSE]
        \/ \E f : r = [state |-> s, chunks |-> <<Chunk(<<>>, f, None)>>, failed |-> FALSE]
    BY <1>9 DEF ApiEvent
  <2> QED
    BY <1>2, <1>3, <2>1
<1>10. CASE evt.type = "message_delta"
  <2>1. r = [state |-> s, chunks |-> <<Chunk(<<>>, <<>>, ToFinishReason(evt.stop))>>, failed |-> FALSE]
    BY <1>10 DEF ApiEvent
  <2> QED
    BY <1>2, <1>3, <2>1
<1>11. CASE evt.type = "error"
  <2>1. r = [state |-> s, chunks |-> <<ErrorChunk>>, failed |-> TRUE]
    BY <1>11 DEF ApiEvent
  <2> QED
    BY <1>4, <2>1
<1>12. CASE evt.type \notin {"message_start", "content_block_start", "text_delta", "input_json_delta",
                             "message_delta", "error"}
  <2>1. r = [state |-> s, chunks |-> <<>>, failed |-> FALSE]
    BY <1>12 DEF ApiEvent
  <2> QED
    BY <2>1
<1> QED
  BY <1>5, <1>6, <1>7, <1>8, <1>9, <1>10, <1>11, <1>12

\* A line of the CLI is made into a chunk at most, and a next state.
LEMMA CliMakes ==
    ASSUME NEW s \in Scenarios, s.kind = "cli", NEW prev \in CliStates(s),
           NEW i \in DOMAIN s.events, NEW r, r = CliEvent(prev, s.events[i])
    PROVE  r.state \in CliStates(s) /\ (r.chunks = <<>> \/ \E c : r.chunks = <<c>> /\ IsChunk(c))
<1>1. PICK evt : evt = s.events[i]
  OBVIOUS
<1>2. ASSUME NEW text, NEW calls, NEW finish, IsSequence(text) PROVE IsChunk(Chunk(text, calls, finish))
  BY <1>2 DEF IsChunk, Chunk
<1>3. IsSequence(<<>>)
  <2>1. <<>> \in Seq({})
    OBVIOUS
  <2> QED
    BY <2>1, SequenceFacts
<1>4. CASE evt.type = "assistant"
  <2>1. PICK text : text = ExtractAssistantText(evt.blocks)
    OBVIOUS
  <2>2. IsSequence(text) /\ text \in CliStates(s)
    BY <1>1, <1>4, <2>1, ScenariosAssumption DEF CliStates
  <2>3. IsSequence(prev)
    BY <1>3, ScenariosAssumption DEF CliStates
  <2>4. PICK X, Y : text \in Seq(X) /\ prev \in Seq(Y)
    BY <2>2, <2>3 DEF IsSequence
  <2>5. PICK n \in Nat, m \in Nat : n = Len(prev) /\ m = Len(text)
    BY <2>4
  <2>6. PICK delta : delta = IF m > n THEN SubSeq(text, n + 1, m) ELSE <<>>
    OBVIOUS
  <2>7. IsSequence(delta)
    <3>1. CASE m > n
      <4>1. SubSeq(text, n + 1, m) \in Seq(X)
        BY <2>4, <2>5, <3>1
      <4> QED
        BY <2>6, <3>1, <4>1, SequenceFacts
    <3> QED
      BY <1>3, <2>6, <3>1
  <2>8. NewText(prev, text) = [prevText |-> IF m > n THEN text ELSE prev, delta |-> delta]
    BY <2>5, <2>6 DEF NewText
  <2>9. r = [state |-> IF m > n THEN text ELSE prev,
             chunks |-> IF delta = <<>> THEN <<>> ELSE <<Chunk(delta, <<>>, None)>>, failed |-> FALSE]
    BY <1>1, <1>4, <2>1, <2>8 DEF CliEvent
  <2>10. IsChunk(Chunk(delta, <<>>, None))
    BY <1>2, <2>7
  <2> QED
    BY <2>2, <2>9, <2>10
<1>5. CASE evt.type = "result"
  <2>1. \E finish : r = [state |-> prev, chunks |-> <<Chunk(<<>>, <<>>, finish)>>, failed |-> FALSE]
    BY <1>1, <1>5 DEF CliEvent
  <2> QED
    BY <1>2, <1>3, <2>1
<1>6. CASE evt.type \notin {"assistant", "result"}
  <2>1. r = [state |-> prev, chunks |-> <<>>, failed |-> FALSE]
    BY <1>1, <1>6 DEF CliEvent
  <2> QED
    BY <2>1
<1> QED
  BY <1>4, <1>5, <1>6

\* What a claude provider has written is made of its chunks, and read whole.
OwnWrites ==
    scenario.kind # "http" =>
       /\ queue \in Seq(OwnEvents) /\ buffer = <<>>
       /\ producer.running =>
             /\ scenario.kind \in {"api", "cli"} /\ producer.fed \in Nat
             /\ scenario.kind = "api" => producer.state \in ApiStates
             /\ scenario.kind = "cli" => producer.state \in CliStates(scenario)

\* The text that is accumulated is the text of the chunks a client that stayed has read.
TextBooks ==
    /\ scenario \in Scenarios /\ Texted(written)
    /\ client = "connected" => pipeline.accumulated = TextIn(written)
    /\ phase # "ended" => IsSequence(pipeline.accumulated)

\* What a sequence has in the middle has the type of the whole.
LEMMA MiddlePart ==
    ASSUME NEW X, NEW a \in Seq(X), NEW b \in Seq(X), NEW c \in Seq(X), NEW T, (a \o b) \o c \in Seq(T)
    PROVE  b \in Seq(T)
<1>1. PICK l \in Nat, m \in Nat, n \in Nat : l = Len(a) /\ m = Len(b) /\ n = Len(c)
  OBVIOUS
<1>2. PICK ab : ab = a \o b
  OBVIOUS
<1>3. ab \in Seq(X) /\ Len(ab) = l + m /\ \A i \in 1 .. m : ab[l + i] = b[i]
  BY <1>1, <1>2
<1>4. PICK all : all = ab \o c
  OBVIOUS
<1>5. all \in Seq(T) /\ Len(all) = l + m + n /\ \A i \in 1 .. l + m : all[i] = ab[i]
  BY <1>1, <1>2, <1>3, <1>4
<1>6. ASSUME NEW i \in 1 .. m PROVE b[i] \in T
  <2>1. l + i \in 1 .. l + m /\ l + i \in 1 .. Len(all)
    BY <1>1, <1>5
  <2>2. all[l + i] = b[i]
    BY <1>3, <1>5, <2>1
  <2>3. all[l + i] \in T
    BY <1>5, <2>1
  <2> QED
    BY <2>2, <2>3
<1>7. b = [i \in 1 .. m |-> b[i]]
  BY <1>1
<1>8. [i \in 1 .. m |-> b[i]] \in Seq(T)
  BY <1>6, IsASeq
<1> QED
  BY <1>7, <1>8

\* The chunks of an http upstream are chunks (ScenariosAssumption).
LEMMA SentTextual ==
    ASSUME NEW s \in Scenarios, s.kind = "http"
    PROVE  \E E : s.events \in Seq(E) /\ \A e \in E : Textual(e)
<1>1. IsSequence(s.events)
  BY ScenariosAssumption DEF SpeaksSse
<1>2. ASSUME NEW i \in DOMAIN s.events, Parses(s.events[i]) PROVE IsChunk(ChunkOf(s.events[i]))
  <2>1. PICK event : event = s.events[i]
    OBVIOUS
  <2>2. /\ event.type = "data" /\ Len(event.data) = 1 /\ Len(event.data[1]) = 1
        /\ event.data[1][1].value.json
    BY <1>2, <2>1 DEF Parses
  <2>3. DoneEvent.type = "done" /\ CommentEvent.type = "comment"
    BY DEF DoneEvent, CommentEvent
  <2>4. /\ IsSequence(event.data)
        /\ \A j \in DOMAIN event.data :
              /\ IsSequence(event.data[j])
              /\ \A k \in DOMAIN event.data[j] :
                    event.data[j][k].value.json => IsChunk(event.data[j][k].value)
    BY <2>1, <2>2, <2>3, ScenariosAssumption DEF SpeaksSse
  <2>5. PICK data : data = event.data
    OBVIOUS
  <2>6. 1 \in DOMAIN data
    BY <2>2, <2>4, <2>5 DEF IsSequence
  <2>7. PICK line : line = data[1]
    OBVIOUS
  <2>8. IsSequence(line) /\ Len(line) = 1
    BY <2>2, <2>4, <2>5, <2>6, <2>7
  <2>9. 1 \in DOMAIN line
    BY <2>8 DEF IsSequence
  <2> QED
    BY <2>1, <2>2, <2>4, <2>5, <2>6, <2>7, <2>9 DEF ChunkOf
<1> DEFINE E == {s.events[i] : i \in DOMAIN s.events}
<1>3. s.events \in Seq(E) /\ \A e \in E : Textual(e)
  BY <1>1, <1>2 DEF IsSequence, Textual
<1> HIDE DEF E
<1> QED
  BY <1>3

\* What is let out is what is accumulated.
LEMMA TextGrows ==
    ASSUME TextBooks, phase # "ended", NEW events, NEW E, \A e \in E : Textual(e), events \in Seq(E),
           UNCHANGED <<scenario, client>>,
           Write(Rendered(pipeline, events).out), pipeline' = Rendered(pipeline, events).pipe
    PROVE  TextBooks'
<1>1. PICK out, after :
              /\ Rendered(pipeline, events) = Rendering(out, after) /\ Texted(out)
              /\ after.accumulated = pipeline.accumulated \o TextIn(out)
              /\ IsSequence(after.accumulated)
  BY RenderedText DEF TextBooks
<1>2. Write(out) /\ pipeline' = after
  BY <1>1 DEF Rendering
<1>3. Texted(written')
  BY <1>1, <1>2, TextedConcat DEF Write, TextBooks
<1>4. client' = "connected" => after.accumulated = TextIn(written')
  <2>1. TextIn(written \o out) = TextIn(written) \o TextIn(out)
    BY <1>1, TextConcat DEF TextBooks
  <2> QED
    BY <1>1, <1>2, <2>1 DEF Write, TextBooks
<1> QED
  BY <1>1, <1>2, <1>3, <1>4 DEF TextBooks

\* A step that writes no text.
LEMMA TextStays ==
    ASSUME TextBooks, UNCHANGED <<scenario, pipeline>>, Texted(written'),
           client' = "connected" => client = "connected" /\ TextIn(written') = TextIn(written),
           phase' # "ended" => phase # "ended"
    PROVE  TextBooks'
  BY DEF TextBooks

\* Writing an event without a chunk.
LEMMA WriteNoText ==
    ASSUME TextBooks, NEW event, ~Parses(event), Write(<<event>>)
    PROVE  Texted(written') /\ TextIn(written') = TextIn(written)
<1>1. Textual(event)
  BY DEF Textual
<1>2. written \o <<event>> = Append(written, event)
  <2>1. IsSequence(written)
    BY DEF TextBooks, Texted
  <2> QED
    BY <2>1 DEF IsSequence
<1> QED
  BY <1>1, <1>2, TextAppend, TextedAppend DEF Write, TextBooks

\* The invariant of the text holds at first.
LEMMA OwnInit == Init => OwnWrites /\ TextBooks
<1> SUFFICES ASSUME Init PROVE OwnWrites /\ TextBooks
  OBVIOUS
<1>1. /\ scenario \in Scenarios /\ phase = "routing" /\ queue = <<>> /\ buffer = <<>> /\ written = <<>>
      /\ pipeline = NewPipeline
      /\ producer = [fed |-> 0, running |-> scenario.kind \in {"api", "cli"},
                     state |-> IF scenario.kind = "api" THEN NewApiStream ELSE <<>>]
  BY DEF Init
<1>2. NewApiStream \in ApiStates
  BY DEF NewApiStream, ApiStates
<1>3. <<>> \in CliStates(scenario) /\ <<>> \in Seq(OwnEvents)
  BY DEF CliStates
<1>4. /\ producer.fed = 0 /\ (producer.running => scenario.kind \in {"api", "cli"})
      /\ producer.state = IF scenario.kind = "api" THEN NewApiStream ELSE <<>>
  <2>1. PICK k : k = (scenario.kind \in {"api", "cli"})
    OBVIOUS
  <2>2. producer = [fed |-> 0, running |-> k, state |-> IF scenario.kind = "api" THEN NewApiStream ELSE <<>>]
    BY <1>1, <2>1
  <2>3. producer.running = k
    BY <2>2
  <2>4. producer.running => scenario.kind \in {"api", "cli"}
    BY <2>1, <2>3, Zenon
  <2> QED
    BY <2>2, <2>4
<1>5. OwnWrites
  BY <1>1, <1>2, <1>3, <1>4 DEF OwnWrites
<1>6. NewPipeline.accumulated = <<>>
  BY DEF NewPipeline
<1>7. IsSequence(<<>>)
  BY OutgoingEmpty DEF Outgoing
<1>8. TextIn(written) = NewPipeline.accumulated /\ Texted(written)
  BY <1>1, <1>6, NoText
<1>9. TextBooks
  BY <1>1, <1>6, <1>7, <1>8 DEF TextBooks
<1> QED
  BY <1>5, <1>9

\* What a provider makes of an event it may enqueue.
LEMMA Makes ==
    ASSUME OwnWrites, scenario \in Scenarios, scenario.kind # "http", producer.running,
           producer.fed < Len(Upstream), NEW r, r = Produced(Upstream[producer.fed + 1])
    PROVE  /\ [i \in DOMAIN r.chunks |-> EventOf(r.chunks[i])] \in Seq(OwnEvents)
           /\ scenario.kind = "api" => r.state \in ApiStates
           /\ scenario.kind = "cli" => r.state \in CliStates(scenario)
<1>1. /\ producer.fed \in Nat /\ scenario.kind \in {"api", "cli"}
      /\ scenario.kind = "api" => producer.state \in ApiStates
      /\ scenario.kind = "cli" => producer.state \in CliStates(scenario)
  BY DEF OwnWrites
<1>2. PICK i : i = producer.fed + 1
  OBVIOUS
<1>3. i \in Nat
  BY <1>1, <1>2
<1>4. /\ r \in ApiResults \cup CliResults
      /\ r.chunks = <<>> \/ \E c : r.chunks = <<c>> /\ IsChunk(c)
      /\ scenario.kind = "api" => r.state \in ApiStates
      /\ scenario.kind = "cli" => r.state \in CliStates(scenario)
  <2>1. CASE scenario.kind = "api"
    <3>1. r = ApiEvent(producer.state, ApiEvents(scenario.answer)[i])
      BY <1>2, <2>1 DEF Produced, Upstream
    <3>2. r \in ApiResults
      <4>1. r \in {ApiEvent(state, ApiEvents(scenario.answer)[j]) : state \in ApiStates, j \in Nat}
        BY <1>1, <1>3, <2>1, <3>1
      <4> QED
        BY <2>1, <4>1 DEF ApiResults
    <3>3. r.state \in ApiStates /\ (r.chunks = <<>> \/ \E c : r.chunks = <<c>> /\ IsChunk(c))
      BY <1>1, <2>1, <3>1, ApiMakes
    <3> QED
      BY <2>1, <3>2, <3>3
  <2>2. CASE scenario.kind = "cli"
    <3>1. r = CliEvent(producer.state, scenario.events[i])
      BY <1>2, <2>2 DEF Produced, Upstream
    <3>2. r \in CliResults
      <4>1. r \in {CliEvent(state, scenario.events[j]) : state \in CliStates(scenario), j \in Nat}
        BY <1>1, <1>3, <2>2, <3>1
      <4> QED
        BY <2>2, <4>1 DEF CliResults
    <3>3. i \in DOMAIN scenario.events
      <4>1. IsSequence(scenario.events) /\ producer.fed < Len(scenario.events)
        BY <2>2, ScenariosAssumption DEF Upstream
      <4> QED
        BY <1>1, <1>2, <4>1 DEF IsSequence
    <3>4. r.state \in CliStates(scenario) /\ (r.chunks = <<>> \/ \E c : r.chunks = <<c>> /\ IsChunk(c))
      BY <1>1, <2>2, <3>1, <3>3, CliMakes
    <3> QED
      BY <2>2, <3>2, <3>4
  <2> QED
    BY <1>1, <2>1, <2>2
<1>5. [j \in DOMAIN r.chunks |-> EventOf(r.chunks[j])] \in Seq(OwnEvents)
  <2>1. CASE r.chunks = <<>>
    <3>1. [j \in DOMAIN r.chunks |-> EventOf(r.chunks[j])] = <<>>
      BY <2>1
    <3> QED
      BY <3>1
  <2>2. CASE r.chunks # <<>>
    <3>1. PICK c : r.chunks = <<c>> /\ IsChunk(c)
      BY <1>4, <2>2
    <3>2. Payload(c) \in MadePieces
      <4>1. PICK chunks : chunks = <<c>>
        OBVIOUS
      <4>2. 1 \in DOMAIN chunks /\ chunks[1] = c
        BY <4>1
      <4>3. chunks = r.chunks /\ 1 \in DOMAIN chunks /\ chunks[1] = c
        BY <3>1, <4>1, <4>2
      <4>4. Payload(c) \in {Payload(r.chunks[k]) : k \in DOMAIN r.chunks}
        BY <4>3
      <4> QED
        BY <1>4, <4>4 DEF MadePieces
    <3>3. PICK e : e = EventOf(c) /\ e \in OwnEvents
      BY <3>1, <3>2, OwnEvent
    <3>4. [j \in DOMAIN r.chunks |-> EventOf(r.chunks[j])] = <<e>>
      BY <3>1, <3>3
    <3>5. <<e>> \in Seq(OwnEvents)
      BY <3>3
    <3> QED
      BY <3>4, <3>5
  <2> QED
    BY <2>1, <2>2
<1> QED
  BY <1>4, <1>5

\* A provider closes its stream, after an error chunk perhaps.
LEMMA OwnClose ==
    ASSUME OwnWrites, OwnStreams, scenario.kind # "http", scenario' = scenario, buffer' = buffer,
           NEW failed, NEW chunks, chunks = <<>> \/ chunks = <<ErrorChunk>>, Close(chunks, failed)
    PROVE  OwnWrites'
<1>1. IsChunk(ErrorChunk) /\ Payload(ErrorChunk) \in MadePieces
  <2>1. <<"[Error]">> \in Seq({"[Error]"})
    OBVIOUS
  <2>2. IsSequence(<<"[Error]">>)
    BY <2>1, SequenceFacts
  <2> QED
    BY <2>2 DEF ErrorChunk, IsChunk, Chunk, MadePieces
<1>2. PICK error : error = EventOf(ErrorChunk) /\ error \in OwnEvents
  BY <1>1, OwnEvent
<1>3. PICK more : more = [i \in DOMAIN chunks |-> EventOf(chunks[i])]
  OBVIOUS
<1>4. more \in Seq(OwnEvents)
  <2>1. CASE chunks = <<>>
    <3>1. more = <<>>
      BY <1>3, <2>1
    <3> QED
      BY <3>1
  <2>2. CASE chunks = <<ErrorChunk>>
    <3>1. more = <<error>>
      BY <1>2, <1>3, <2>2
    <3>2. <<error>> \in Seq(OwnEvents)
      BY <1>2
    <3> QED
      BY <3>1, <3>2
  <2> QED
    BY <2>1, <2>2
<1>5. <<DoneEvent>> \in Seq(OwnEvents)
  <2>1. PICK e : e = DoneEvent /\ e \in OwnEvents
    BY DoneIsOwn
  <2>2. <<e>> \in Seq(OwnEvents)
    BY <2>1
  <2> QED
    BY <2>1, <2>2
<1>6. queue' \in Seq(OwnEvents)
  <2>1. queue \in Seq(OwnEvents) /\ (queue' = queue \/ queue' = queue \o more \o <<DoneEvent>>)
    BY <1>3 DEF Close, OwnWrites
  <2>2. PICK last : last = <<DoneEvent>> /\ last \in Seq(OwnEvents)
    BY <1>5
  <2>3. queue \o more \o last \in Seq(OwnEvents)
    BY <1>4, <2>1, <2>2
  <2> QED
    BY <2>1, <2>2, <2>3
<1>7. producer' = [producer EXCEPT !.running = FALSE]
  BY DEF Close
<1>8. ~producer'.running
  BY <1>7 DEF OwnStreams
<1> QED
  BY <1>6, <1>8 DEF OwnWrites

\* A step that enqueues and reads nothing.
LEMMA OwnStays ==
    ASSUME OwnWrites, scenario' = scenario, scenario.kind # "http" => UNCHANGED <<queue, buffer>>,
           producer'.running => producer' = producer
    PROVE  OwnWrites'
  BY DEF OwnWrites

\* What an http upstream sends between two reads has its text in order.
LEMMA HttpReadText ==
    ASSUME TextBooks, WireRelay, scenario.kind = "http", Read
    PROVE  TextBooks'
<1>1. PICK m \in taken + 1 .. Len(Wire(scenario)) :
         Relay(SubSeq(Wire(scenario), taken + 1, m)) /\ taken' = m
  BY DEF Read
<1>2. phase = "relaying" /\ UNCHANGED <<scenario, phase, client>>
  BY DEF Read, routeVars
<1>3. PICK s \in Scenarios : s = scenario /\ s.kind = "http"
  BY DEF WireRelay
<1>4. PICK n \in Nat : n = taken /\ n <= m
  BY <1>1 DEF WireRelay
<1>5. m \in Nat /\ m <= Len(Wire(s)) /\ buffer = PushedAt(s, n).buffer
  <2>1. Len(Wire(s)) \in Nat
    BY <1>3, PushedNone
  <2> QED
    BY <1>1, <1>2, <1>3, <1>4, <2>1 DEF WireRelay, WhileRelaying
<1>6. PICK pushed : pushed = Push(PushedAt(s, n).buffer, SubSeq(Wire(s), n + 1, m))
  OBVIOUS
<1>7. /\ PushedAt(s, m).events = PushedAt(s, n).events \o pushed.events
      /\ PushedAt(s, n).events \in Seq(SentEvents) /\ pushed.events \in Seq(SentEvents)
  <2>1. s.kind = "http" /\ m \in Nat /\ n <= m /\ m <= Len(Wire(s))
    BY <1>3, <1>4, <1>5
  <2>2. \A t \in Scenarios : \A i \in Nat : \A j \in Nat : \A p :
          (/\ t.kind = "http" /\ i <= j /\ j <= Len(Wire(t))
           /\ p = Push(PushedAt(t, i).buffer, SubSeq(Wire(t), i + 1, j))) =>
               /\ PushedAt(t, j).buffer = p.buffer
               /\ PushedAt(t, j).events = PushedAt(t, i).events \o p.events
               /\ PushedAt(t, i).events \in Seq(SentEvents) /\ p.events \in Seq(SentEvents)
    BY PushedOn
  <2> QED
    BY <1>6, <2>1, <2>2, Zenon
<1>8. PICK rest \in Seq(SentEvents) : s.events = PushedAt(s, m).events \o rest
  BY <1>3, <1>5, PushedPrefix
<1>9. PICK E : s.events \in Seq(E) /\ \A e \in E : Textual(e)
  BY <1>3, SentTextual
<1>10. pushed.events \in Seq(E)
  <2>1. PICK a \in Seq(SentEvents), b \in Seq(SentEvents) : a = PushedAt(s, n).events /\ b = pushed.events
    BY <1>7
  <2>2. (a \o b) \o rest \in Seq(E)
    BY <1>7, <1>8, <1>9, <2>1
  <2>3. b \in Seq(E)
    BY <2>2, MiddlePart
  <2> QED
    BY <2>1, <2>3
<1>11. Relay(SubSeq(Wire(s), n + 1, m)) /\ Push(buffer, SubSeq(Wire(s), n + 1, m)) = pushed
  BY <1>1, <1>3, <1>4, <1>5, <1>6
<1>12. Write(Rendered(pipeline, pushed.events).out) /\ pipeline' = Rendered(pipeline, pushed.events).pipe
  BY <1>11 DEF Relay
<1> QED
  BY <1>2, <1>9, <1>10, <1>12, TextGrows

\* The tail of an http stream, too.
LEMMA HttpFinishText ==
    ASSUME TextBooks, WireRelay, Cancelled, scenario.kind = "http", Finish
    PROVE  TextBooks'
<1>1. /\ phase = "relaying" /\ phase' = "ended" /\ body \notin {"open", "broken"}
      /\ UNCHANGED <<scenario, client, body, taken>>
      /\ Write(Drained(pipeline, buffer).out) /\ pipeline' = Drained(pipeline, buffer).pipe
  BY DEF Finish, NothingToRead, EndRelay, producerVars
<1>2. CASE client # "connected"
  BY <1>1, <1>2 DEF Write, TextBooks
<1>3. CASE client = "connected"
  <2>1. PICK s \in Scenarios : s = scenario /\ s.kind = "http"
    BY DEF WireRelay
  <2>2. taken = Len(Wire(s)) /\ buffer = PushedAt(s, Len(Wire(s))).buffer
    BY <1>1, <1>3, <2>1 DEF WireRelay, WhileRelaying, Cancelled
  <2>3. PICK a \in Seq(SentEvents), b \in Seq(SentEvents) : b = Flush(buffer) /\ a \o b = s.events
    BY <2>1, <2>2, PushedAll
  <2>4. PICK E : s.events \in Seq(E) /\ \A e \in E : Textual(e)
    BY <2>1, SentTextual
  <2>5. b \in Seq(E)
    <3>1. PICK none : none = <<>>
      OBVIOUS
    <3>2. none \in Seq(SentEvents)
      BY <3>1
    <3>3. PICK all : all = a \o b
      OBVIOUS
    <3>4. all \in Seq(SentEvents)
      BY <3>3
    <3>5. (a \o b) \o none = all
      BY <3>1, <3>3, <3>4
    <3>6. all \in Seq(E)
      BY <2>3, <2>4, <3>3
    <3> QED
      BY <3>5, <3>6, <3>2, MiddlePart
  <2>6. Write(Rendered(pipeline, b).out) /\ pipeline' = Rendered(pipeline, b).pipe
    BY <1>1, <2>3 DEF Drained
  <2> QED
    BY <1>1, <2>4, <2>5, <2>6, TextGrows
<1> QED
  BY <1>2, <1>3

\* A claude provider's event is read whole.
LEMMA OwnReadQueued ==
    ASSUME OwnStreams, OwnWrites, TextBooks, ReadQueued
    PROVE  OwnWrites' /\ TextBooks'
<1>1. /\ phase = "relaying" /\ queue # <<>> /\ Relay(Serialize(Head(queue), <<LF>>)) /\ queue' = Tail(queue)
      /\ UNCHANGED <<scenario, phase, client, producer>>
  BY DEF ReadQueued, routeVars
<1>2. scenario.kind # "http" /\ queue \in Seq(OwnEvents) /\ buffer = <<>>
  BY <1>1 DEF OwnStreams, OwnWrites
<1>3. PICK event \in OwnEvents : event = Head(queue)
  BY <1>1, <1>2
<1>4. PICK text : text = Serialize(event, <<LF>>)
  OBVIOUS
<1>5. Push(<<>>, text) = [events |-> <<event>>, buffer |-> <<>>]
  BY <1>4, OwnEventRead DEF OwnEvents
<1>6. PICK p : p = Push(<<>>, text) /\ p.events = <<event>> /\ p.buffer = <<>>
  BY <1>5
<1>7. /\ buffer' = <<>> /\ Write(Rendered(pipeline, <<event>>).out)
      /\ pipeline' = Rendered(pipeline, <<event>>).pipe
  BY <1>1, <1>2, <1>3, <1>4, <1>6 DEF Relay
<1>8. queue' \in Seq(OwnEvents)
  BY <1>1, <1>2
<1>9. OwnWrites'
  BY <1>1, <1>2, <1>7, <1>8 DEF OwnWrites
<1>10. PICK events : events = <<event>>
  OBVIOUS
<1>11. events \in Seq(OwnEvents) /\ \A e \in OwnEvents : Textual(e)
  BY <1>10 DEF OwnEvents
<1>12. TextBooks'
  BY <1>1, <1>7, <1>10, <1>11, TextGrows
<1> QED
  BY <1>9, <1>12

\* A provider's stream ends on a blank line, and there is no tail.
LEMMA OwnFinish ==
    ASSUME OwnStreams, OwnWrites, TextBooks, scenario.kind # "http", Finish
    PROVE  OwnWrites' /\ TextBooks'
<1>1. /\ phase = "relaying" /\ phase' = "ended" /\ buffer' = <<>>
      /\ UNCHANGED <<scenario, client, producer, queue>>
      /\ Write(Drained(pipeline, buffer).out) /\ pipeline' = Drained(pipeline, buffer).pipe
  BY DEF Finish, NothingToRead, EndRelay, producerVars
<1>2. buffer = <<>>
  BY DEF OwnWrites
<1>3. OwnWrites'
  BY <1>1, <1>2, OwnStays
<1>4. Drained(pipeline, buffer) = Rendered(pipeline, <<>>)
  BY <1>2, NoBlockNoEvent DEF Drained, Flush
<1>5. <<>> \in Seq(OwnEvents) /\ \A e \in OwnEvents : Textual(e)
  BY DEF OwnEvents
<1>6. PICK none : none = <<>>
  OBVIOUS
<1>7. /\ Write(Rendered(pipeline, none).out) /\ pipeline' = Rendered(pipeline, none).pipe
      /\ none \in Seq(OwnEvents)
  BY <1>1, <1>4, <1>5, <1>6
<1>8. TextBooks'
  BY <1>1, <1>5, <1>7, TextGrows
<1> QED
  BY <1>3, <1>8

\* What a provider enqueues.
LEMMA OwnProduce ==
    ASSUME OwnStreams, OwnWrites, scenario \in Scenarios, Produce
    PROVE  OwnWrites'
<1>1. PICK r : r = Produced(Upstream[producer.fed + 1])
  OBVIOUS
<1>2. PICK made : made = [i \in DOMAIN r.chunks |-> EventOf(r.chunks[i])]
  OBVIOUS
<1>3. PICK throws : throws = (r.chunks # <<>> /\ body # "open")
  OBVIOUS
<1>4. /\ producer.running /\ producer.fed < Len(Upstream)
      /\ UNCHANGED <<scenario, buffer>>
      /\ producer' = [fed |-> producer.fed + 1, state |-> r.state, running |-> ~throws]
      /\ queue' = IF throws THEN queue ELSE queue \o made
  BY <1>1, <1>2, <1>3 DEF Produce, routeVars, relayVars
<1>5. scenario.kind # "http"
  BY <1>4 DEF OwnStreams
<1>6. /\ made \in Seq(OwnEvents)
      /\ scenario.kind = "api" => r.state \in ApiStates
      /\ scenario.kind = "cli" => r.state \in CliStates(scenario)
  BY <1>1, <1>2, <1>4, <1>5, Makes
<1>7. queue' \in Seq(OwnEvents) /\ buffer' = <<>>
  <2>1. queue \in Seq(OwnEvents) /\ buffer = <<>>
    BY <1>5 DEF OwnWrites
  <2>2. queue \o made \in Seq(OwnEvents)
    BY <1>6, <2>1
  <2> QED
    BY <1>4, <2>1, <2>2
<1>8. scenario.kind \in {"api", "cli"} /\ producer.fed \in Nat
  BY <1>4, <1>5 DEF OwnWrites
<1>9. producer'.fed = producer.fed + 1 /\ producer'.state = r.state
  BY <1>4
<1> QED
  BY <1>4, <1>6, <1>7, <1>8, <1>9 DEF OwnWrites

\* The invariant of the text is kept by every step.
LEMMA OwnStep ==
    RelayIInv /\ HttpIInv /\ OwnWrites /\ TextBooks /\ [Next]_vars => OwnWrites' /\ TextBooks'
<1> SUFFICES ASSUME RelayIInv, HttpIInv, OwnWrites, TextBooks, [Next]_vars
             PROVE  OwnWrites' /\ TextBooks'
  OBVIOUS
<1>1. OwnStreams /\ Cancelled /\ Logged /\ scenario \in Scenarios /\ Texted(written)
  BY DEF RelayIInv, TextBooks
<1>2. scenario.kind = "http" => WireRelay
  BY DEF HttpIInv
<1>3. CASE Routed
  <2>1. /\ phase = "routing"
        /\ UNCHANGED <<scenario, client, producer, queue, buffer, pipeline, written>>
    BY <1>3 DEF Routed, relayVars, producerVars
  <2> QED
    BY <1>1, <2>1, OwnStays, TextStays
<1>4. CASE RoutedWithoutBody
  <2>1. /\ phase = "routing" /\ phase' = "ended" /\ Write(<<DoneEvent>>)
        /\ UNCHANGED <<scenario, client, producer, queue, buffer, pipeline>>
    BY <1>4 DEF RoutedWithoutBody, producerVars
  <2>2. ~Parses(DoneEvent)
    BY DEF Parses, DoneEvent
  <2>3. Texted(written') /\ TextIn(written') = TextIn(written)
    BY <2>1, <2>2, WriteNoText
  <2> QED
    BY <2>1, <2>3, OwnStays, TextStays
<1>5. CASE RouteFails
  <2>1. /\ phase = "routing" /\ phase' = "ended" /\ producer' = [producer EXCEPT !.running = FALSE]
        /\ UNCHANGED <<scenario, client, queue, buffer, pipeline, written>>
    BY <1>5 DEF RouteFails, relayVars
  <2>2. ~producer'.running
    BY <1>1, <2>1 DEF OwnStreams
  <2> QED
    BY <1>1, <2>1, <2>2, OwnStays, TextStays
<1>6. CASE ClientLeaves
  <2>1. /\ client' = "gone" /\ queue' \in {<<>>, queue}
        /\ UNCHANGED <<scenario, phase, producer, buffer, pipeline, written>>
    BY <1>6 DEF ClientLeaves, relayVars
  <2>2. TextBooks'
    BY <1>1, <2>1, TextStays
  <2>3. scenario.kind # "http" => queue' \in Seq(OwnEvents)
    <3>1. <<>> \in Seq(OwnEvents)
      OBVIOUS
    <3>2. scenario.kind # "http" => queue \in Seq(OwnEvents)
      BY DEF OwnWrites
    <3> QED
      BY <2>1, <3>1, <3>2
  <2> QED
    BY <2>1, <2>2, <2>3 DEF OwnWrites
<1>7. CASE Read
  <2>1. scenario.kind = "http" /\ UNCHANGED <<scenario, producer>>
    BY <1>7 DEF Read, routeVars
  <2>2. TextBooks'
    BY <1>2, <1>7, <2>1, HttpReadText
  <2> QED
    BY <2>1, <2>2, OwnStays
<1>8. CASE ReadQueued
  BY <1>1, <1>8, OwnReadQueued
<1>9. CASE Finish
  <2>1. CASE scenario.kind = "http"
    <3>1. UNCHANGED <<scenario, producer>>
      BY <1>9 DEF Finish, producerVars
    <3>2. TextBooks'
      BY <1>1, <1>2, <1>9, <2>1, HttpFinishText
    <3> QED
      BY <2>1, <3>1, <3>2, OwnStays
  <2>2. CASE scenario.kind # "http"
    BY <1>1, <1>9, <2>2, OwnFinish
  <2> QED
    BY <2>1, <2>2
<1>10. CASE FinishBroken
  <2>1. /\ phase = "relaying" /\ phase' = "ended"
        /\ UNCHANGED <<scenario, client, producer, queue, buffer, pipeline, written>>
    BY <1>10 DEF FinishBroken, NothingToRead, EndRelay, relayVars, producerVars
  <2> QED
    BY <1>1, <2>1, OwnStays, TextStays
<1>11. CASE Heartbeat
  <2>1. Write(<<KeepAlive>>) /\ UNCHANGED <<scenario, phase, client, producer, queue, buffer, pipeline>>
    BY <1>11 DEF Heartbeat, routeVars, producerVars
  <2>2. ~Parses(KeepAlive)
    BY DEF Parses, KeepAlive
  <2>3. Texted(written') /\ TextIn(written') = TextIn(written)
    BY <2>1, <2>2, WriteNoText
  <2> QED
    BY <2>1, <2>3, OwnStays, TextStays
<1>12. CASE UpstreamEnds
  <2>1. UNCHANGED <<scenario, phase, client, producer, queue, buffer, pipeline, written>>
    BY <1>12 DEF UpstreamEnds, routeVars, relayVars
  <2> QED
    BY <1>1, <2>1, OwnStays, TextStays
<1>13. CASE Produce
  <2>1. UNCHANGED <<scenario, phase, client, pipeline, written>>
    BY <1>13 DEF Produce, routeVars, relayVars
  <2> QED
    BY <1>1, <1>13, <2>1, OwnProduce, TextStays
<1>14. ASSUME producer.running, NEW chunks, NEW failed, chunks = <<>> \/ chunks = <<ErrorChunk>>,
              Close(chunks, failed), UNCHANGED <<routeVars, client, relayVars>>
       PROVE  OwnWrites' /\ TextBooks'
  <2>1. UNCHANGED <<scenario, phase, client, buffer, pipeline, written>>
    BY <1>14 DEF routeVars, relayVars
  <2>2. scenario.kind # "http"
    BY <1>1, <1>14 DEF OwnStreams
  <2>3. OwnWrites'
    BY <1>1, <1>14, <2>1, <2>2, OwnClose
  <2> QED
    BY <1>1, <2>1, <2>3, TextStays
<1>15. CASE ProducerEnds
  BY <1>14, <1>15 DEF ProducerEnds
<1>16. CASE ProducerBreaks
  BY <1>14, <1>16 DEF ProducerBreaks
<1>17. CASE UNCHANGED vars
  <2>1. UNCHANGED <<scenario, phase, client, producer, queue, buffer, pipeline, written>>
    BY <1>17 DEF vars
  <2> QED
    BY <1>1, <2>1, OwnStays, TextStays
<1> QED
  BY <1>3, <1>4, <1>5, <1>6, <1>7, <1>8, <1>9, <1>10, <1>11, <1>12, <1>13, <1>15, <1>16, <1>17
     DEF Next, Ended

\* TextIn of what has been written is the text of the chunks seen.
LEMMA TextIsSeen == TextIn(written) = FlattenSeq([i \in DOMAIN ChunksSeen |-> ChunksSeen[i].text])
  BY DEF TextIn, ChunksIn, ChunksSeen

\* The books of a stream, and the text that is logged is the text the client has read if it
\* stayed (handleStreamingRequest, buildSseResponse), for any upstreams.
THEOREM StreamBooksHold == Spec => []StreamBooks
<1>1. RelayBooks /\ TextBooks => StreamBooks
  BY TextIsSeen DEF StreamBooks, TextBooks
<1> QED
  BY <1>1, RelayBooksHold, RelayInit, RelayStep, HttpInit, HttpStep, OwnInit, OwnStep, PTL DEF Spec

-----------------------------------------------------------------------------
\* What a client can put together of the tool calls.

\* No fragment has been fixed.
Unfixed(n0) == [calls |-> <<>>, state |-> n0]

\* What transform() computes from the left.
Fixes(p, g, calls, n0) ==
    g = [i \in 0 .. Len(calls) |-> IF i = 0 THEN Unfixed(n0) ELSE FixNext(p, g[i - 1], calls[i])]

\* One step of that computation.
LEMMA FixesAt ==
    ASSUME NEW calls, NEW p, NEW n0, NEW g, Fixes(p, g, calls, n0),
           NEW i \in Nat, i <= Len(calls), Len(calls) \in Nat
    PROVE  g[i] = IF i = 0 THEN Unfixed(n0) ELSE FixNext(p, g[i - 1], calls[i])
<1>1. i \in 0 .. Len(calls)
  OBVIOUS
<1> QED
  BY <1>1 DEF Fixes

\* It is the same for fragments that agree so far.
LEMMA FixesOnce ==
    ASSUME NEW p, NEW n0, NEW Y, NEW s \in Seq(Y), NEW t \in Seq(Y),
           NEW g, Fixes(p, g, s, n0), NEW h, Fixes(p, h, t, n0),
           NEW n \in Nat, n <= Len(s), n <= Len(t), \A i \in 1 .. n : s[i] = t[i]
    PROVE  g[n] = h[n]
<1> DEFINE S == {k \in Nat : k <= n => g[k] = h[k]}
<1>1. 0 \in S
  <2>1. g[0] = Unfixed(n0) /\ h[0] = Unfixed(n0)
    BY FixesAt
  <2> QED
    BY <2>1
<1>2. ASSUME NEW k \in Nat, k \in S PROVE k + 1 \in S
  <2> SUFFICES ASSUME k + 1 <= n PROVE g[k + 1] = h[k + 1]
    OBVIOUS
  <2>1. k + 1 \in Nat /\ k + 1 # 0 /\ k + 1 - 1 = k /\ k + 1 <= Len(s) /\ k + 1 <= Len(t)
        /\ s[k + 1] = t[k + 1] /\ g[k] = h[k] /\ Len(s) \in Nat /\ Len(t) \in Nat
    BY <1>2
  <2>2. g[k + 1] = FixNext(p, g[k + 1 - 1], s[k + 1])
    BY <2>1, FixesAt
  <2>3. h[k + 1] = FixNext(p, h[k + 1 - 1], t[k + 1])
    BY <2>1, FixesAt
  <2> QED
    BY <2>1, <2>2, <2>3
<1>3. Nat \subseteq S
  <2> HIDE DEF S
  <2> QED
    BY <1>1, <1>2, Induction
<1> QED
  BY <1>3

\* It exists for all fragments.
LEMMA FixesExists ==
    ASSUME NEW p, NEW n0, NEW Y, NEW s \in Seq(Y)
    PROVE  \E g : Fixes(p, g, s, n0)
<1> DEFINE Good(n, g) == g = [i \in 0 .. n |-> IF i = 0 THEN Unfixed(n0) ELSE FixNext(p, g[i - 1], s[i])]
           S == {n \in Nat : \E g : Good(n, g)}
<1>1. 0 \in S
  <2>1. Good(0, [i \in 0 .. 0 |-> Unfixed(n0)])
    OBVIOUS
  <2> HIDE DEF Good
  <2> QED
    BY <2>1
<1>2. ASSUME NEW n \in Nat, n \in S PROVE n + 1 \in S
  <2>1. PICK g : Good(n, g)
    BY <1>2
  <2> DEFINE h == [i \in 0 .. n + 1 |-> IF i = n + 1 THEN FixNext(p, g[n], s[n + 1]) ELSE g[i]]
  <2>2. \A i \in 0 .. n : h[i] = g[i]
    OBVIOUS
  <2>3. \A i \in 0 .. n : g[i] = IF i = 0 THEN Unfixed(n0) ELSE FixNext(p, g[i - 1], s[i])
    BY <2>1
  <2>4. h[n + 1] = FixNext(p, g[n], s[n + 1])
    OBVIOUS
  <2>5. DOMAIN h = 0 .. n + 1 /\ h = [i \in DOMAIN h |-> h[i]]
    OBVIOUS
  <2> HIDE DEF h
  <2>6. ASSUME NEW i \in 0 .. n + 1
        PROVE  h[i] = IF i = 0 THEN Unfixed(n0) ELSE FixNext(p, h[i - 1], s[i])
    <3>1. CASE i = n + 1
      <4>1. i # 0 /\ i - 1 = n /\ n \in 0 .. n
        BY <3>1
      <4> QED
        BY <2>2, <2>4, <3>1, <4>1
    <3>2. CASE i # n + 1
      <4>1. i \in 0 .. n /\ (i # 0 => i - 1 \in 0 .. n)
        BY <3>2
      <4>2. h[i] = g[i] /\ (i # 0 => h[i - 1] = g[i - 1])
        BY <2>2, <4>1
      <4>3. g[i] = IF i = 0 THEN Unfixed(n0) ELSE FixNext(p, g[i - 1], s[i])
        BY <2>3, <4>1
      <4> QED
        BY <4>2, <4>3
    <3> QED
      BY <3>1, <3>2
  <2>7. Good(n + 1, h)
    BY <2>5, <2>6
  <2> HIDE DEF Good
  <2> QED
    BY <2>7
<1>3. Nat \subseteq S
  <2> HIDE DEF S
  <2> QED
    BY <1>1, <1>2, Induction
<1>4. Len(s) \in Nat
  OBVIOUS
<1> QED
  BY <1>3, <1>4 DEF Fixes

\* FixAll is its last value.
LEMMA FixAllValue ==
    ASSUME NEW Y, NEW s \in Seq(Y), NEW p, NEW n0
    PROVE  \E g : Fixes(p, g, s, n0) /\ FixAll(p, n0, s) = g[Len(s)]
<1> DEFINE g == CHOOSE g : Fixes(p, g, s, n0)
<1>1. Fixes(p, g, s, n0)
  BY FixesExists
<1>2. FixAll(p, n0, s) = g[Len(s)]
  BY DEF FixAll, Unfixed, Fixes
<1> QED
  BY <1>1, <1>2

\* No fragment is fixed to none.
LEMMA FixAllEmpty ==
    ASSUME NEW p, NEW n0
    PROVE  FixAll(p, n0, <<>>) = Unfixed(n0)
<1>1. <<>> \in Seq({}) /\ Len(<<>>) = 0
  OBVIOUS
<1>2. PICK g : Fixes(p, g, <<>>, n0) /\ FixAll(p, n0, <<>>) = g[Len(<<>>)]
  BY <1>1, FixAllValue
<1>3. g[0] = Unfixed(n0)
  BY <1>1, <1>2, FixesAt
<1> QED
  BY <1>1, <1>2, <1>3

\* One more fragment is fixed in the state the others left.
LEMMA FixAllAppend ==
    ASSUME NEW X, NEW calls \in Seq(X), NEW tc \in X, NEW p, NEW n0
    PROVE  FixAll(p, n0, Append(calls, tc)) = FixNext(p, FixAll(p, n0, calls), tc)
<1>1. PICK n \in Nat : n = Len(calls)
  OBVIOUS
<1>2. PICK t : t = Append(calls, tc)
  OBVIOUS
<1>3. /\ t \in Seq(X) /\ Len(t) = n + 1 /\ t[n + 1] = tc
      /\ \A i \in 1 .. n : calls[i] = t[i]
  BY <1>1, <1>2, AppendProperties
<1>4. PICK g : Fixes(p, g, calls, n0) /\ FixAll(p, n0, calls) = g[n]
  BY <1>1, FixAllValue
<1>5. PICK h : Fixes(p, h, t, n0) /\ FixAll(p, n0, t) = h[n + 1]
  BY <1>3, FixAllValue
<1>6. n <= Len(calls) /\ n <= Len(t) /\ n + 1 <= Len(t) /\ n + 1 # 0 /\ n + 1 - 1 = n
      /\ n + 1 \in Nat /\ Len(t) \in Nat
  BY <1>1, <1>3
<1>7. g[n] = h[n]
  BY <1>3, <1>4, <1>5, <1>6, FixesOnce
<1>8. h[n + 1] = FixNext(p, h[n + 1 - 1], t[n + 1])
  BY <1>5, <1>6, FixesAt
<1> QED
  BY <1>2, <1>3, <1>4, <1>5, <1>6, <1>7, <1>8

\* What a normalizer has made of fragments, each with the call it belongs to.

\* The states of a normalizer that has seen fragments of F.
Normalizers(F) ==
    [names : Seq({f.name : f \in F}), nextIndex : Nat, lastIndex : Int, seen : BOOLEAN]

\* Every fragment of C has the index that a fragment of the same call was sent with.
AsSent(T, C) ==
    \A c \in C : ~c.hoisted /\ \E k \in DOMAIN T : /\ T[k].index # None /\ T[k].index = c.index
                                                  /\ T[k].call = c.call

\* Gemini's names are those of the fragments, each once,
EachOnce(names) == \A i, j \in DOMAIN names : names[i] = names[j] => i = j

\* every name of a fragment is there,
AllNamed(names, T) == \A k \in DOMAIN T : T[k].name # None => \E i \in DOMAIN names : names[i] = T[k].name

\* and nothing else,
OnlyNamed(names, T) == \A i \in DOMAIN names : names[i] # None /\ \E k \in DOMAIN T : T[k].name = names[i]

\* the last of them that of the call that began last,
LastNamed(names, T) ==
    \A k \in DOMAIN T : BeginsCall(T, k) /\ (\A j \in k + 1 .. Len(T) : ~BeginsCall(T, j)) =>
       names # <<>> /\ names[Len(names)] = T[k].name

\* and every fragment of C has the index of its call's name.
IndexedBy(names, T, C) ==
    \A c \in C : /\ ~c.hoisted /\ c.index + 1 \in DOMAIN names /\ c.index \in Nat
                 /\ \E k \in DOMAIN T : T[k].name = names[c.index + 1] /\ T[k].call = c.call

\* All of that.
KnownByName(n, T, C) ==
    /\ n.nextIndex = Len(n.names) /\ EachOnce(n.names) /\ AllNamed(n.names, T)
    /\ OnlyNamed(n.names, T) /\ LastNamed(n.names, T) /\ IndexedBy(n.names, T, C)

\* A call without an index has index 0.
AllFirst(n, T, C) ==
    /\ n.seen <=> T # <<>>
    /\ n.seen => n.lastIndex = 0
    /\ \A c \in C : ~c.hoisted /\ c.index = 0 /\ T # <<>> /\ c.call = T[1].call

\* Ollama's last index is that of the last call.
AsLast(n, T, C) ==
    /\ T # <<>> => /\ n.seen
                   /\ \E k \in DOMAIN T : /\ T[k].index # None /\ T[k].index = n.lastIndex
                                            /\ T[k].call = T[Len(T)].call
    /\ AsSent(T, C)

\* What they have made of fragments sent as upstreams do.
Normed(p, n, T, C) ==
    /\ p # "ollama" /\ Numbered(T) => AsSent(T, C)
    /\ p = "gemini" /\ ByName(T) => KnownByName(n, T, C)
    /\ p = "ollama" /\ Alone(T) => AllFirst(n, T, C)
    /\ p = "ollama" /\ Continued(T) => AsLast(n, T, C)

\* The fragments can be put together.
Apart(C) == \A f, g \in C : f.index # None /\ ~f.hoisted /\ Agree(f, g)

\* They can after the normalizers.
LEMMA NormedApart ==
    ASSUME NEW p, NEW n, NEW F, \A f \in F : IsFragment(f), NEW T \in Seq(F), NEW C,
           StreamsCalls(p, T), Normed(p, n, T, C)
    PROVE  Apart(C)
<1>1. CASE p # "ollama" /\ Numbered(T)
  BY <1>1 DEF Normed, Numbered, AsSent, Apart, Agree
<1>2. CASE p = "gemini" /\ ByName(T)
  <2>1. KnownByName(n, T, C)
    BY <1>2 DEF Normed
  <2>2. ASSUME NEW f \in C, NEW g \in C PROVE f.index # None /\ ~f.hoisted /\ Agree(f, g)
    <3>1. f.index \in Nat /\ f.index # None /\ ~f.hoisted /\ f.index + 1 \in DOMAIN n.names
      BY <2>1, NoneAssumption DEF KnownByName, EachOnce, AllNamed, OnlyNamed, LastNamed, IndexedBy
    <3>2. g.index \in Nat /\ g.index + 1 \in DOMAIN n.names
      BY <2>1 DEF KnownByName, EachOnce, AllNamed, OnlyNamed, LastNamed, IndexedBy
    <3>3. PICK k \in DOMAIN T : T[k].name = n.names[f.index + 1] /\ T[k].call = f.call
      BY <2>1 DEF KnownByName, EachOnce, AllNamed, OnlyNamed, LastNamed, IndexedBy
    <3>4. PICK l \in DOMAIN T : T[l].name = n.names[g.index + 1] /\ T[l].call = g.call
      BY <2>1 DEF KnownByName, EachOnce, AllNamed, OnlyNamed, LastNamed, IndexedBy
    <3>5. T[k].name # None /\ T[l].name # None
      BY <2>1, <3>1, <3>2, <3>3, <3>4 DEF KnownByName, EachOnce, AllNamed, OnlyNamed, LastNamed, IndexedBy
    <3>6. T[k].call = T[l].call <=> T[k].name = T[l].name
      BY <1>2, <3>5 DEF ByName
    <3>7. n.names[f.index + 1] = n.names[g.index + 1] <=> f.index + 1 = g.index + 1
      BY <2>1, <3>1, <3>2 DEF KnownByName, EachOnce, AllNamed, OnlyNamed, LastNamed, IndexedBy
    <3> QED
      BY <3>1, <3>2, <3>3, <3>4, <3>6, <3>7 DEF Agree
  <2> QED
    BY <2>2 DEF Apart
<1>3. CASE p = "ollama" /\ Alone(T)
  <2>1. AllFirst(n, T, C)
    BY <1>3 DEF Normed
  <2> QED
    BY <2>1, NoneAssumption DEF AllFirst, Apart, Agree
<1>4. CASE p = "ollama" /\ Continued(T)
  <2>1. AsSent(T, C)
    BY <1>4 DEF Normed, AsLast
  <2> QED
    BY <1>4, <2>1 DEF Continued, AsSent, Apart, Agree
<1> QED
  BY <1>1, <1>2, <1>3, <1>4 DEF StreamsCalls

\* Nothing sent, nothing made.
LEMMA NormedNone ==
    ASSUME NEW p, NEW F
    PROVE  Normed(p, NewNormalizer, <<>>, {}) /\ NewNormalizer \in Normalizers(F)
<1>1. NewNormalizer \in Normalizers(F)
  BY DEF NewNormalizer, Normalizers
<1>2. KnownByName(NewNormalizer, <<>>, {})
  BY DEF NewNormalizer, KnownByName, EachOnce, AllNamed, OnlyNamed, LastNamed, IndexedBy
<1> QED
  BY <1>1, <1>2 DEF Normed, AsSent, AllFirst, AsLast, NewNormalizer

\* What is said of a longer stream is said of its beginning.
LEMMA StreamsBegin ==
    ASSUME NEW F, NEW T \in Seq(F), NEW U \in Seq(F), Len(T) <= Len(U),
           \A i \in 1 .. Len(T) : U[i] = T[i]
    PROVE  /\ Numbered(U) => Numbered(T)
           /\ ByName(U) => ByName(T)
           /\ Alone(U) => Alone(T)
           /\ Continued(U) => Continued(T)
           /\ \A k \in 1 .. Len(T) : BeginsCall(U, k) <=> BeginsCall(T, k)
<1>1. PICK l \in Nat, m \in Nat : l = Len(T) /\ m = Len(U) /\ l <= m /\ DOMAIN T = 1 .. l /\ DOMAIN U = 1 .. m
  OBVIOUS
<1>2. \A i \in 1 .. l : i \in 1 .. m /\ U[i] = T[i]
  BY <1>1
<1>3. \A k \in 1 .. l : BeginsCall(U, k) <=> BeginsCall(T, k)
  <2> SUFFICES ASSUME NEW k \in 1 .. l PROVE BeginsCall(U, k) <=> BeginsCall(T, k)
    OBVIOUS
  <2>1. \A j \in 1 .. k - 1 : j \in 1 .. l
    BY <1>1
  <2> QED
    BY <1>2, <2>1 DEF BeginsCall
<1>4. Numbered(U) => Numbered(T)
  BY <1>1, <1>2 DEF Numbered
<1>5. Alone(U) => Alone(T)
  BY <1>1, <1>2 DEF Alone
<1>6. Continued(U) => Continued(T)
  <2>1. ASSUME NEW i \in 1 .. l, i > 1 PROVE i - 1 \in 1 .. l
    BY <1>1, <2>1
  <2> QED
    BY <1>1, <1>2, <2>1 DEF Continued
<1>7. ByName(U) => ByName(T)
  <2> SUFFICES ASSUME ByName(U) PROVE ByName(T)
    OBVIOUS
  <2>1. ASSUME NEW i \in 1 .. l, T[i].name = None
        PROVE  \E k \in 1 .. i - 1 : /\ BeginsCall(T, k) /\ T[k].call = T[i].call
                                     /\ \A j \in k + 1 .. i - 1 : ~BeginsCall(T, j)
    <3>1. PICK k \in 1 .. i - 1 : /\ BeginsCall(U, k) /\ U[k].call = U[i].call
                                  /\ \A j \in k + 1 .. i - 1 : ~BeginsCall(U, j)
      BY <1>1, <1>2, <2>1 DEF ByName
    <3>2. k \in 1 .. l /\ \A j \in k + 1 .. i - 1 : j \in 1 .. l
      BY <1>1, <2>1
    <3> QED
      BY <1>2, <1>3, <2>1, <3>1, <3>2
  <2>2. \A i, j \in 1 .. l : T[i].name # None /\ T[j].name # None =>
             (T[i].call = T[j].call <=> T[i].name = T[j].name)
    BY <1>1, <1>2 DEF ByName
  <2>3. \A i \in 1 .. l : T[i].index = None /\ ~T[i].hoisted
    BY <1>1, <1>2 DEF ByName
  <2> QED
    BY <1>1, <2>1, <2>2, <2>3 DEF ByName
<1> QED
  BY <1>1, <1>3, <1>4, <1>5, <1>6, <1>7

\* A fragment with its index filled in.
Fill(tc, x) == [tc EXCEPT !.index = x]

\* The same with its arguments in place.
FillHoisted(tc, x) == [Hoisted(tc) EXCEPT !.index = x]

\* Ollama's state after a fragment, and Gemini's after a new name.
Saw(n, x) == [n EXCEPT !.seen = TRUE, !.lastIndex = x]
Learned(n, name) == [n EXCEPT !.nextIndex = n.nextIndex + 1, !.names = Append(n.names, name)]

\* Filling in is no more than that.
LEMMA Filled ==
    ASSUME NEW tc, IsFragment(tc), NEW x
    PROVE  /\ Fill(tc, x).index = x /\ Fill(tc, x).call = tc.call /\ Fill(tc, x).hoisted = tc.hoisted
           /\ FillHoisted(tc, x).index = x /\ FillHoisted(tc, x).call = tc.call /\ ~FillHoisted(tc, x).hoisted
<1>1. PICK a, b, c, d, e : a = tc.call /\ b = tc.index /\ c = tc.name /\ d = tc.args /\ e = tc.hoisted
  OBVIOUS
<1>2. tc = [call |-> a, index |-> b, name |-> c, args |-> d, hoisted |-> e]
  BY <1>1 DEF IsFragment
<1> PICK no : no = FALSE
  OBVIOUS
<1>3. Hoisted(tc) = [call |-> a, index |-> b, name |-> c, args |-> d, hoisted |-> no]
  <2>1. Hoisted(tc) = [tc EXCEPT !.hoisted = no]
    BY DEF Hoisted
  <2> QED
    BY <1>2, <2>1
<1>4. FillHoisted(tc, x) = [call |-> a, index |-> x, name |-> c, args |-> d, hoisted |-> no]
  BY <1>3 DEF FillHoisted
<1>5. Fill(tc, x) = [call |-> a, index |-> x, name |-> c, args |-> d, hoisted |-> e]
  BY <1>2 DEF Fill
<1>6. /\ FillHoisted(tc, x).index = x /\ FillHoisted(tc, x).call = a
      /\ FillHoisted(tc, x).hoisted = FALSE
  BY <1>4
<1>7. Fill(tc, x).index = x /\ Fill(tc, x).call = a /\ Fill(tc, x).hoisted = e
  BY <1>5
<1>8. ~FillHoisted(tc, x).hoisted
  BY <1>6, Zenon
<1> QED
  BY <1>1, <1>6, <1>7, <1>8, Zenon

\* The fields of a normalizer's state.
LEMMA NormalizerFields ==
    ASSUME NEW F, NEW n \in Normalizers(F)
    PROVE  /\ n = [names |-> n.names, nextIndex |-> n.nextIndex, lastIndex |-> n.lastIndex, seen |-> n.seen]
           /\ n.names \in Seq({f.name : f \in F}) /\ n.nextIndex \in Nat /\ n.lastIndex \in Int /\ n.seen \in BOOLEAN
  BY DEF Normalizers

\* Ollama's state after a fragment.
LEMMA SeenLast ==
    ASSUME NEW F, NEW n \in Normalizers(F), NEW x
    PROVE  Saw(n, x).seen = TRUE /\ Saw(n, x).lastIndex = x /\ (x \in Int => Saw(n, x) \in Normalizers(F))
<1>1. PICK a, b, c, d : a = n.names /\ b = n.nextIndex /\ c = n.lastIndex /\ d = n.seen
  OBVIOUS
<1>2. /\ n = [names |-> a, nextIndex |-> b, lastIndex |-> c, seen |-> d]
      /\ a \in Seq({f.name : f \in F}) /\ b \in Nat
  BY <1>1, NormalizerFields, Zenon
<1> PICK yes : yes = TRUE
  OBVIOUS
<1>3. Saw(n, x) = [names |-> a, nextIndex |-> b, lastIndex |-> x, seen |-> yes]
  <2>1. Saw(n, x) = [n EXCEPT !.seen = yes, !.lastIndex = x]
    BY DEF Saw
  <2> QED
    BY <1>2, <2>1
<1>4. PICK S : S = Seq({f.name : f \in F})
  OBVIOUS
<1>5. Normalizers(F) = [names : S, nextIndex : Nat, lastIndex : Int, seen : BOOLEAN]
  BY <1>4 DEF Normalizers
<1>6. Saw(n, x).seen = TRUE /\ Saw(n, x).lastIndex = x
  BY <1>3
<1>7. x \in Int => Saw(n, x) \in Normalizers(F)
  BY <1>2, <1>3, <1>4, <1>5
<1> QED
  BY <1>6, <1>7, Zenon

\* Gemini's state after a new name.
LEMMA NamedNext ==
    ASSUME NEW F, NEW n \in Normalizers(F), NEW tc \in F
    PROVE  LET m == Learned(n, tc.name)
           IN  /\ m.names = Append(n.names, tc.name) /\ m.nextIndex = n.nextIndex + 1
               /\ m \in Normalizers(F)
<1>1. PICK a, b, c, d : a = n.names /\ b = n.nextIndex /\ c = n.lastIndex /\ d = n.seen
  OBVIOUS
<1>2. /\ n = [names |-> a, nextIndex |-> b, lastIndex |-> c, seen |-> d]
      /\ a \in Seq({f.name : f \in F}) /\ b \in Nat /\ c \in Int /\ d \in BOOLEAN
  BY <1>1, NormalizerFields, Zenon
<1>3. PICK S, name : S = {f.name : f \in F} /\ name = tc.name /\ name \in S
  <2>1. tc.name \in {f.name : f \in F}
    OBVIOUS
  <2> QED
    BY <2>1, Zenon
<1>4. PICK e : e = Append(a, name) /\ e \in Seq(S)
  BY <1>2, <1>3, AppendProperties
<1>5. Learned(n, name) = [names |-> e, nextIndex |-> b + 1, lastIndex |-> c, seen |-> d]
  <2>1. n.nextIndex = b /\ n.names = a
    BY <1>2
  <2>2. Learned(n, name) = [n EXCEPT !.nextIndex = b + 1, !.names = e]
    BY <1>4, <2>1 DEF Learned
  <2> QED
    BY <1>2, <2>2
<1>6. PICK Q : Q = Seq(S)
  OBVIOUS
<1>7. Normalizers(F) = [names : Q, nextIndex : Nat, lastIndex : Int, seen : BOOLEAN]
  BY <1>3, <1>6 DEF Normalizers
<1>8. b + 1 \in Nat
  BY <1>2
<1>9. Learned(n, name) \in Normalizers(F)
  BY <1>2, <1>4, <1>5, <1>6, <1>7, <1>8
<1>10. Learned(n, name).names = Append(n.names, name) /\ Learned(n, name).nextIndex = n.nextIndex + 1
  BY <1>2, <1>4, <1>5
<1> QED
  BY <1>3, <1>9, <1>10

\* A longer stream of fragments.
LEMMA OneMore ==
    ASSUME NEW F, NEW T \in Seq(F), NEW c \in F, NEW U, U = Append(T, c)
    PROVE  /\ U \in Seq(F) /\ U # <<>> /\ Len(U) = Len(T) + 1 /\ U[Len(U)] = c
           /\ DOMAIN U = 1 .. Len(T) + 1 /\ DOMAIN T = 1 .. Len(T) /\ Len(T) \in Nat
           /\ \A i \in 1 .. Len(T) : i \in DOMAIN U /\ U[i] = T[i]
           /\ T = <<>> <=> Len(T) = 0
<1>1. Len(T) = 0 => T = <<>>
  BY EmptySeq
<1> QED
  BY <1>1, AppendProperties

\* A fragment keeps the index it was sent with.
LEMMA AsSentNext ==
    ASSUME NEW F, \A f \in F : IsFragment(f), NEW T \in Seq(F), NEW c \in F, NEW U, U = Append(T, c),
           NEW C, AsSent(T, C), NEW f, ~f.hoisted,
           \E k \in DOMAIN U : U[k].index # None /\ U[k].index = f.index /\ U[k].call = f.call
    PROVE  AsSent(U, C \cup {f})
<1>1. \A k \in DOMAIN T : k \in DOMAIN U /\ U[k] = T[k]
  BY OneMore
<1>2. ASSUME NEW g \in C
      PROVE  ~g.hoisted /\ \E k \in DOMAIN U : U[k].index # None /\ U[k].index = g.index /\ U[k].call = g.call
  <2>1. PICK k \in DOMAIN T : T[k].index # None /\ T[k].index = g.index /\ T[k].call = g.call
    BY DEF AsSent
  <2>2. ~g.hoisted
    BY DEF AsSent
  <2> QED
    BY <1>1, <2>1, <2>2
<1> QED
  BY <1>2 DEF AsSent

\* A normalizer that is not Ollama's leaves an index alone.
LEMMA NumberedNext ==
    ASSUME NEW p, NEW n, NEW F, \A f \in F : IsFragment(f), NEW T \in Seq(F), NEW c \in F,
           NEW U, U = Append(T, c), NEW C, AsSent(T, C), Numbered(U), p # "ollama",
           NEW i, NEW r, r = Fix(p, n, c, i)
    PROVE  AsSent(U, C \cup {r.tc})
<1>1. U[Len(U)] = c /\ Len(U) \in DOMAIN U /\ c.index # None /\ ~c.hoisted
  BY OneMore DEF Numbered
<1>2. r.tc.index = c.index /\ r.tc.call = c.call /\ ~r.tc.hoisted
  <2>1. CASE p = "gemini"
    <3>1. r.tc = Fill(c, c.index)
      BY <1>1, <2>1 DEF Fix, GeminiIndex, Fill
    <3> QED
      BY <1>1, <3>1, Filled
  <2>2. CASE p # "gemini"
    BY <1>1, <2>2 DEF Fix
  <2> QED
    BY <2>1, <2>2
<1> QED
  BY <1>1, <1>2, AsSentNext

\* Ollama: a call without an index has index 0.
LEMMA AloneNext ==
    ASSUME NEW n, NEW F, \A f \in F : IsFragment(f), NEW T \in Seq(F), NEW c \in F, n \in Normalizers(F),
           NEW U, U = Append(T, c), NEW C, AllFirst(n, T, C), Alone(U),
           NEW i, T = <<>> => i = 1, NEW r, r = Fix("ollama", n, c, i)
    PROVE  AllFirst(r.state, U, C \cup {r.tc})
<1>1. U[Len(U)] = c /\ Len(U) \in DOMAIN U /\ c.index = None /\ c.call = U[1].call /\ U # <<>>
  BY OneMore DEF Alone
<1>2. T # <<>> => U[1] = T[1]
  BY OneMore
<1>3. PICK x : x = IF n.seen THEN n.lastIndex ELSE i - 1
  OBVIOUS
<1>4. r = [tc |-> FillHoisted(c, x), state |-> Saw(n, x)]
  BY <1>1, <1>3 DEF Fix, OllamaIndex, FillHoisted, Saw
<1>5. x = 0
  BY <1>3 DEF AllFirst
<1>6. r.tc.index = 0 /\ r.tc.call = c.call /\ ~r.tc.hoisted
  <2>1. r.tc = FillHoisted(c, x)
    BY <1>4
  <2> QED
    BY <1>5, <2>1, Filled
<1>7. r.state.seen /\ r.state.lastIndex = 0
  <2>1. r.state = Saw(n, x)
    BY <1>4
  <2> QED
    <3>1. Saw(n, x).seen = TRUE /\ Saw(n, x).lastIndex = x
      BY SeenLast
    <3>2. r.state.seen = TRUE /\ r.state.lastIndex = 0
      BY <1>5, <2>1, <3>1, Zenon
    <3> QED
      BY <3>2, Zenon
<1> QED
  BY <1>1, <1>2, <1>6, <1>7 DEF AllFirst

\* Ollama: a fragment has its own index or the one before.
LEMMA ContinuedNext ==
    ASSUME NEW n, NEW F, \A f \in F : IsFragment(f), NEW T \in Seq(F), NEW c \in F, n \in Normalizers(F),
           NEW U, U = Append(T, c), NEW C, AsLast(n, T, C), Continued(U),
           NEW i, NEW r, r = Fix("ollama", n, c, i)
    PROVE  AsLast(r.state, U, C \cup {r.tc})
<1>1. U[Len(U)] = c /\ Len(U) \in DOMAIN U /\ U # <<>> /\ Len(U) = Len(T) + 1 /\ Len(T) \in Nat
  BY OneMore
<1>2. c.index = None => /\ T # <<>> /\ c.call = T[Len(T)].call
  <2>1. c.index = None => Len(U) > 1 /\ c.call = U[Len(U) - 1].call
    BY <1>1 DEF Continued
  <2>2. Len(U) > 1 => Len(U) - 1 \in 1 .. Len(T) /\ Len(U) - 1 = Len(T)
    BY <1>1
  <2> QED
    BY <1>1, <2>1, <2>2, OneMore
<1>3. PICK x : x = IF c.index # None THEN c.index ELSE IF n.seen THEN n.lastIndex ELSE i - 1
  OBVIOUS
<1>4. r = [tc |-> FillHoisted(c, x), state |-> Saw(n, x)]
  BY <1>3 DEF Fix, OllamaIndex, FillHoisted, Saw
<1>5. PICK k \in DOMAIN U : U[k].index # None /\ U[k].index = x /\ U[k].call = c.call
  <2>1. CASE c.index # None
    BY <1>1, <1>3, <2>1
  <2>2. CASE c.index = None
    <3>1. PICK k \in DOMAIN T : T[k].index # None /\ T[k].index = n.lastIndex /\ T[k].call = T[Len(T)].call
      BY <1>2, <2>2 DEF AsLast
    <3>2. x = n.lastIndex
      BY <1>2, <1>3, <2>2 DEF AsLast
    <3>3. k \in DOMAIN U /\ U[k] = T[k]
      BY <3>1, OneMore
    <3> QED
      BY <1>2, <2>2, <3>1, <3>2, <3>3
  <2> QED
    BY <2>1, <2>2
<1>6. r.tc.index = x /\ r.tc.call = c.call /\ ~r.tc.hoisted
  <2>1. r.tc = FillHoisted(c, x)
    BY <1>4
  <2> QED
    BY <2>1, Filled
<1>7. r.state.seen /\ r.state.lastIndex = x
  <2>1. r.state = Saw(n, x)
    BY <1>4
  <2> QED
    <3>1. Saw(n, x).seen = TRUE /\ Saw(n, x).lastIndex = x
      BY SeenLast
    <3>2. r.state.seen = TRUE /\ r.state.lastIndex = x
      BY <2>1, <3>1, Zenon
    <3> QED
      BY <3>2, Zenon
<1>8. AsSent(U, C \cup {r.tc})
  BY <1>5, <1>6, AsSentNext DEF AsLast
<1> QED
  BY <1>1, <1>5, <1>7, <1>8 DEF AsLast

\* Gemini: a fragment has the index of its call's name.
LEMMA ByNameNext ==
    ASSUME NEW n, NEW F, \A f \in F : IsFragment(f), NEW T \in Seq(F), NEW c \in F, n \in Normalizers(F),
           NEW U, U = Append(T, c), NEW C, KnownByName(n, T, C), ByName(U),
           NEW i, NEW r, r = Fix("gemini", n, c, i)
    PROVE  KnownByName(r.state, U, C \cup {r.tc})
<1>1. PICK l \in Nat : /\ l = Len(T) /\ DOMAIN T = 1 .. l /\ DOMAIN U = 1 .. l + 1 /\ Len(U) = l + 1
                       /\ U[l + 1] = c /\ \A k \in 1 .. l : U[k] = T[k]
  BY OneMore
<1>2. \A k \in 1 .. l : BeginsCall(U, k) <=> BeginsCall(T, k)
  <2>1. Len(T) <= Len(U) /\ U \in Seq(F) /\ \A k \in 1 .. Len(T) : U[k] = T[k]
    BY <1>1, OneMore
  <2> QED
    BY <1>1, <2>1, StreamsBegin
<1>3. c.index = None /\ ~c.hoisted
  BY <1>1 DEF ByName
<1>4. PICK names : names = n.names /\ names \in Seq({f.name : f \in F}) /\ n.nextIndex = Len(names) /\ Len(names) \in Nat
  <2>1. n.names \in Seq({f.name : f \in F}) /\ n.nextIndex = Len(n.names)
    BY NormalizerFields DEF KnownByName, EachOnce, AllNamed, OnlyNamed, LastNamed, IndexedBy
  <2>2. PICK S : S = {f.name : f \in F}
    OBVIOUS
  <2>3. n.names \in Seq(S)
    BY <2>1, <2>2
  <2>4. Len(n.names) \in Nat
    BY <2>3
  <2> QED
    BY <2>1, <2>4
<1>5. ASSUME r.state = n, NEW x \in Nat, x + 1 \in DOMAIN names, r.tc = Fill(c, x),
             \E k \in 1 .. l : T[k].name = names[x + 1] /\ T[k].call = c.call,
             ~BeginsCall(U, l + 1), c.name # None => \E k \in DOMAIN names : names[k] = c.name
      PROVE  KnownByName(r.state, U, C \cup {r.tc})
  <2>1. r.tc.index = x /\ r.tc.call = c.call /\ ~r.tc.hoisted
    BY <1>3, <1>5, Filled
  <2>2. \A k \in DOMAIN U : U[k].name # None => \E j \in DOMAIN names : names[j] = U[k].name
    <3>1. ASSUME NEW k \in 1 .. l, T[k].name # None PROVE \E j \in DOMAIN names : names[j] = T[k].name
      BY <1>1, <1>4, <3>1 DEF KnownByName, EachOnce, AllNamed, OnlyNamed, LastNamed, IndexedBy
    <3>2. \A k \in DOMAIN U : k \in 1 .. l \/ k = l + 1
      BY <1>1
    <3> QED
      BY <1>1, <1>5, <3>1, <3>2
  <2>3. \A j \in DOMAIN names : names[j] # None /\ \E k \in DOMAIN U : U[k].name = names[j]
    BY <1>1, <1>4 DEF KnownByName, EachOnce, AllNamed, OnlyNamed, LastNamed, IndexedBy
  <2>4. ASSUME NEW k \in DOMAIN U, BeginsCall(U, k), \A j \in k + 1 .. Len(U) : ~BeginsCall(U, j)
        PROVE  names # <<>> /\ names[Len(names)] = U[k].name
    <3>1. k \in 1 .. l
      BY <1>1, <1>5, <2>4
    <3>2. \A j \in k + 1 .. l : j \in k + 1 .. Len(U) /\ j \in 1 .. l
      BY <1>1, <3>1
    <3>3. BeginsCall(T, k) /\ \A j \in k + 1 .. Len(T) : ~BeginsCall(T, j)
      BY <1>1, <1>2, <2>4, <3>1, <3>2
    <3> QED
      BY <1>1, <1>4, <3>1, <3>3 DEF KnownByName, EachOnce, AllNamed, OnlyNamed, LastNamed, IndexedBy
  <2>5. \A f \in C \cup {r.tc} :
           /\ ~f.hoisted /\ f.index + 1 \in DOMAIN names /\ f.index \in Nat
           /\ \E k \in DOMAIN U : U[k].name = names[f.index + 1] /\ U[k].call = f.call
    <3>1. ASSUME NEW f \in C
          PROVE  /\ ~f.hoisted /\ f.index + 1 \in DOMAIN names /\ f.index \in Nat
                 /\ \E k \in DOMAIN U : U[k].name = names[f.index + 1] /\ U[k].call = f.call
      BY <1>1, <1>4 DEF KnownByName, EachOnce, AllNamed, OnlyNamed, LastNamed, IndexedBy
    <3>2. \E k \in DOMAIN U : U[k].name = names[x + 1] /\ U[k].call = c.call
      BY <1>1, <1>5
    <3> QED
      BY <1>5, <2>1, <3>1, <3>2
  <2>6. \A j, k \in DOMAIN names : names[j] = names[k] => j = k
    BY <1>4 DEF KnownByName, EachOnce, AllNamed, OnlyNamed, LastNamed, IndexedBy
  <2>7. EachOnce(names) /\ AllNamed(names, U) /\ OnlyNamed(names, U)
    BY <2>2, <2>3, <2>6 DEF EachOnce, AllNamed, OnlyNamed
  <2>8. LastNamed(names, U)
    BY <2>4 DEF LastNamed
  <2>9. IndexedBy(names, U, C \cup {r.tc})
    BY <2>5 DEF IndexedBy
  <2>10. KnownByName(n, U, C \cup {r.tc})
    BY <1>4, <2>7, <2>8, <2>9 DEF KnownByName
  <2> QED
    BY <1>5, <2>10
<1>6. CASE c.name = None
  <2>1. PICK k \in 1 .. l : /\ BeginsCall(U, k) /\ U[k].call = c.call
                            /\ \A j \in k + 1 .. l : ~BeginsCall(U, j)
    <3>1. l + 1 - 1 = l
      OBVIOUS
    <3> QED
      BY <1>1, <1>6, <3>1 DEF ByName
  <2>2. BeginsCall(T, k) /\ \A j \in k + 1 .. Len(T) : ~BeginsCall(T, j)
    <3>1. \A j \in k + 1 .. l : j \in 1 .. l
      OBVIOUS
    <3> QED
      BY <1>1, <1>2, <2>1, <3>1
  <2>3. names # <<>> /\ names[Len(names)] = T[k].name
    BY <1>1, <1>4, <2>2 DEF KnownByName, EachOnce, AllNamed, OnlyNamed, LastNamed, IndexedBy
  <2>4. PICK x \in Nat : x = Len(names) - 1 /\ x + 1 = Len(names) /\ x + 1 \in DOMAIN names
    <3>1. Len(names) # 0
      BY <1>4, <2>3, EmptySeq
    <3>2. PICK y \in Nat : y = Len(names)
      BY <1>4
    <3>3. y # 0 /\ y - 1 \in Nat /\ y - 1 + 1 = y /\ y \in 1 .. y
      BY <3>1, <3>2
    <3>4. DOMAIN names = 1 .. y
      BY <1>4, <3>2
    <3>5. PICK z \in Nat : z = y - 1 /\ z + 1 = y
      BY <3>3
    <3> QED
      BY <3>2, <3>3, <3>4, <3>5
  <2>5. r = [tc |-> Fill(c, x), state |-> n]
    <3>1. n.nextIndex > 0 /\ n.nextIndex - 1 = x
      BY <1>4, <2>4
    <3> QED
      BY <1>3, <1>6, <3>1 DEF Fix, GeminiIndex, Fill
  <2>6. ~BeginsCall(U, l + 1)
    BY <1>1, <1>6 DEF BeginsCall
  <2>7. r.state = n /\ r.tc = Fill(c, x)
    BY <2>5
  <2>8. T[k].name = names[x + 1] /\ T[k].call = c.call
    BY <1>1, <2>1, <2>3, <2>4
  <2> QED
    BY <1>5, <1>6, <2>4, <2>6, <2>7, <2>8
<1>7. CASE c.name # None /\ \E k \in DOMAIN names : names[k] = c.name
  <2>1. PICK j \in DOMAIN names : j = CHOOSE k \in DOMAIN names : names[k] = c.name
    BY <1>7
  <2>2. names[j] = c.name
    BY <1>7, <2>1
  <2>3. PICK x \in Nat : x = j - 1 /\ x + 1 = j
    <3>1. j \in Nat /\ j # 0
      BY <1>4
    <3>2. PICK y : y = j - 1
      OBVIOUS
    <3> QED
      BY <3>1, <3>2
  <2>4. r = [tc |-> Fill(c, x), state |-> n]
    BY <1>3, <1>4, <1>7, <2>1, <2>3 DEF Fix, GeminiIndex, Fill
  <2>5. PICK k \in 1 .. l : T[k].name = names[j]
    BY <1>1, <1>4 DEF KnownByName, EachOnce, AllNamed, OnlyNamed, LastNamed, IndexedBy
  <2>6. T[k].call = c.call
    <3>1. k \in DOMAIN U /\ l + 1 \in DOMAIN U /\ U[k].name = c.name /\ U[l + 1].name = c.name
      BY <1>1, <2>2, <2>5
    <3>2. U[k].call = U[l + 1].call
      BY <1>7, <3>1 DEF ByName
    <3> QED
      BY <1>1, <2>5, <3>2
  <2>7. ~BeginsCall(U, l + 1)
    <3>1. k \in 1 .. (l + 1) - 1 /\ U[k].name = U[l + 1].name
      BY <1>1, <2>2, <2>5
    <3>2. ASSUME BeginsCall(U, l + 1) PROVE U[k].name # U[l + 1].name
      <4>1. \A h \in 1 .. (l + 1) - 1 : U[h].name # U[l + 1].name
        BY <3>2, Zenon DEF BeginsCall
      <4> QED
        BY <3>1, <4>1, Zenon
    <3> QED
      BY <3>1, <3>2
  <2>8. r.state = n /\ r.tc = Fill(c, x)
    BY <2>4
  <2> QED
    BY <1>5, <1>7, <2>3, <2>5, <2>6, <2>7, <2>8
<1>8. CASE c.name # None /\ ~\E k \in DOMAIN names : names[k] = c.name
  <2>1. PICK x \in Nat : x = Len(names)
    BY <1>4
  <2>2. PICK longer : longer = Append(names, c.name)
    OBVIOUS
  <2>3. r = [tc |-> Fill(c, x),
             state |-> Learned(n, c.name)]
    BY <1>3, <1>4, <1>8, <2>1, <2>2 DEF Fix, GeminiIndex, Fill, Learned
  <2>4. r.tc.index = x /\ r.tc.call = c.call /\ ~r.tc.hoisted
    <3>1. r.tc = Fill(c, x)
      BY <2>3
    <3> QED
      BY <1>3, <3>1, Filled
  <2>5. r.state.names = longer /\ r.state.nextIndex = x + 1
    <3>1. r.state = Learned(n, c.name)
      BY <1>4, <2>2, <2>3
    <3>2. /\ Learned(n, c.name).names = Append(n.names, c.name)
          /\ Learned(n, c.name).nextIndex = n.nextIndex + 1
      BY NamedNext
    <3> QED
      BY <1>4, <2>1, <2>2, <3>1, <3>2
  <2>6. /\ Len(longer) = x + 1 /\ DOMAIN longer = 1 .. x + 1 /\ DOMAIN names = 1 .. x
        /\ longer[x + 1] = c.name /\ longer # <<>> /\ \A k \in 1 .. x : longer[k] = names[k]
    <3>1. c.name \in {f.name : f \in F}
      OBVIOUS
    <3> QED
      BY <1>4, <2>1, <2>2, <3>1, OneMore
  <2>7. \A j, k \in DOMAIN longer : longer[j] = longer[k] => j = k
    <3>1. \A j, k \in 1 .. x : names[j] = names[k] => j = k
      BY <1>4, <2>6 DEF KnownByName, EachOnce, AllNamed, OnlyNamed, LastNamed, IndexedBy
    <3>2. \A j \in 1 .. x : names[j] # c.name
      BY <1>8, <2>6
    <3>3. \A j \in DOMAIN longer : j \in 1 .. x \/ j = x + 1
      BY <2>6
    <3> QED
      BY <2>6, <3>1, <3>2, <3>3
  <2>8. \A k \in DOMAIN U : U[k].name # None => \E j \in DOMAIN longer : longer[j] = U[k].name
    <3>1. ASSUME NEW k \in 1 .. l, T[k].name # None PROVE \E j \in DOMAIN longer : longer[j] = T[k].name
      <4>1. PICK j \in 1 .. x : names[j] = T[k].name
        BY <1>1, <1>4, <2>6, <3>1 DEF KnownByName, EachOnce, AllNamed, OnlyNamed, LastNamed, IndexedBy
      <4> QED
        BY <2>6, <4>1
    <3>2. x + 1 \in DOMAIN longer
      BY <2>6
    <3>3. \A k \in DOMAIN U : k \in 1 .. l \/ k = l + 1
      BY <1>1
    <3> QED
      BY <1>1, <2>6, <3>1, <3>2, <3>3
  <2>9. ASSUME NEW j \in DOMAIN longer
        PROVE  longer[j] # None /\ \E k \in DOMAIN U : U[k].name = longer[j]
    <3>1. CASE j = x + 1
      BY <1>1, <1>8, <2>6, <3>1
    <3>2. CASE j # x + 1
      <4>1. j \in 1 .. x /\ longer[j] = names[j]
        BY <2>6, <3>2
      <4>2. names[j] # None /\ \E k \in 1 .. l : T[k].name = names[j]
        BY <1>1, <1>4, <2>6, <4>1 DEF KnownByName, EachOnce, AllNamed, OnlyNamed, LastNamed, IndexedBy
      <4> QED
        BY <1>1, <4>1, <4>2
    <3> QED
      BY <3>1, <3>2
  <2>10. BeginsCall(U, l + 1)
    <3>1. ASSUME NEW j \in 1 .. l PROVE U[j].name # c.name
      <4>1. T[j].name # None => \E k \in DOMAIN names : names[k] = T[j].name
        BY <1>1, <1>4 DEF KnownByName, EachOnce, AllNamed, OnlyNamed, LastNamed, IndexedBy
      <4> QED
        BY <1>1, <1>8, <4>1
    <3>2. l + 1 - 1 = l
      OBVIOUS
    <3> QED
      BY <1>1, <1>8, <3>1, <3>2 DEF BeginsCall
  <2>11. ASSUME NEW k \in DOMAIN U, BeginsCall(U, k), \A j \in k + 1 .. Len(U) : ~BeginsCall(U, j)
         PROVE  longer # <<>> /\ longer[Len(longer)] = U[k].name
    <3>1. k = l + 1
      BY <1>1, <2>10, <2>11
    <3> QED
      BY <1>1, <2>6, <3>1
  <2>12. \A f \in C \cup {r.tc} :
           /\ ~f.hoisted /\ f.index + 1 \in DOMAIN longer /\ f.index \in Nat
           /\ \E k \in DOMAIN U : U[k].name = longer[f.index + 1] /\ U[k].call = f.call
    <3>1. ASSUME NEW f \in C
          PROVE  /\ ~f.hoisted /\ f.index + 1 \in DOMAIN longer /\ f.index \in Nat
                 /\ \E k \in DOMAIN U : U[k].name = longer[f.index + 1] /\ U[k].call = f.call
      <4>1. ~f.hoisted /\ f.index + 1 \in 1 .. x /\ f.index \in Nat
        BY <1>4, <2>6 DEF KnownByName, EachOnce, AllNamed, OnlyNamed, LastNamed, IndexedBy
      <4>2. \E k \in 1 .. l : T[k].name = names[f.index + 1] /\ T[k].call = f.call
        BY <1>1, <1>4 DEF KnownByName, EachOnce, AllNamed, OnlyNamed, LastNamed, IndexedBy
      <4>3. PICK k \in 1 .. l : T[k].name = names[f.index + 1] /\ T[k].call = f.call
        BY <4>2
      <4>4. k \in DOMAIN U /\ U[k] = T[k]
        BY <1>1
      <4>5. f.index + 1 \in DOMAIN longer /\ longer[f.index + 1] = names[f.index + 1]
        BY <2>6, <4>1
      <4> QED
        BY <4>1, <4>3, <4>4, <4>5
    <3>2. l + 1 \in DOMAIN U /\ U[l + 1].name = longer[x + 1] /\ U[l + 1].call = c.call /\ x + 1 \in DOMAIN longer
      BY <1>1, <2>6
    <3>3. /\ ~r.tc.hoisted /\ r.tc.index + 1 \in DOMAIN longer /\ r.tc.index \in Nat
          /\ \E k \in DOMAIN U : U[k].name = longer[r.tc.index + 1] /\ U[k].call = r.tc.call
      BY <2>1, <2>4, <3>2
    <3>4. \A f \in C \cup {r.tc} : f \in C \/ f = r.tc
      OBVIOUS
    <3> QED
      BY <3>1, <3>3, <3>4, Zenon
  <2>13. PICK m : m = r.state /\ m.names = longer /\ m.nextIndex = Len(longer)
    BY <2>5, <2>6
  <2>14. EachOnce(longer) /\ AllNamed(longer, U) /\ OnlyNamed(longer, U)
    BY <2>7, <2>8, <2>9 DEF EachOnce, AllNamed, OnlyNamed
  <2>15. LastNamed(longer, U)
    BY <2>11 DEF LastNamed
  <2>16. IndexedBy(longer, U, C \cup {r.tc})
    BY <2>12 DEF IndexedBy
  <2>17. KnownByName(m, U, C \cup {r.tc})
    BY <2>13, <2>14, <2>15, <2>16 DEF KnownByName
  <2> QED
    BY <2>13, <2>17
<1> QED
  BY <1>6, <1>7, <1>8

\* The state stays one of a normalizer.
LEMMA NormalizersKept ==
    ASSUME NEW p, NEW F, NEW c \in F, IsFragment(c), NEW n \in Normalizers(F), NEW i \in Int,
           NEW r, r = Fix(p, n, c, i)
    PROVE  r.state \in Normalizers(F)
<1>1. CASE p = "gemini"
  <2>1. r.state = n \/ r.state = Learned(n, c.name)
    BY <1>1 DEF Fix, GeminiIndex, Learned
  <2> QED
    BY <2>1, NamedNext
<1>2. CASE p = "ollama"
  <2>1. PICK x : x = IF c.index # None THEN c.index ELSE IF n.seen THEN n.lastIndex ELSE i - 1
    OBVIOUS
  <2>2. r.state = Saw(n, x)
    BY <1>2, <2>1 DEF Fix, OllamaIndex, Saw
  <2>3. c.index \in Int \cup {None}
    BY DEF IsFragment
  <2>4. n.lastIndex \in Int
    BY NormalizerFields
  <2>5. x \in Int
    BY <2>1, <2>3, <2>4
  <2> QED
    BY <2>2, <2>5, SeenLast
<1>3. CASE p # "gemini" /\ p # "ollama"
  BY <1>3 DEF Fix
<1> QED
  BY <1>1, <1>2, <1>3

\* One more fragment is normed.
LEMMA NormedNext ==
    ASSUME NEW p, NEW F, \A f \in F : IsFragment(f), NEW n \in Normalizers(F), NEW T \in Seq(F),
           NEW c \in F, NEW U, U = Append(T, c), NEW C, Normed(p, n, T, C),
           NEW i, T = <<>> => i = 1, NEW r, r = Fix(p, n, c, i)
    PROVE  Normed(p, r.state, U, C \cup {r.tc})
<1>1. /\ Numbered(U) => Numbered(T)
      /\ ByName(U) => ByName(T)
      /\ Alone(U) => Alone(T)
      /\ Continued(U) => Continued(T)
  <2>1. Len(T) <= Len(U) /\ U \in Seq(F) /\ \A k \in 1 .. Len(T) : U[k] = T[k]
    BY OneMore
  <2> QED
    BY <2>1, StreamsBegin
<1>2. ASSUME p # "ollama", Numbered(U) PROVE AsSent(U, C \cup {r.tc})
  <2>1. AsSent(T, C)
    BY <1>1, <1>2 DEF Normed
  <2> QED
    BY <1>2, <2>1, NumberedNext
<1>3. ASSUME p = "gemini", ByName(U) PROVE KnownByName(r.state, U, C \cup {r.tc})
  <2>1. KnownByName(n, T, C) /\ r = Fix("gemini", n, c, i)
    BY <1>1, <1>3 DEF Normed
  <2> QED
    BY <1>3, <2>1, ByNameNext
<1>4. ASSUME p = "ollama", Alone(U) PROVE AllFirst(r.state, U, C \cup {r.tc})
  <2>1. AllFirst(n, T, C) /\ r = Fix("ollama", n, c, i)
    BY <1>1, <1>4 DEF Normed
  <2> QED
    BY <1>4, <2>1, AloneNext
<1>5. ASSUME p = "ollama", Continued(U) PROVE AsLast(r.state, U, C \cup {r.tc})
  <2>1. AsLast(n, T, C) /\ r = Fix("ollama", n, c, i)
    BY <1>1, <1>5 DEF Normed
  <2> QED
    BY <1>5, <2>1, ContinuedNext
<1> QED
  BY <1>2, <1>3, <1>4, <1>5 DEF Normed

\* The fragments of a chunk are normed.
NormedAfter(p, F, all, T, C) ==
    /\ all.state \in Normalizers(F)
    /\ \E D : all.calls \in Seq(D) /\ Normed(p, all.state, T, C \cup D)

\* They are, by induction on the chunk.
LEMMA NormedChunk ==
    ASSUME NEW p, NEW F, \A f \in F : IsFragment(f), NEW n \in Normalizers(F), NEW T \in Seq(F),
           NEW C, Normed(p, n, T, C)
    PROVE  \A s \in Seq(F) : NormedAfter(p, F, FixAll(p, n, s), T \o s, C)
<1> DEFINE Good(s) == LET all == FixAll(p, n, s)
                      IN  NormedAfter(p, F, all, T \o s, C) /\ Len(all.calls) = Len(s)
           S == {s \in Seq(F) : Good(s)}
<1>1. Good(<<>>)
  <2>1. PICK all : all = FixAll(p, n, <<>>) /\ all.calls = <<>> /\ all.state = n
    BY FixAllEmpty DEF Unfixed
  <2>2. T \o <<>> = T /\ C \cup {} = C /\ <<>> \in Seq({}) /\ Len(<<>>) = 0
    OBVIOUS
  <2>3. Normed(p, all.state, T \o <<>>, C \cup {})
    BY <2>1, <2>2
  <2>4. NormedAfter(p, F, all, T \o <<>>, C)
    BY <2>1, <2>2, <2>3 DEF NormedAfter
  <2> QED
    BY <2>1, <2>2, <2>4
<1>2. ASSUME NEW s \in Seq(F), NEW c \in F, Good(s) PROVE Good(Append(s, c))
  <2>1. PICK all : all = FixAll(p, n, s) /\ NormedAfter(p, F, all, T \o s, C) /\ Len(all.calls) = Len(s)
    BY <1>2
  <2>2. PICK D : all.calls \in Seq(D) /\ Normed(p, all.state, T \o s, C \cup D)
    BY <2>1 DEF NormedAfter
  <2>3. PICK i \in Nat : i = Len(all.calls) + 1
    BY <2>2
  <2>4. PICK r : r = Fix(p, all.state, c, i)
    OBVIOUS
  <2>5. PICK next : next = [calls |-> Append(all.calls, r.tc), state |-> r.state]
    OBVIOUS
  <2>6. FixAll(p, n, Append(s, c)) = next
    <3>1. FixAll(p, n, Append(s, c)) = FixNext(p, all, c)
      BY <2>1, FixAllAppend
    <3> QED
      BY <2>3, <2>4, <2>5, <3>1 DEF FixNext
  <2>7. PICK V : V = T \o s
    OBVIOUS
  <2>8. V \in Seq(F) /\ T \o Append(s, c) = Append(V, c) /\ (V = <<>> => i = 1)
    <3>1. Len(V) = Len(T) + Len(s) /\ Len(T) \in Nat /\ Len(s) \in Nat /\ V \in Seq(F)
      BY <2>7
    <3>2. V = <<>> => Len(s) = 0
      BY <3>1
    <3>3. T \o Append(s, c) = Append(V, c)
      BY <2>7, ConcatAppend
    <3> QED
      BY <2>1, <2>3, <3>1, <3>2, <3>3
  <2>9. PICK E : E = C \cup D
    OBVIOUS
  <2>10. all.state \in Normalizers(F) /\ Normed(p, all.state, V, E)
    BY <2>1, <2>2, <2>7, <2>9 DEF NormedAfter
  <2>11. Normed(p, r.state, Append(V, c), E \cup {r.tc})
    BY <2>4, <2>8, <2>10, NormedNext
  <2>12. r.state \in Normalizers(F)
    BY <2>3, <2>4, <2>10, NormalizersKept
  <2>13. PICK G : G = D \cup {r.tc}
    OBVIOUS
  <2>14. C \cup G = E \cup {r.tc}
    BY <2>9, <2>13
  <2>15. next.calls \in Seq(G) /\ Len(next.calls) = Len(all.calls) + 1 /\ next.state = r.state
    <3>1. all.calls \in Seq(G) /\ r.tc \in G
      BY <2>2, <2>13
    <3>2. next.calls = Append(all.calls, r.tc) /\ next.state = r.state
      BY <2>5
    <3> QED
      BY <3>1, <3>2, AppendProperties
  <2>16. Normed(p, next.state, T \o Append(s, c), C \cup G)
    BY <2>8, <2>11, <2>14, <2>15
  <2>17. NormedAfter(p, F, next, T \o Append(s, c), C)
    BY <2>12, <2>15, <2>16 DEF NormedAfter
  <2>18. Len(Append(s, c)) = Len(s) + 1
    BY AppendProperties
  <2> QED
    BY <2>1, <2>6, <2>15, <2>17, <2>18
<1> HIDE DEF Good
<1>3. <<>> \in S /\ \A s \in Seq(F), c \in F : s \in S => Append(s, c) \in S
  <2>1. <<>> \in Seq(F)
    OBVIOUS
  <2>2. ASSUME NEW s \in Seq(F), NEW c \in F PROVE Append(s, c) \in Seq(F)
    BY AppendProperties
  <2> QED
    BY <1>1, <1>2, <2>1, <2>2
<1> HIDE DEF S
<1>4. Seq(F) \subseteq S
  BY <1>3, SeqInduction
<1> USE DEF S
<1>5. \A s \in Seq(F) : Good(s)
  BY <1>4
<1> QED
  BY <1>5 DEF Good

\* The fragments of an event are over C.
Over(C, event) == Parses(event) => ChunkOf(event).calls \in Seq(C)

\* What one more event adds to the fragments of a stream.
LEMMA StreamedAppend ==
    ASSUME NEW F, NEW E, \A e \in E : CallsOf(e) \in Seq(F), NEW s \in Seq(E), NEW e \in E
    PROVE  /\ StreamedCalls(Append(s, e)) = StreamedCalls(s) \o CallsOf(e)
           /\ StreamedCalls(s) \in Seq(F) /\ StreamedCalls(<<>>) = <<>>
<1>1. PICK Y : Y = Seq(F)
  OBVIOUS
<1>2. PICK f \in [E -> Y] : \A x \in E : f[x] = CallsOf(x)
  <2>1. [x \in E |-> CallsOf(x)] \in [E -> Y]
    BY <1>1
  <2> QED
    BY <2>1
<1>3. ASSUME NEW t \in Seq(E) PROVE StreamedCalls(t) = FlattenSeq([i \in DOMAIN t |-> f[t[i]]])
  <2>1. \A i \in DOMAIN t : t[i] \in E
    OBVIOUS
  <2>2. [i \in DOMAIN t |-> CallsOf(t[i])] = [i \in DOMAIN t |-> f[t[i]]]
    BY <1>2, <2>1
  <2> QED
    BY <2>2 DEF StreamedCalls
<1>4. PICK longer : longer = Append(s, e)
  OBVIOUS
<1>5. longer \in Seq(E)
  BY <1>4, AppendProperties
<1>6. PICK calls : calls = [i \in DOMAIN s |-> f[s[i]]]
  OBVIOUS
<1>7. [i \in DOMAIN longer |-> f[longer[i]]] = Append(calls, f[e])
  BY <1>4, <1>6, MapAppend
<1>8. calls \in Seq(Y)
  <2>1. PICK n \in Nat : n = Len(s) /\ DOMAIN s = 1 .. n
    OBVIOUS
  <2>2. \A i \in 1 .. n : f[s[i]] \in Y
    BY <2>1
  <2>3. calls = [i \in 1 .. n |-> f[s[i]]]
    BY <1>6, <2>1
  <2> QED
    BY <2>2, <2>3, IsASeq
<1>9. f[e] \in Y /\ f[e] = CallsOf(e)
  BY <1>2
<1>10. FlattenSeq(Append(calls, f[e])) = FlattenSeq(calls) \o f[e] /\ FlattenSeq(calls) \in Y
  BY <1>1, <1>8, <1>9, FlattenAppend, FlattenType
<1>11. StreamedCalls(s) = FlattenSeq(calls) /\ StreamedCalls(longer) = FlattenSeq(Append(calls, f[e]))
  BY <1>3, <1>5, <1>6, <1>7
<1>12. StreamedCalls(<<>>) = <<>>
  BY DEF StreamedCalls, FlattenSeq
<1> QED
  BY <1>1, <1>4, <1>9, <1>10, <1>11, <1>12

\* The fragments that are let out for the fragments of events.
NormedRendering(F, E, s) ==
    \E out, after, C :
       /\ Rendered(NewPipeline, s) = Rendering(out, after)
       /\ after.normalizer \in Normalizers(F)
       /\ Normed(scenario.provider, after.normalizer, StreamedCalls(s), C)
       /\ IsSequence(out) /\ \A i \in DOMAIN out : Over(C, out[i])

\* A sequence of events over some set has one more.
LEMMA OverAppend ==
    ASSUME NEW C, NEW D, C \subseteq D, NEW s, IsSequence(s), \A i \in DOMAIN s : Over(C, s[i]),
           NEW e, Over(D, e)
    PROVE  IsSequence(Append(s, e)) /\ \A i \in DOMAIN Append(s, e) : Over(D, Append(s, e)[i])
<1>1. PICK Y, Z : s \in Seq(Y) /\ Z = Y \cup {e}
  BY DEF IsSequence
<1>2. s \in Seq(Z) /\ e \in Z
  BY <1>1
<1>3. PICK t : t = Append(s, e)
  OBVIOUS
<1>4. PICK n \in Nat : n = Len(s) /\ DOMAIN s = 1 .. n
  BY <1>2
<1>5. /\ t \in Seq(Z) /\ Len(t) = n + 1 /\ t[n + 1] = e /\ DOMAIN t = 1 .. n + 1
      /\ \A i \in 1 .. n : t[i] = s[i]
  BY <1>2, <1>3, <1>4, AppendProperties
<1>6. ASSUME NEW i \in DOMAIN t PROVE Over(D, t[i])
  <2>1. CASE i = n + 1
    BY <1>5, <2>1
  <2>2. CASE i \in 1 .. n
    <3>1. Over(C, s[i])
      BY <1>4, <2>2
    <3>2. \A q : q \in Seq(C) => q \in Seq(D)
      OBVIOUS
    <3>3. Over(D, s[i])
      BY <3>1, <3>2 DEF Over
    <3> QED
      BY <1>5, <2>2, <3>3
  <2> QED
    BY <1>5, <2>1, <2>2
<1>7. IsSequence(t)
  BY <1>5, SequenceFacts
<1> QED
  BY <1>3, <1>6, <1>7

\* The chunk that is let out for a chunk.
LEMMA TransformCalls ==
    ASSUME NEW p, NEW n, NEW chunk, IsChunk(chunk), NEW all, all = FixAll(p, n, chunk.calls)
    PROVE  /\ Transform(p, n, chunk).chunk.calls = all.calls
           /\ Transform(p, n, chunk).state = all.state
           /\ ChunkOf(EventOf(Transform(p, n, chunk).chunk)).calls = all.calls
<1>1. PICK a, b, c, yes : chunk = [json |-> yes, text |-> a, calls |-> b, finish |-> c]
  BY DEF IsChunk, Chunk
<1>2. PICK fixed : fixed = all.calls
  OBVIOUS
<1>3. PICK r : r = [chunk EXCEPT !.calls = fixed]
  OBVIOUS
<1>4. r.calls = fixed
  BY <1>1, <1>3
<1>5. Transform(p, n, chunk) = [chunk |-> r, state |-> all.state]
  BY <1>2, <1>3 DEF Transform
<1>6. ChunkOf(EventOf(r)) = r
  BY DEF ChunkOf, EventOf, DataEvent, Payload
<1>7. Transform(p, n, chunk).chunk = r /\ Transform(p, n, chunk).state = all.state
  BY <1>5
<1> QED
  BY <1>2, <1>4, <1>6, <1>7

\* What the pipeline lets out for events is made of fragments that are normed.
LEMMA NormedEvents ==
    ASSUME NEW F, \A f \in F : IsFragment(f), NEW E, \A e \in E : Textual(e) /\ CallsOf(e) \in Seq(F)
    PROVE  \A s \in Seq(E) : NormedRendering(F, E, s)
<1> DEFINE Good(s) == NormedRendering(F, E, s)
           S == {s \in Seq(E) : Good(s)}
           p == scenario.provider
<1>1. Good(<<>>)
  <2>1. Rendered(NewPipeline, <<>>) = Rendering(<<>>, NewPipeline)
    BY RenderedEmpty DEF Nothing, Rendering
  <2>2. NewPipeline.normalizer = NewNormalizer
    BY DEF NewPipeline
  <2>3. StreamedCalls(<<>>) = <<>>
    BY DEF StreamedCalls, FlattenSeq
  <2>4. /\ NewPipeline.normalizer \in Normalizers(F)
        /\ Normed(p, NewPipeline.normalizer, StreamedCalls(<<>>), {})
    BY <2>2, <2>3, NormedNone
  <2>5. IsSequence(<<>>) /\ DOMAIN <<>> = {}
    BY OutgoingEmpty DEF Outgoing
  <2>6. PICK none : none = <<>>
    OBVIOUS
  <2>7. Rendered(NewPipeline, none) = Rendering(none, NewPipeline) /\ IsSequence(none) /\ DOMAIN none = {}
    BY <2>1, <2>5, <2>6
  <2>8. \A i \in DOMAIN none : Over({}, none[i])
    BY <2>7
  <2>9. NormedRendering(F, E, none)
    BY <2>4, <2>6, <2>7, <2>8 DEF NormedRendering
  <2> QED
    BY <2>6, <2>9
<1>2. ASSUME NEW s \in Seq(E), NEW e \in E, Good(s) PROVE Good(Append(s, e))
  <2>1. PICK out, after, C :
           /\ Rendered(NewPipeline, s) = Rendering(out, after)
           /\ after.normalizer \in Normalizers(F)
           /\ Normed(p, after.normalizer, StreamedCalls(s), C)
           /\ IsSequence(out) /\ \A i \in DOMAIN out : Over(C, out[i])
    BY <1>2 DEF NormedRendering
  <2>2. Rendered(NewPipeline, Append(s, e)) = Rendering(Append(out, Shown(after, e)), NextPipe(after, e))
    <3>1. Rendered(NewPipeline, Append(s, e)) = RenderEvent(Rendered(NewPipeline, s), e)
      BY RenderedAppend
    <3> QED
      BY <2>1, <3>1, RenderEventShown
  <2>3. PICK raw : raw = StreamedCalls(s)
    OBVIOUS
  <2>4. raw \in Seq(F) /\ StreamedCalls(Append(s, e)) = raw \o CallsOf(e) /\ CallsOf(e) \in Seq(F)
    <3>1. \A x \in E : CallsOf(x) \in Seq(F)
      OBVIOUS
    <3>2. /\ StreamedCalls(Append(s, e)) = StreamedCalls(s) \o CallsOf(e)
          /\ StreamedCalls(s) \in Seq(F)
      BY <3>1, StreamedAppend
    <3> QED
      BY <2>3, <3>1, <3>2
  <2>5. CASE ~Parses(e)
    <3>1. Shown(after, e) = e /\ NextPipe(after, e) = after /\ CallsOf(e) = <<>>
      BY <2>5 DEF Shown, NextPipe, CallsOf
    <3>2. Over(C, e)
      BY <2>5 DEF Over
    <3>3. StreamedCalls(Append(s, e)) = StreamedCalls(s)
      BY <2>3, <2>4, <3>1
    <3>4. PICK more : more = Append(out, e)
      OBVIOUS
    <3>5. IsSequence(more) /\ \A i \in DOMAIN more : Over(C, more[i])
      BY <2>1, <3>2, <3>4, OverAppend
    <3>6. Rendered(NewPipeline, Append(s, e)) = Rendering(more, after)
      BY <2>2, <3>1, <3>4
    <3> QED
      BY <2>1, <3>3, <3>5, <3>6 DEF NormedRendering
  <2>6. CASE Parses(e)
    <3>1. PICK calls \in Seq(F) : calls = ChunkOf(e).calls /\ StreamedCalls(Append(s, e)) = raw \o calls
      BY <2>4, <2>6 DEF CallsOf
    <3>2. PICK all : all = FixAll(p, after.normalizer, calls)
      OBVIOUS
    <3>3. NormedAfter(p, F, all, raw \o calls, C)
      BY <2>1, <2>3, <2>4, <3>2, NormedChunk
    <3>4. PICK D : all.calls \in Seq(D) /\ Normed(p, all.state, raw \o calls, C \cup D)
      BY <3>3 DEF NormedAfter
    <3>5. IsChunk(ChunkOf(e))
      BY <2>6 DEF Textual
    <3>6. PICK t : /\ t = Transform(p, after.normalizer, ChunkOf(e))
                   /\ t.state = all.state /\ ChunkOf(EventOf(t.chunk)).calls = all.calls
      BY <3>1, <3>2, <3>5, TransformCalls
    <3>7. Shown(after, e) = EventOf(t.chunk)
      BY <2>6, <3>6 DEF Shown
    <3>8. PICK pipe : pipe = NextPipe(after, e) /\ pipe.normalizer = all.state
      <4>1. NextPipe(after, e).normalizer = t.state
        BY <2>6, <3>6 DEF NextPipe
      <4> QED
        BY <3>6, <4>1
    <3>9. PICK G : G = C \cup D /\ C \subseteq G
      OBVIOUS
    <3>10. all.calls \in Seq(G)
      BY <3>4, <3>9
    <3>11. Over(G, EventOf(t.chunk))
      BY <3>6, <3>10 DEF Over
    <3>12. PICK more : more = Append(out, EventOf(t.chunk))
      OBVIOUS
    <3>13. IsSequence(more) /\ \A i \in DOMAIN more : Over(G, more[i])
      BY <2>1, <3>9, <3>11, <3>12, OverAppend
    <3>14. Rendered(NewPipeline, Append(s, e)) = Rendering(more, pipe)
      BY <2>2, <3>7, <3>8, <3>12
    <3>15. pipe.normalizer \in Normalizers(F)
      BY <3>3, <3>8 DEF NormedAfter
    <3>16. Normed(p, pipe.normalizer, StreamedCalls(Append(s, e)), G)
      BY <3>1, <3>4, <3>8, <3>9
    <3> QED
      BY <3>13, <3>14, <3>15, <3>16 DEF NormedRendering
  <2> QED
    BY <2>5, <2>6
<1> HIDE DEF Good
<1>3. <<>> \in S /\ \A s \in Seq(E), e \in E : s \in S => Append(s, e) \in S
  <2>1. <<>> \in Seq(E)
    OBVIOUS
  <2>2. ASSUME NEW s \in Seq(E), NEW e \in E PROVE Append(s, e) \in Seq(E)
    BY AppendProperties
  <2> QED
    BY <1>1, <1>2, <2>1, <2>2
<1> HIDE DEF S
<1>4. Seq(E) \subseteq S
  BY <1>3, SeqInduction
<1> USE DEF S
<1>5. \A s \in Seq(E) : Good(s)
  BY <1>4
<1> QED
  BY <1>5 DEF Good

\* All the fragments are those of the chunks seen.
LEMMA FragmentsOver ==
    ASSUME NEW C, IsSequence(written), \A i \in DOMAIN written : Over(C, written[i]), Apart(C)
    PROVE  CallsStayApart
<1>1. PICK X : written \in Seq(X) /\ \A x \in X : Over(C, x)
  <2> DEFINE X == {written[i] : i \in DOMAIN written}
  <2>1. written \in Seq(X) /\ \A x \in X : Over(C, x)
    BY DEF IsSequence
  <2> HIDE DEF X
  <2> QED
    BY <2>1
<1>2. PICK K, Y : K = {x \in X : Parses(x)} /\ Y = Seq(C)
  OBVIOUS
<1>3. PICK seen \in Seq(K) : seen = SeenIn(written)
  BY <1>1, <1>2, SeenOnly
<1>4. PICK chunks : chunks = [i \in DOMAIN seen |-> ChunkOf(seen[i])]
  OBVIOUS
<1>5. ChunksSeen = chunks
  <2>1. ChunksIn(written) = chunks
    BY <1>3, <1>4, ChunksAre
  <2> QED
    BY <2>1 DEF ChunksSeen, ChunksIn
<1>6. PICK n \in Nat : n = Len(seen) /\ DOMAIN seen = 1 .. n
  OBVIOUS
<1>7. ASSUME NEW i \in 1 .. n PROVE chunks[i].calls \in Y
  <2>1. seen[i] \in K
    BY <1>6
  <2>2. Over(C, seen[i]) /\ Parses(seen[i])
    BY <1>1, <1>2, <2>1
  <2>3. chunks[i] = ChunkOf(seen[i])
    BY <1>4, <1>6
  <2> QED
    BY <1>2, <2>2, <2>3 DEF Over
<1>8. [i \in 1 .. n |-> chunks[i].calls] \in Seq(Y)
  BY <1>7, IsASeq
<1>9. DOMAIN chunks = 1 .. n
  BY <1>4, <1>6
<1>10. [i \in DOMAIN chunks |-> chunks[i].calls] \in Seq(Seq(C))
  BY <1>2, <1>8, <1>9
<1>11. PICK fragments : /\ fragments = FlattenSeq([i \in DOMAIN ChunksSeen |-> ChunksSeen[i].calls])
                        /\ fragments \in Seq(C)
  BY <1>5, <1>10, FlattenType
<1>12. \A i \in DOMAIN fragments : fragments[i] \in C
  BY <1>11
<1>13. \A i, j \in DOMAIN fragments :
         /\ fragments[i].index # None /\ ~fragments[i].hoisted
         /\ fragments[i].call = fragments[j].call <=> fragments[i].index = fragments[j].index
  BY <1>12 DEF Apart, Agree
<1> QED
  BY <1>11, <1>13 DEF CallsStayApart

\* What a client has read is news, but for the heartbeat.
LEMMA NewsHas ==
    ASSUME NEW X
    PROVE  \A s \in Seq(X) : \A i \in DOMAIN s : s[i] # KeepAlive => \E j \in DOMAIN News(s) : News(s)[j] = s[i]
<1> DEFINE Good(s) == \A i \in DOMAIN s : s[i] # KeepAlive => \E j \in DOMAIN News(s) : News(s)[j] = s[i]
           S == {s \in Seq(X) : Good(s)}
<1>1. <<>> \in S
  OBVIOUS
<1>2. ASSUME NEW s \in Seq(X), NEW e \in X, s \in S PROVE Append(s, e) \in S
  <2>1. PICK n \in Nat : n = Len(s) /\ DOMAIN s = 1 .. n
    OBVIOUS
  <2>2. PICK t : t = Append(s, e)
    OBVIOUS
  <2>3. /\ t = Append(s, e) /\ t \in Seq(X) /\ DOMAIN s = 1 .. n /\ DOMAIN t = 1 .. n + 1
        /\ t[n + 1] = e /\ \A i \in 1 .. n : t[i] = s[i]
    BY <2>1, <2>2, AppendProperties
  <2>4. PICK old, new : old = News(s) /\ new = News(t) /\ old \in Seq(X)
    BY NewsOnly
  <2>5. new = IF e = KeepAlive THEN old ELSE Append(old, e)
    BY <2>3, <2>4, NewsAppend
  <2>6. PICK l \in Nat : l = Len(old) /\ DOMAIN old = 1 .. l
    BY <2>4
  <2>7. /\ \A j \in 1 .. l : j \in DOMAIN new /\ new[j] = old[j]
        /\ e # KeepAlive => l + 1 \in DOMAIN new /\ new[l + 1] = e
    <3>1. CASE e = KeepAlive
      BY <2>5, <2>6, <3>1
    <3>2. CASE e # KeepAlive
      BY <2>4, <2>5, <2>6, <3>2, AppendProperties
    <3> QED
      BY <3>1, <3>2
  <2>8. ASSUME NEW i \in DOMAIN t, t[i] # KeepAlive PROVE \E j \in DOMAIN new : new[j] = t[i]
    <3>1. CASE i = n + 1
      BY <2>3, <2>7, <2>8, <3>1
    <3>2. CASE i \in 1 .. n
      <4>1. \E j \in DOMAIN old : old[j] = s[i]
        BY <1>2, <2>3, <2>4, <2>8, <3>2
      <4> QED
        BY <2>3, <2>6, <2>7, <3>2, <4>1
    <3> QED
      BY <2>3, <3>1, <3>2
  <2>9. Good(t)
    BY <2>4, <2>8
  <2> QED
    BY <2>3, <2>9
<1>3. Seq(X) \subseteq S
  <2> HIDE DEF S
  <2> QED
    BY <1>1, <1>2, SeqInduction
<1> QED
  BY <1>3

\* The fragments that http upstreams stream.
LEMMA StreamedType ==
    ASSUME NEW F, NEW E, \A e \in E : CallsOf(e) \in Seq(F), NEW s \in Seq(E)
    PROVE  StreamedCalls(s) \in Seq(F)
<1>1. CASE s = <<>>
  <2>1. StreamedCalls(<<>>) = <<>>
    BY DEF StreamedCalls, FlattenSeq
  <2>2. <<>> \in Seq(F)
    OBVIOUS
  <2> QED
    BY <1>1, <2>1, <2>2, Zenon
<1>2. CASE s # <<>>
  <2>1. PICK e \in E : TRUE
    BY <1>2, EmptySeq
  <2>2. \A x \in E : CallsOf(x) \in Seq(F)
    OBVIOUS
  <2>3. StreamedCalls(s) \in Seq(F)
    BY <2>1, <2>2, StreamedAppend
  <2> QED
    BY <2>3
<1> QED
  BY <1>1, <1>2

\* A prefix agrees.
LEMMA PrefixAgrees ==
    ASSUME NEW X, NEW Y, NEW s \in Seq(X), NEW t \in Seq(Y), IsPrefix(s, t), NEW i \in DOMAIN s
    PROVE  i \in DOMAIN t /\ t[i] = s[i]
<1>1. PICK n \in Nat, m \in Nat : n = Len(s) /\ m = Len(t) /\ DOMAIN s = 1 .. n /\ DOMAIN t = 1 .. m
  OBVIOUS
<1>2. n <= m /\ SubSeq(s, 1, n) = SubSeq(t, 1, n)
  BY <1>1 DEF IsPrefix
<1>3. SubSeq(s, 1, n)[i] = s[i]
  BY <1>1
<1>4. SubSeq(t, 1, n)[i] = t[i]
  BY <1>1, <1>2
<1> QED
  BY <1>1, <1>2, <1>3, <1>4

\* A client of an http upstream can put the calls together.
LEMMA HttpCallsApart ==
    ASSUME scenario \in Scenarios, scenario.kind = "http", ClientSeesEvents, IsSequence(written)
    PROVE  CallsStayApart
<1>1. PICK s \in Scenarios : s = scenario /\ s.kind = "http"
  OBVIOUS
<1>2. PICK events : events = s.events
  OBVIOUS
<1>3. IsSequence(events) /\ \A i \in DOMAIN events : Textual(events[i])
  <2>1. PICK E : s.events \in Seq(E) /\ \A e \in E : Textual(e)
    BY <1>1, SentTextual
  <2>2. Texted(events)
    BY <1>2, <2>1, TextedSeq
  <2> QED
    BY <2>2 DEF Texted
<1>4. PICK E : E = {events[i] : i \in DOMAIN events} /\ events \in Seq(E)
  BY <1>3 DEF IsSequence
<1>5. PICK F : F = UNION {{CallsOf(e)[k] : k \in DOMAIN CallsOf(e)} : e \in E}
  OBVIOUS
<1>6. ASSUME NEW e \in E
      PROVE  CallsOf(e) \in Seq(F) /\ \A k \in DOMAIN CallsOf(e) : IsFragment(CallsOf(e)[k])
  <2>1. PICK i \in DOMAIN events : e = events[i]
    BY <1>4
  <2>2. PICK calls : calls = CallsOf(e)
    OBVIOUS
  <2>3. IsSequence(calls) /\ \A k \in DOMAIN calls : IsFragment(calls[k])
    BY <1>1, <1>2, <2>1, <2>2, CallsAssumption
  <2>4. {calls[k] : k \in DOMAIN calls} \subseteq F
    BY <1>5, <2>2
  <2>5. calls \in Seq(F)
    BY <2>3, <2>4 DEF IsSequence
  <2> QED
    BY <2>2, <2>3, <2>5
<1>7. \A f \in F : IsFragment(f)
  BY <1>5, <1>6
<1>8. \A e \in E : Textual(e) /\ CallsOf(e) \in Seq(F)
  BY <1>3, <1>4, <1>6
<1>9. PICK out, after, C :
         /\ Rendered(NewPipeline, events) = Rendering(out, after)
         /\ Normed(scenario.provider, after.normalizer, StreamedCalls(events), C)
         /\ IsSequence(out) /\ \A i \in DOMAIN out : Over(C, out[i])
  <2>1. NormedRendering(F, E, events)
    BY <1>4, <1>7, <1>8, NormedEvents
  <2> QED
    BY <2>1 DEF NormedRendering
<1>10. Apart(C)
  <2>1. StreamsCalls(scenario.provider, StreamedCalls(events))
    BY <1>1, <1>2, CallsAssumption
  <2>2. StreamedCalls(events) \in Seq(F)
    BY <1>4, <1>8, StreamedType
  <2> QED
    BY <1>7, <1>9, <2>1, <2>2, NormedApart
<1>11. IsPrefix(News(written), out)
  <2>1. Rendered(NewPipeline, scenario.events).out = out
    BY <1>1, <1>2, <1>9 DEF Rendering
  <2> QED
    BY <2>1, NewsIsFromUpstream DEF ClientSeesEvents
<1>12. PICK X : written \in Seq(X)
  BY DEF IsSequence
<1>13. ASSUME NEW i \in DOMAIN written PROVE Over(C, written[i])
  <2> SUFFICES ASSUME Parses(written[i]) PROVE Over(C, written[i])
    BY DEF Over
  <2>1. written[i] # KeepAlive
    BY DEF Parses, KeepAlive
  <2>2. PICK j \in DOMAIN News(written) : News(written)[j] = written[i]
    BY <1>12, <2>1, NewsHas
  <2>3. PICK news : news = News(written) /\ news \in Seq(X)
    BY <1>12, NewsOnly
  <2>4. PICK Y : out \in Seq(Y)
    BY <1>9 DEF IsSequence
  <2>5. j \in DOMAIN out /\ out[j] = news[j]
    BY <1>11, <2>2, <2>3, <2>4, PrefixAgrees
  <2> QED
    BY <1>9, <2>2, <2>3, <2>5
<1> QED
  BY <1>10, <1>13, FragmentsOver

\* A message of the Messages API, event by event.

\* After an event, the m-th block is the last that began; before it, the n-th.
Moves(blocks, event, n, m) ==
    \/ /\ event.type = "content_block_start" /\ m = n + 1 /\ m \in DOMAIN blocks
       /\ event.block = blocks[m].type
       /\ event.block = "tool_use" => event.id = blocks[m].id
    \/ /\ event.type # "content_block_start" /\ m = n
       /\ event.type = "input_json_delta" =>
             /\ n \in DOMAIN blocks /\ blocks[n].type = "tool_use"
             /\ event.index = n - 1 /\ event.id = blocks[n].id

\* The last block that began, after each event.
Walk(blocks, s, g) ==
    /\ g \in [0 .. Len(s) -> Nat]
    /\ \A k \in 1 .. Len(s) : Moves(blocks, s[k], g[k - 1], g[k])

\* It was the n-th before the events and is the m-th after them.
Walks(blocks, s, n, m) == \E g : Walk(blocks, s, g) /\ g[0] = n /\ g[Len(s)] = m

\* One event,
LEMMA WalkOne ==
    ASSUME NEW blocks, NEW e, NEW n \in Nat, NEW m \in Nat, Moves(blocks, e, n, m)
    PROVE  Walks(blocks, <<e>>, n, m)
<1>1. PICK g : g = [k \in 0 .. 1 |-> IF k = 0 THEN n ELSE m]
  OBVIOUS
<1>2. g \in [0 .. 1 -> Nat] /\ g[0] = n /\ g[1] = m
  BY <1>1
<1>3. PICK s : s = <<e>>
  OBVIOUS
<1>4. s = <<e>> /\ Len(s) = 1 /\ s[1] = e
  BY <1>3
<1>5. ASSUME NEW k \in 1 .. Len(s) PROVE Moves(blocks, s[k], g[k - 1], g[k])
  <2>1. k = 1 /\ k - 1 = 0
    BY <1>4
  <2> QED
    BY <1>2, <1>4, <2>1
<1>6. Walk(blocks, s, g)
  BY <1>2, <1>4, <1>5 DEF Walk
<1> QED
  BY <1>2, <1>4, <1>6 DEF Walks

\* events that begin no block,
LEMMA WalkStill ==
    ASSUME NEW blocks, NEW X, NEW s \in Seq(X), NEW n \in Nat, \A k \in DOMAIN s : Moves(blocks, s[k], n, n)
    PROVE  Walks(blocks, s, n, n)
<1>1. PICK l \in Nat : l = Len(s) /\ DOMAIN s = 1 .. l
  OBVIOUS
<1>2. PICK g : g = [k \in 0 .. l |-> n]
  OBVIOUS
<1>3. g \in [0 .. l -> Nat] /\ \A k \in 0 .. l : g[k] = n
  BY <1>2
<1>4. \A k \in 1 .. l : k \in 0 .. l /\ k - 1 \in 0 .. l
  OBVIOUS
<1>5. Walk(blocks, s, g)
  BY <1>1, <1>3, <1>4 DEF Walk
<1>6. 0 \in 0 .. l /\ l \in 0 .. l
  OBVIOUS
<1> QED
  BY <1>1, <1>3, <1>5, <1>6 DEF Walks

\* and events after events.
LEMMA WalkJoin ==
    ASSUME NEW blocks, NEW X, NEW s \in Seq(X), NEW t \in Seq(X), NEW n, NEW m, NEW l,
           Walks(blocks, s, n, m), Walks(blocks, t, m, l)
    PROVE  Walks(blocks, s \o t, n, l)
<1>1. PICK a \in Nat, b \in Nat : a = Len(s) /\ b = Len(t)
  OBVIOUS
<1>2. PICK f : /\ f \in [0 .. a -> Nat] /\ f[0] = n /\ f[a] = m
               /\ \A k \in 1 .. a : Moves(blocks, s[k], f[k - 1], f[k])
  BY <1>1 DEF Walks, Walk
<1>3. PICK h : /\ h \in [0 .. b -> Nat] /\ h[0] = m /\ h[b] = l
               /\ \A k \in 1 .. b : Moves(blocks, t[k], h[k - 1], h[k])
  BY <1>1 DEF Walks, Walk
<1>4. PICK g : g = [k \in 0 .. a + b |-> IF k <= a THEN f[k] ELSE h[k - a]]
  OBVIOUS
<1>5. PICK u : u = s \o t
  OBVIOUS
<1>6. /\ Len(u) = a + b /\ \A k \in 1 .. a : u[k] = s[k]
      /\ \A k \in a + 1 .. a + b : u[k] = t[k - a]
  BY <1>1, <1>5
<1>7. ASSUME NEW k \in 0 .. a + b PROVE g[k] \in Nat
  <2>1. CASE k <= a
    BY <1>2, <1>4, <2>1
  <2>2. CASE ~(k <= a)
    <3>1. k - a \in 0 .. b
      BY <2>2
    <3> QED
      BY <1>3, <1>4, <2>2, <3>1
  <2> QED
    BY <2>1, <2>2
<1>8. g \in [0 .. a + b -> Nat]
  BY <1>4, <1>7
<1>9. g[0] = n /\ g[a + b] = l
  <2>1. g[0] = n
    BY <1>2, <1>4
  <2>2. CASE b = 0
    BY <1>2, <1>3, <1>4, <2>2
  <2>3. CASE b # 0
    <3>1. a + b \in 0 .. a + b /\ ~(a + b <= a) /\ a + b - a = b
      BY <2>3
    <3> QED
      BY <1>3, <1>4, <2>1, <3>1
  <2> QED
    BY <2>1, <2>2, <2>3
<1>10. ASSUME NEW k \in 1 .. a + b PROVE Moves(blocks, u[k], g[k - 1], g[k])
  <2>1. CASE k <= a
    <3>1. k \in 1 .. a /\ k \in 0 .. a + b /\ k - 1 \in 0 .. a + b /\ k - 1 <= a
      BY <2>1
    <3>2. g[k] = f[k] /\ g[k - 1] = f[k - 1] /\ u[k] = s[k]
      BY <1>4, <1>6, <3>1
    <3> QED
      BY <1>2, <3>1, <3>2
  <2>2. CASE k = a + 1
    <3>1. k \in a + 1 .. a + b /\ k - a = 1 /\ 1 \in 1 .. b /\ k - 1 = a /\ ~(k <= a) /\ a \in 0 .. a + b
          /\ k \in 0 .. a + b
      BY <2>2
    <3>2. g[k] = h[1] /\ g[k - 1] = h[0] /\ u[k] = t[1]
      BY <1>2, <1>3, <1>4, <1>6, <3>1
    <3>3. Moves(blocks, t[1], h[1 - 1], h[1]) /\ 1 - 1 = 0
      BY <1>3, <3>1
    <3> QED
      BY <3>2, <3>3
  <2>3. CASE k > a + 1
    <3>1. PICK j \in 1 .. b : j = k - a /\ k - 1 - a = j - 1 /\ j - 1 \in 1 .. b
      BY <2>3
    <3>2. k \in a + 1 .. a + b /\ k \in 0 .. a + b /\ k - 1 \in 0 .. a + b /\ ~(k <= a) /\ ~(k - 1 <= a)
      BY <2>3
    <3>3. g[k] = h[j] /\ g[k - 1] = h[j - 1] /\ u[k] = t[j]
      BY <1>4, <1>6, <3>1, <3>2
    <3> QED
      BY <1>3, <3>3
  <2> QED
    BY <2>1, <2>2, <2>3
<1>11. Walk(blocks, u, g)
  BY <1>6, <1>8, <1>10 DEF Walk
<1> QED
  BY <1>5, <1>6, <1>9, <1>11 DEF Walks

\* The deltas of the i-th block, and all of its events.
DeltasOf(b, i) ==
    CASE b.type = "text" ->
           [k \in DOMAIN b.text |-> [type |-> "text_delta", index |-> i - 1, piece |-> b.text[k]]]
      [] b.type = "tool_use" ->
           [k \in DOMAIN b.input |-> [type |-> "input_json_delta", index |-> i - 1,
                                      id |-> b.id, piece |-> b.input[k]]]
      [] OTHER -> <<[type |-> "thinking_delta", index |-> i - 1]>>

\* The event that begins it, and all of its events.
BeginOf(b, i) ==
    IF b.type = "tool_use"
    THEN [type |-> "content_block_start", index |-> i - 1, block |-> b.type,
          id |-> b.id, name |-> b.name]
    ELSE [type |-> "content_block_start", index |-> i - 1, block |-> b.type]
BlockOf(b, i) == <<BeginOf(b, i)>> \o DeltasOf(b, i) \o <<[type |-> "content_block_stop"]>>

\* A mapped sequence is one.
LEMMA MappedIsSequence ==
    ASSUME NEW t, IsSequence(t), NEW s, DOMAIN s = DOMAIN t, s = [k \in DOMAIN t |-> s[k]]
    PROVE  IsSequence(s)
<1>1. PICK n \in Nat : DOMAIN t = 1 .. n
  <2>1. PICK X : t \in Seq(X)
    BY DEF IsSequence
  <2> QED
    BY <2>1
<1>2. PICK X : X = {s[k] : k \in 1 .. n}
  OBVIOUS
<1>3. \A k \in 1 .. n : s[k] \in X
  BY <1>2
<1>4. PICK t2 : t2 = [k \in 1 .. n |-> s[k]]
  OBVIOUS
<1>5. t2 \in [1 .. n -> X]
  BY <1>3, <1>4
<1>6. t2 \in Seq(X)
  BY <1>5, SeqDef
<1>7. s \in Seq(X)
  BY <1>1, <1>4, <1>6
<1> QED
  BY <1>7, SequenceFacts

\* The deltas of a block belong to it.
LEMMA DeltasWalk ==
    ASSUME NEW a, SpeaksAnthropic(a), NEW i \in DOMAIN a.blocks, i \in Nat,
           NEW s, s = DeltasOf(a.blocks[i], i)
    PROVE  IsSequence(s) /\ Walks(a.blocks, s, i, i)
<1>1. PICK b, blocks : b = blocks[i] /\ blocks = a.blocks
  OBVIOUS
<1>2. \A x : x.type \notin {"content_block_start", "input_json_delta"} => Moves(blocks, x, i, i)
  BY DEF Moves
<1>3. IsSequence(s) /\ \A k \in DOMAIN s : Moves(blocks, s[k], i, i)
  <2>1. CASE b.type = "text"
    <3>1. s = [k \in DOMAIN b.text |-> [type |-> "text_delta", index |-> i - 1, piece |-> b.text[k]]]
      BY <1>1, <2>1 DEF DeltasOf
    <3>2. IsSequence(b.text)
      <4>1. a.blocks[i].type = "text"
        BY <1>1, <2>1
      <4>2. IsSequence(a.blocks[i].text)
        BY <4>1, Zenon DEF SpeaksAnthropic
      <4> QED
        BY <1>1, <4>2
    <3>3. PICK t : t = b.text
      OBVIOUS
    <3>4. DOMAIN s = DOMAIN t /\ s = [k \in DOMAIN t |-> s[k]]
      BY <3>1, <3>3
    <3>5. IsSequence(s)
      BY <3>2, <3>3, <3>4, MappedIsSequence
    <3>6. ASSUME NEW k \in DOMAIN s PROVE Moves(blocks, s[k], i, i)
      <4>1. s[k].type = "text_delta"
        BY <3>1
      <4> QED
        BY <1>2, <4>1
    <3> QED
      BY <3>5, <3>6
  <2>2. CASE b.type = "tool_use"
    <3>1. s = [k \in DOMAIN b.input |-> [type |-> "input_json_delta", index |-> i - 1,
                                         id |-> b.id, piece |-> b.input[k]]]
      BY <1>1, <2>2 DEF DeltasOf
    <3>2. IsSequence(b.input)
      <4>1. a.blocks[i].type = "tool_use"
        BY <1>1, <2>2
      <4>2. IsSequence(a.blocks[i].input)
        BY <4>1, Zenon DEF SpeaksAnthropic
      <4> QED
        BY <1>1, <4>2
    <3>3. PICK t : t = b.input
      OBVIOUS
    <3>4. DOMAIN s = DOMAIN t /\ s = [k \in DOMAIN t |-> s[k]]
      BY <3>1, <3>3
    <3>5. IsSequence(s)
      BY <3>2, <3>3, <3>4, MappedIsSequence
    <3>6. ASSUME NEW k \in DOMAIN s PROVE Moves(blocks, s[k], i, i)
      <4>1. s[k].type = "input_json_delta" /\ s[k].index = i - 1 /\ s[k].id = b.id
        BY <3>1
      <4> QED
        BY <1>1, <2>2, <4>1 DEF Moves
    <3> QED
      BY <3>5, <3>6
  <2>3. CASE b.type # "text" /\ b.type # "tool_use"
    <3>1. PICK x : s = <<x>> /\ x = [type |-> "thinking_delta", index |-> i - 1]
      BY <1>1, <2>3 DEF DeltasOf
    <3>2. Moves(blocks, x, i, i)
      <4>1. x.type = "thinking_delta"
        BY <3>1
      <4> QED
        BY <1>2, <4>1
    <3>3. s \in Seq({x}) /\ \A k \in DOMAIN s : s[k] = x
      BY <3>1
    <3> QED
      BY <3>2, <3>3, SequenceFacts
  <2> QED
    BY <2>1, <2>2, <2>3
<1>4. PICK X : s \in Seq(X)
  BY <1>3 DEF IsSequence
<1> QED
  BY <1>1, <1>3, <1>4, WalkStill

\* The events of a block begin it.
LEMMA BlockWalk ==
    ASSUME NEW a, SpeaksAnthropic(a), NEW i \in DOMAIN a.blocks, i \in Nat, i > 0,
           NEW s, s = BlockOf(a.blocks[i], i)
    PROVE  IsSequence(s) /\ Walks(a.blocks, s, i - 1, i)
<1>1. PICK b, blocks : b = blocks[i] /\ blocks = a.blocks
  OBVIOUS
<1>2. PICK deltas : deltas = DeltasOf(b, i) /\ IsSequence(deltas) /\ Walks(blocks, deltas, i, i)
  BY <1>1, DeltasWalk
<1>3. PICK begin : begin = BeginOf(b, i)
  OBVIOUS
<1>4. PICK stop : stop = [type |-> "content_block_stop"]
  OBVIOUS
<1>5. PICK D : deltas \in Seq(D)
  BY <1>2 DEF IsSequence
<1>6. PICK X : X = D \cup {begin, stop}
  OBVIOUS
<1>7. deltas \in Seq(X) /\ <<begin>> \in Seq(X) /\ <<stop>> \in Seq(X)
  BY <1>5, <1>6
<1>8. PICK first, last : first = <<begin>> /\ last = <<stop>>
  OBVIOUS
<1>9. s = first \o deltas \o last
  BY <1>1, <1>2, <1>3, <1>4, <1>8 DEF BlockOf
<1>10. Walks(blocks, first, i - 1, i)
  <2>1. /\ begin.type = "content_block_start" /\ begin.block = b.type
        /\ b.type = "tool_use" => begin.id = b.id
    BY <1>3 DEF BeginOf
  <2>2. Moves(blocks, begin, i - 1, i)
    BY <1>1, <2>1 DEF Moves
  <2> QED
    BY <1>8, <2>2, WalkOne
<1>11. Walks(blocks, last, i, i)
  <2>1. stop.type = "content_block_stop"
    BY <1>4
  <2>2. Moves(blocks, stop, i, i)
    BY <2>1 DEF Moves
  <2> QED
    BY <1>8, <2>2, WalkOne
<1>12. first \o deltas \in Seq(X) /\ s \in Seq(X)
  BY <1>7, <1>8, <1>9
<1>13. Walks(blocks, first \o deltas, i - 1, i)
  BY <1>2, <1>7, <1>8, <1>10, WalkJoin
<1>14. Walks(blocks, s, i - 1, i)
  BY <1>7, <1>8, <1>9, <1>11, <1>12, <1>13, WalkJoin
<1> QED
  BY <1>1, <1>12, <1>14, SequenceFacts

\* The events of all blocks begin all of them.
LEMMA BlocksWalk ==
    ASSUME NEW a, SpeaksAnthropic(a), NEW s, s = FlattenSeq([i \in DOMAIN a.blocks |-> BlockOf(a.blocks[i], i)])
    PROVE  IsSequence(s) /\ \E n \in Nat : Walks(a.blocks, s, 0, n)
<1>1. PICK blocks : blocks = a.blocks
  OBVIOUS
<1>2. PICK l \in Nat : l = Len(blocks) /\ DOMAIN blocks = 1 .. l
  <2>1. IsSequence(a.blocks)
    BY DEF SpeaksAnthropic
  <2>2. PICK Y : blocks \in Seq(Y)
    BY <1>1, <2>1 DEF IsSequence
  <2> QED
    BY <2>2
<1>3. PICK X : X = UNION {{BlockOf(blocks[i], i)[k] : k \in DOMAIN BlockOf(blocks[i], i)} : i \in 1 .. l}
  OBVIOUS
<1>4. ASSUME NEW i \in 1 .. l
      PROVE  BlockOf(blocks[i], i) \in Seq(X) /\ Walks(blocks, BlockOf(blocks[i], i), i - 1, i)
  <2>1. PICK b : b = BlockOf(blocks[i], i)
    OBVIOUS
  <2>2. IsSequence(b) /\ Walks(blocks, b, i - 1, i)
    <3>1. i \in DOMAIN a.blocks /\ i \in Nat /\ i > 0
      BY <1>1, <1>2
    <3> QED
      BY <1>1, <2>1, <3>1, BlockWalk
  <2>3. {b[k] : k \in DOMAIN b} \subseteq X
    BY <1>3, <2>1
  <2>4. b \in Seq(X)
    BY <2>2, <2>3 DEF IsSequence
  <2> QED
    BY <2>1, <2>2, <2>4
<1>5. PICK Q : Q = Seq(X)
  OBVIOUS
<1>6. PICK f : f = [i \in 1 .. l |-> BlockOf(blocks[i], i)]
  OBVIOUS
<1>7. \A i \in 1 .. l : f[i] \in Q /\ Walks(blocks, f[i], i - 1, i)
  BY <1>4, <1>5, <1>6
<1> DEFINE Upto(n) == FlattenSeq([i \in 1 .. n |-> f[i]])
           Good(n) == n <= l => Upto(n) \in Q /\ Walks(blocks, Upto(n), 0, n)
           S == {n \in Nat : Good(n)}
<1>8. Good(0)
  <2>1. [i \in 1 .. 0 |-> f[i]] = <<>> /\ FlattenSeq(<<>>) = <<>>
    BY DEF FlattenSeq
  <2>2. <<>> \in Q /\ <<>> \in Seq(X)
    BY <1>5
  <2>3. DOMAIN <<>> = {}
    OBVIOUS
  <2>4. PICK none : none = <<>> /\ none \in Seq(X) /\ DOMAIN none = {}
    BY <2>2, <2>3, Zenon
  <2>5. Walks(blocks, none, 0, 0)
    BY <2>4, WalkStill
  <2> QED
    BY <2>1, <2>2, <2>4, <2>5
<1>9. ASSUME NEW n \in Nat, Good(n) PROVE Good(n + 1)
  <2> SUFFICES ASSUME n + 1 <= l PROVE Upto(n + 1) \in Q /\ Walks(blocks, Upto(n + 1), 0, n + 1)
    OBVIOUS
  <2>1. n <= l /\ n + 1 \in 1 .. l /\ n + 1 - 1 = n
    OBVIOUS
  <2>2. PICK b \in Q : b = f[n + 1] /\ Walks(blocks, b, n, n + 1)
    BY <1>7, <2>1
  <2>3. PICK fs : fs = [i \in 1 .. n |-> f[i]]
    OBVIOUS
  <2>4. PICK gs : gs = [i \in 1 .. n + 1 |-> f[i]]
    OBVIOUS
  <2>5. fs \in Seq(Q) /\ Len(fs) = n
    <3>1. \A i \in 1 .. n : f[i] \in Q
      BY <1>7, <2>1
    <3> QED
      BY <2>3, <3>1, IsASeq
  <2>6. gs \in Seq(Q) /\ Len(gs) = n + 1
    <3>1. PICK m \in Nat : m = n + 1
      OBVIOUS
    <3>2. \A i \in 1 .. m : f[i] \in Q
      BY <1>7, <2>1, <3>1
    <3> QED
      BY <2>4, <3>1, <3>2, IsASeq
  <2>7. PICK u : u = Append(fs, b)
    OBVIOUS
  <2>8. u \in Seq(Q) /\ Len(u) = n + 1 /\ u[n + 1] = b /\ \A i \in 1 .. n : u[i] = fs[i]
    BY <2>5, <2>7, FrontFacts
  <2>9. ASSUME NEW i \in 1 .. n + 1 PROVE gs[i] = u[i]
    <3>1. i \in 1 .. n \/ i = n + 1
      OBVIOUS
    <3> QED
      BY <2>2, <2>3, <2>4, <2>8, <3>1
  <2>10. gs = u
    BY <2>6, <2>8, <2>9, SeqEqual
  <2>11. FlattenSeq(Append(fs, b)) = FlattenSeq(fs) \o b
    BY <1>5, <2>5, FlattenAppend
  <2>12. PICK old \in Seq(X) : old = Upto(n)
    BY <1>5, <1>9, <2>1
  <2>13. PICK all : old = Upto(n) /\ all = Upto(n + 1)
    BY <2>12
  <2>14. all = old \o b
    BY <2>3, <2>4, <2>7, <2>10, <2>11, <2>13
  <2>15. b \in Seq(X)
    BY <1>5
  <2>16. all \in Seq(X)
    BY <2>14, <2>15
  <2>17. Walks(blocks, old, 0, n)
    BY <1>9, <2>1, <2>13
  <2>18. Walks(blocks, all, 0, n + 1)
    BY <2>2, <2>14, <2>15, <2>17, WalkJoin
  <2> QED
    BY <1>5, <2>13, <2>16, <2>18
<1>10. Nat \subseteq S
  <2> HIDE DEF Good
  <2>1. 0 \in S /\ \A n \in Nat : n \in S => n + 1 \in S
    BY <1>8, <1>9
  <2> HIDE DEF S
  <2> QED
    BY <2>1, Induction
<1>11. Good(l)
  BY <1>10
<1>12. Upto(l) \in Seq(X) /\ Walks(blocks, Upto(l), 0, l)
  BY <1>5, <1>11
<1>13. s = Upto(l)
  <2>1. [i \in 1 .. l |-> f[i]] = [i \in DOMAIN a.blocks |-> BlockOf(a.blocks[i], i)]
    BY <1>1, <1>2, <1>6
  <2> QED
    BY <2>1
<1> HIDE DEF Upto
<1>14. IsSequence(s)
  BY <1>12, <1>13, SequenceFacts
<1> QED
  BY <1>1, <1>12, <1>13, <1>14

\* A message, from its start to its end.
LEMMA ApiWalk ==
    ASSUME NEW a, SpeaksAnthropic(a)
    PROVE  IsSequence(ApiEvents(a)) /\ \E n \in Nat : Walks(a.blocks, ApiEvents(a), 0, n)
<1>1. PICK start, stop, failed, over :
         /\ start = [type |-> "message_start"] /\ failed = [type |-> "error"]
         /\ stop = [type |-> "message_delta", stop |-> a.stop] /\ over = [type |-> "message_stop"]
  OBVIOUS
<1>2. PICK middle : middle = FlattenSeq([i \in DOMAIN a.blocks |-> BlockOf(a.blocks[i], i)])
  OBVIOUS
<1>3. PICK first, last : first = <<start>> /\ last = IF a.stop = "error" THEN <<failed>> ELSE <<stop, over>>
  OBVIOUS
<1>4. ApiEvents(a) = first \o middle \o last
  BY <1>1, <1>2, <1>3 DEF ApiEvents, BlockOf, BeginOf, DeltasOf
<1>5. IsSequence(middle)
  BY <1>2, BlocksWalk
<1>6. PICK n \in Nat : Walks(a.blocks, middle, 0, n)
  BY <1>2, BlocksWalk
<1>7. PICK D : middle \in Seq(D)
  BY <1>5 DEF IsSequence
<1>8. PICK X : X = D \cup {start, stop, failed, over}
  OBVIOUS
<1>9. middle \in Seq(X) /\ first \in Seq(X) /\ last \in Seq(X)
  <2>1. middle \in Seq(X)
    BY <1>7, <1>8
  <2>2. <<start>> \in Seq(X) /\ <<failed>> \in Seq(X) /\ <<stop, over>> \in Seq(X)
    BY <1>8
  <2> QED
    BY <1>3, <2>1, <2>2
<1>10. /\ start.type = "message_start" /\ failed.type = "error"
       /\ stop.type = "message_delta" /\ over.type = "message_stop"
  BY <1>1
<1>11. ASSUME NEW x \in {start, stop, failed, over}, NEW k PROVE Moves(a.blocks, x, k, k)
  <2>1. x.type \in {"message_start", "error", "message_delta", "message_stop"}
    BY <1>10
  <2> QED
    BY <2>1 DEF Moves
<1>12. Walks(a.blocks, first, 0, 0) /\ Walks(a.blocks, last, n, n)
  <2>1. \A k \in DOMAIN first : first[k] \in {start, stop, failed, over}
    BY <1>3
  <2>2. \A k \in DOMAIN last : last[k] \in {start, stop, failed, over}
    <3>1. CASE a.stop = "error"
      BY <1>3, <3>1
    <3>2. CASE a.stop # "error"
      BY <1>3, <3>2
    <3> QED
      BY <3>1, <3>2
  <2>3. Walks(a.blocks, first, 0, 0)
    BY <1>9, <1>11, <2>1, WalkStill
  <2>4. Walks(a.blocks, last, n, n)
    BY <1>9, <1>11, <2>2, WalkStill
  <2> QED
    BY <2>3, <2>4
<1>13. first \o middle \in Seq(X) /\ (first \o middle) \o last \in Seq(X)
  BY <1>9
<1>14. Walks(a.blocks, first \o middle, 0, n)
  BY <1>6, <1>9, <1>12, WalkJoin
<1>15. Walks(a.blocks, (first \o middle) \o last, 0, n)
  BY <1>9, <1>12, <1>13, <1>14, WalkJoin
<1>16. IsSequence((first \o middle) \o last)
  BY <1>13, SequenceFacts
<1> QED
  BY <1>4, <1>15, <1>16

\* The tool uses before the i-th block, of which there are so many.
ToolsBefore(blocks, i) == {k \in 1 .. i - 1 : blocks[k].type = "tool_use"}
CallNumber(blocks, i) == Cardinality(ToolsBefore(blocks, i))

\* They are counted one by one.
LEMMA CallNumberNext ==
    ASSUME NEW blocks, NEW i \in Nat, i > 0
    PROVE  /\ CallNumber(blocks, 1) = 0 /\ CallNumber(blocks, i) \in Nat
           /\ CallNumber(blocks, i + 1) = CallNumber(blocks, i)
                                          + (IF blocks[i].type = "tool_use" THEN 1 ELSE 0)
<1>1. CallNumber(blocks, 1) = 0
  <2>1. ToolsBefore(blocks, 1) = {}
    BY DEF ToolsBefore
  <2> QED
    BY <2>1, FS_EmptySet DEF CallNumber
<1>2. PICK old : old = ToolsBefore(blocks, i)
  OBVIOUS
<1>3. IsFiniteSet(old) /\ i \notin old
  <2>1. old \subseteq 1 .. i - 1
    BY <1>2 DEF ToolsBefore
  <2>2. PICK d : d = i - 1
    OBVIOUS
  <2>3. d \in Int
    BY <2>2
  <2>4. IsFiniteSet(1 .. d)
    BY <2>3, FS_Interval
  <2>5. i \notin 1 .. d
    BY <2>2
  <2>6. IsFiniteSet(old)
    BY <2>1, <2>2, <2>4, FS_Subset
  <2> QED
    BY <2>1, <2>2, <2>5, <2>6
<1>4. PICK new : new = ToolsBefore(blocks, i + 1)
  OBVIOUS
<1>5. CASE blocks[i].type = "tool_use"
  <2>1. new = old \cup {i}
    BY <1>2, <1>4, <1>5 DEF ToolsBefore
  <2>2. Cardinality(new) = Cardinality(old) + 1 /\ Cardinality(old) \in Nat
    BY <1>3, <2>1, FS_AddElement, FS_CardinalityType
  <2> QED
    BY <1>1, <1>2, <1>4, <1>5, <2>2 DEF CallNumber
<1>6. CASE blocks[i].type # "tool_use"
  <2>1. new = old
    BY <1>2, <1>4, <1>6 DEF ToolsBefore
  <2>2. Cardinality(old) \in Nat
    BY <1>3, FS_CardinalityType
  <2> QED
    BY <1>1, <1>2, <1>4, <1>6, <2>1, <2>2 DEF CallNumber
<1> QED
  BY <1>5, <1>6

\* No two tool uses have one number.
LEMMA CallNumberOnce ==
    ASSUME NEW blocks, NEW i \in Nat, NEW j \in Nat, 0 < i, i < j, blocks[i].type = "tool_use"
    PROVE  CallNumber(blocks, i) # CallNumber(blocks, j)
<1>1. CallNumber(blocks, i + 1) = CallNumber(blocks, i) + 1 /\ CallNumber(blocks, i) \in Nat
  BY CallNumberNext
<1>2. IsFiniteSet(ToolsBefore(blocks, j)) /\ ToolsBefore(blocks, i + 1) \subseteq ToolsBefore(blocks, j)
  <2>1. ToolsBefore(blocks, j) \subseteq 1 .. j - 1
    BY DEF ToolsBefore
  <2>2. PICK d : d = j - 1
    OBVIOUS
  <2>3. d \in Int
    BY <2>2
  <2>4. IsFiniteSet(1 .. d)
    BY <2>3, FS_Interval
  <2>5. IsFiniteSet(ToolsBefore(blocks, j))
    BY <2>1, <2>2, <2>4, FS_Subset
  <2>6. ToolsBefore(blocks, i + 1) \subseteq ToolsBefore(blocks, j)
    BY DEF ToolsBefore
  <2> QED
    BY <2>5, <2>6
<1>3. CallNumber(blocks, i + 1) <= CallNumber(blocks, j)
  BY <1>2, FS_Subset DEF CallNumber
<1>4. CallNumber(blocks, j) \in Nat
  BY CallNumberNext
<1> QED
  BY <1>1, <1>3, <1>4

\* A fragment of one of these tool uses, and chunks and events of such fragments.
IsCall(blocks, f) ==
    \E i \in DOMAIN blocks : /\ blocks[i].type = "tool_use" /\ f.call = blocks[i].id
                             /\ f.index = CallNumber(blocks, i) /\ ~f.hoisted

\* The state of buildSseResponse() when the first n blocks have begun.
Placed(blocks, n, s) ==
    /\ Len(s.blocks) = n /\ s.toolCallCounter = CallNumber(blocks, n + 1)
    /\ \A i \in 1 .. n : s.blocks[i] = IF blocks[i].type = "tool_use" THEN CallNumber(blocks, i) ELSE None

\* The fields of that state.
LEMMA ApiStateFields ==
    ASSUME NEW s \in ApiStates
    PROVE  /\ s = [blocks |-> s.blocks, toolCallCounter |-> s.toolCallCounter]
           /\ s.blocks \in Seq(Nat \cup {None}) /\ s.toolCallCounter \in Nat
  BY DEF ApiStates

\* One more block.
LEMMA PlacedNext ==
    ASSUME NEW blocks, NEW n \in Nat, NEW s \in ApiStates, Placed(blocks, n, s), NEW t \in ApiStates,
           NEW x, t.blocks = Append(s.blocks, x), t.toolCallCounter = CallNumber(blocks, n + 2),
           x = IF blocks[n + 1].type = "tool_use" THEN CallNumber(blocks, n + 1) ELSE None
    PROVE  Placed(blocks, n + 1, t)
<1>1. PICK b, c : b = s.blocks /\ c = t.blocks
  OBVIOUS
<1>2. b \in Seq(Nat \cup {None}) /\ Len(b) = n /\ c = Append(b, x)
  BY <1>1, ApiStateFields DEF Placed
<1>3. Len(c) = n + 1 /\ c[n + 1] = x /\ \A i \in 1 .. n : c[i] = b[i]
  <2>1. PICK X : X = Nat \cup {None} \cup {x}
    OBVIOUS
  <2>2. b \in Seq(X) /\ x \in X
    BY <1>2, <2>1
  <2> QED
    BY <1>2, <2>2, FrontFacts
<1>4. \A i \in 1 .. n + 1 : i \in 1 .. n \/ i = n + 1
  OBVIOUS
<1>5. n + 2 = (n + 1) + 1
  OBVIOUS
<1>6. \A i \in 1 .. n : c[i] = IF blocks[i].type = "tool_use" THEN CallNumber(blocks, i) ELSE None
  BY <1>1, <1>3 DEF Placed
<1>7. \A i \in 1 .. n + 1 : c[i] = IF blocks[i].type = "tool_use" THEN CallNumber(blocks, i) ELSE None
  BY <1>3, <1>4, <1>6
<1> QED
  BY <1>1, <1>3, <1>5, <1>7 DEF Placed

\* What a chunk of one event tells.
Tells(blocks, chunks) ==
    \A c : chunks = <<c>> => IsSequence(c.calls) /\ \A k \in DOMAIN c.calls : IsCall(blocks, c.calls[k])

\* A chunk without fragments tells nothing,
LEMMA TellsNothing ==
    ASSUME NEW blocks, NEW text, NEW finish
    PROVE  Tells(blocks, <<Chunk(text, <<>>, finish)>>) /\ Tells(blocks, <<>>)
<1>1. PICK none : none = <<>> /\ IsSequence(none) /\ DOMAIN none = {}
  <2>1. IsSequence(<<>>) /\ DOMAIN <<>> = {}
    BY OutgoingEmpty DEF Outgoing
  <2> QED
    BY <2>1
<1>2. PICK chunk : chunk = Chunk(text, none, finish)
  OBVIOUS
<1>3. chunk.calls = none
  BY <1>2 DEF Chunk
<1>4. \A c : <<chunk>> = <<c>> => c = chunk
  OBVIOUS
<1>5. \A c : <<>> # <<c>>
  OBVIOUS
<1>6. Tells(blocks, <<chunk>>)
  BY <1>1, <1>3, <1>4 DEF Tells
<1>7. Tells(blocks, <<>>)
  BY <1>5 DEF Tells
<1> QED
  BY <1>1, <1>2, <1>6, <1>7

\* and a chunk with one fragment tells of its tool use.
LEMMA TellsCall ==
    ASSUME NEW blocks, NEW i \in DOMAIN blocks, blocks[i].type = "tool_use",
           NEW id, id = blocks[i].id, NEW index, index = CallNumber(blocks, i), NEW name, NEW args
    PROVE  Tells(blocks, <<Chunk(<<>>, <<Fragment(id, index, name, args)>>, None)>>)
<1>1. PICK f : f = Fragment(id, index, name, args)
  OBVIOUS
<1>2. f.call = id /\ f.index = index /\ f.hoisted = FALSE
  BY <1>1 DEF Fragment
<1>3. ~f.hoisted
  BY <1>2, Zenon
<1>4. IsCall(blocks, f)
  BY <1>2, <1>3 DEF IsCall
<1>5. PICK calls : calls = <<f>>
  OBVIOUS
<1>6. calls \in Seq({f}) /\ \A k \in DOMAIN calls : calls[k] = f
  BY <1>5
<1>7. IsSequence(calls)
  BY <1>6, SequenceFacts
<1>8. PICK chunk : chunk = Chunk(<<>>, calls, None)
  OBVIOUS
<1>9. chunk.calls = calls
  BY <1>8 DEF Chunk
<1>10. \A c : <<chunk>> = <<c>> => c = chunk
  OBVIOUS
<1>11. Tells(blocks, <<chunk>>)
  BY <1>4, <1>6, <1>7, <1>9, <1>10 DEF Tells
<1> QED
  BY <1>1, <1>5, <1>8, <1>11

\* One event of a message.
LEMMA ApiStep ==
    ASSUME NEW blocks, NEW l \in Nat, DOMAIN blocks = 1 .. l,
           NEW n \in Nat, NEW m \in Nat, NEW s \in ApiStates, Placed(blocks, n, s),
           NEW evt, Moves(blocks, evt, n, m), NEW r, r = ApiEvent(s, evt)
    PROVE  Placed(blocks, m, r.state) /\ Tells(blocks, r.chunks)
<1>1. PICK b, c : s = [blocks |-> b, toolCallCounter |-> c] /\ b \in Seq(Nat \cup {None}) /\ c \in Nat
  BY DEF ApiStates
<1>2. r.state \in ApiStates
  BY ApiMakes
<1>3. ASSUME r.state = s, evt.type # "content_block_start" PROVE Placed(blocks, m, r.state)
  BY <1>3 DEF Moves
<1>4. CASE evt.type = "message_start"
  <2>1. r = [state |-> s, chunks |-> <<Chunk(<<>>, <<>>, None)>>, failed |-> FALSE]
    BY <1>4 DEF ApiEvent
  <2>2. r.state = s /\ r.chunks = <<Chunk(<<>>, <<>>, None)>>
    BY <2>1
  <2> QED
    BY <1>3, <1>4, <2>2, TellsNothing
<1>5. CASE evt.type = "content_block_start" /\ evt.block = "tool_use"
  <2>1. r = [state |-> [blocks |-> Append(s.blocks, c), toolCallCounter |-> c + 1],
             chunks |-> <<Chunk(<<>>, <<Fragment(evt.id, c, evt.name, <<>>)>>, None)>>, failed |-> FALSE]
    BY <1>1, <1>5 DEF ApiEvent, CallIndex
  <2>2. /\ r.state = [blocks |-> Append(s.blocks, c), toolCallCounter |-> c + 1]
        /\ r.chunks = <<Chunk(<<>>, <<Fragment(evt.id, c, evt.name, <<>>)>>, None)>>
    BY <2>1
  <2>3. PICK t : t = r.state /\ t.blocks = Append(s.blocks, c) /\ t.toolCallCounter = c + 1
    BY <2>2
  <2>4. m = n + 1 /\ m \in DOMAIN blocks /\ blocks[m].type = "tool_use" /\ evt.id = blocks[m].id
    BY <1>5 DEF Moves
  <2>5. c = CallNumber(blocks, m)
    BY <1>1, <2>4 DEF Placed
  <2>6. CallNumber(blocks, n + 2) = c + 1
    <3>1. m > 0 /\ m + 1 = n + 2
      BY <2>4
    <3> QED
      BY <2>4, <2>5, <3>1, CallNumberNext
  <2>7. Placed(blocks, n + 1, t)
    BY <1>2, <2>3, <2>4, <2>5, <2>6, PlacedNext
  <2>8. Tells(blocks, r.chunks)
    BY <2>2, <2>4, <2>5, TellsCall
  <2> QED
    BY <2>3, <2>4, <2>7, <2>8
<1>6. CASE evt.type = "content_block_start" /\ evt.block # "tool_use"
  <2>1. r = [state |-> [s EXCEPT !.blocks = Append(s.blocks, None)], chunks |-> <<>>, failed |-> FALSE]
    BY <1>6 DEF ApiEvent
  <2>2. r.state = [s EXCEPT !.blocks = Append(s.blocks, None)] /\ r.chunks = <<>>
    BY <2>1
  <2>3. PICK t : t = r.state /\ t.blocks = Append(s.blocks, None) /\ t.toolCallCounter = c
    BY <1>1, <2>2
  <2>4. m = n + 1 /\ m \in DOMAIN blocks /\ blocks[m].type # "tool_use"
    BY <1>6 DEF Moves
  <2>5. c = CallNumber(blocks, m)
    BY <1>1, <2>4 DEF Placed
  <2>6. CallNumber(blocks, n + 2) = c
    <3>1. m > 0 /\ m + 1 = n + 2
      BY <2>4
    <3>2. PICK x : x = CallNumber(blocks, m + 1)
      OBVIOUS
    <3>3. x = CallNumber(blocks, m) + 0
      BY <2>4, <3>1, <3>2, CallNumberNext
    <3>4. x = c
      BY <1>1, <2>5, <3>3
    <3> QED
      BY <3>1, <3>2, <3>4
  <2>7. Placed(blocks, n + 1, t)
    BY <1>2, <2>3, <2>4, <2>6, PlacedNext
  <2> QED
    BY <2>2, <2>3, <2>4, <2>7, TellsNothing
<1>7. CASE evt.type = "text_delta"
  <2>1. r = [state |-> s, chunks |-> <<Chunk(<<evt.piece>>, <<>>, None)>>, failed |-> FALSE]
    BY <1>7 DEF ApiEvent
  <2>2. r.state = s /\ r.chunks = <<Chunk(<<evt.piece>>, <<>>, None)>>
    BY <2>1
  <2> QED
    BY <1>3, <1>7, <2>2, TellsNothing
<1>8. CASE evt.type = "input_json_delta"
  <2>1. m = n /\ n \in DOMAIN blocks /\ blocks[n].type = "tool_use" /\ evt.index + 1 = n /\ evt.id = blocks[n].id
    BY <1>8 DEF Moves
  <2>2. PICK x : x = s.blocks[evt.index + 1]
    OBVIOUS
  <2>3. x = CallNumber(blocks, n) /\ x # None
    <3>1. n \in 1 .. n /\ n > 0
      BY <2>1
    <3>2. x = CallNumber(blocks, n)
      BY <2>1, <2>2, <3>1 DEF Placed
    <3>3. CallNumber(blocks, n) \in Nat
      BY <3>1, CallNumberNext
    <3> QED
      BY <3>2, <3>3, NoneAssumption
  <2>4. r = [state |-> s, failed |-> FALSE,
             chunks |-> <<Chunk(<<>>, <<Fragment(evt.id, x, None, <<evt.piece>>)>>, None)>>]
    BY <1>8, <2>2, <2>3 DEF ApiEvent
  <2>5. r.state = s /\ r.chunks = <<Chunk(<<>>, <<Fragment(evt.id, x, None, <<evt.piece>>)>>, None)>>
    BY <2>4
  <2>6. Tells(blocks, r.chunks)
    BY <2>1, <2>3, <2>5, TellsCall
  <2> QED
    BY <1>3, <1>8, <2>5, <2>6
<1>9. CASE evt.type = "message_delta"
  <2>1. r = [state |-> s, chunks |-> <<Chunk(<<>>, <<>>, ToFinishReason(evt.stop))>>, failed |-> FALSE]
    BY <1>9 DEF ApiEvent
  <2>2. r.state = s /\ r.chunks = <<Chunk(<<>>, <<>>, ToFinishReason(evt.stop))>>
    BY <2>1
  <2> QED
    BY <1>3, <1>9, <2>2, TellsNothing
<1>10. CASE evt.type = "error"
  <2>1. r = [state |-> s, chunks |-> <<ErrorChunk>>, failed |-> TRUE]
    BY <1>10 DEF ApiEvent
  <2>2. r.state = s /\ r.chunks = <<Chunk(<<"[Error]">>, <<>>, "stop")>>
    BY <2>1 DEF ErrorChunk
  <2> QED
    BY <1>3, <1>10, <2>2, TellsNothing
<1>11. CASE evt.type \notin {"message_start", "content_block_start", "text_delta", "input_json_delta",
                             "message_delta", "error"}
  <2>1. r = [state |-> s, chunks |-> <<>>, failed |-> FALSE]
    BY <1>11 DEF ApiEvent
  <2>2. r.state = s /\ r.chunks = <<>>
    BY <2>1
  <2> QED
    BY <1>3, <1>11, <2>2, TellsNothing
<1> QED
  BY <1>4, <1>5, <1>6, <1>7, <1>8, <1>9, <1>10, <1>11

\* Fragments of tool uses can be put together.
LEMMA CallsApart ==
    ASSUME NEW a, SpeaksAnthropic(a), NEW C, \A f \in C : IsCall(a.blocks, f)
    PROVE  Apart(C)
<1>1. PICK blocks : blocks = a.blocks
  OBVIOUS
<1>2. PICK l \in Nat : DOMAIN blocks = 1 .. l
  <2>1. IsSequence(a.blocks)
    BY DEF SpeaksAnthropic
  <2>2. PICK Y : blocks \in Seq(Y)
    BY <1>1, <2>1 DEF IsSequence
  <2> QED
    BY <2>2
<1>3. ASSUME NEW f \in C, NEW g \in C PROVE f.index # None /\ ~f.hoisted /\ Agree(f, g)
  <2>1. PICK i \in 1 .. l : /\ blocks[i].type = "tool_use" /\ f.call = blocks[i].id
                            /\ f.index = CallNumber(blocks, i) /\ ~f.hoisted
    BY <1>1, <1>2 DEF IsCall
  <2>2. PICK j \in 1 .. l : /\ blocks[j].type = "tool_use" /\ g.call = blocks[j].id
                            /\ g.index = CallNumber(blocks, j)
    BY <1>1, <1>2 DEF IsCall
  <2>3. f.index # None
    <3>1. i \in Nat /\ i > 0
      OBVIOUS
    <3>2. CallNumber(blocks, i) \in Nat
      BY <3>1, CallNumberNext
    <3> QED
      BY <2>1, <3>2, NoneAssumption
  <2>4. CASE i = j
    BY <2>1, <2>2, <2>3, <2>4 DEF Agree
  <2>5. CASE i # j
    <3>1. blocks[i].id # blocks[j].id
      <4>1. i \in DOMAIN a.blocks /\ j \in DOMAIN a.blocks
        BY <1>1, <1>2
      <4> QED
        BY <1>1, <2>1, <2>2, <2>5, <4>1 DEF SpeaksAnthropic
    <3>2. CallNumber(blocks, i) # CallNumber(blocks, j)
      <4>1. i < j \/ j < i
        BY <2>5
      <4>2. i \in Nat /\ j \in Nat /\ 0 < i /\ 0 < j
        OBVIOUS
      <4> QED
        BY <2>1, <2>2, <4>1, <4>2, CallNumberOnce
    <3> QED
      BY <2>1, <2>2, <2>3, <3>1, <3>2 DEF Agree
  <2> QED
    BY <2>4, <2>5
<1> QED
  BY <1>3 DEF Apart

\* The fragments of a claude provider's event are those of Claude's tool uses.
Telling(s, event) ==
    Parses(event) =>
       /\ IsSequence(ChunkOf(event).calls)
       /\ \A k \in DOMAIN ChunkOf(event).calls :
             s.kind = "api" /\ IsCall(s.answer.blocks, ChunkOf(event).calls[k])

\* A sequence of such events.
Told(s, read) == \E E : read \in Seq(E) /\ \A e \in E : Telling(s, e)

\* Such sequences end to end.
LEMMA ToldConcat ==
    ASSUME NEW s, NEW a, Told(s, a), NEW b, Told(s, b)
    PROVE  Told(s, a \o b)
<1>1. PICK E : a \in Seq(E) /\ \A e \in E : Telling(s, e)
  BY DEF Told
<1>2. PICK F : b \in Seq(F) /\ \A e \in F : Telling(s, e)
  BY DEF Told
<1>3. PICK G : G = E \cup F
  OBVIOUS
<1>4. a \in Seq(G) /\ b \in Seq(G) /\ \A e \in G : Telling(s, e)
  BY <1>1, <1>2, <1>3
<1>5. a \o b \in Seq(G)
  BY <1>4
<1> QED
  BY <1>4, <1>5 DEF Told

\* No event,
LEMMA ToldNone ==
    ASSUME NEW s
    PROVE  Told(s, <<>>)
<1>1. PICK E, none : E = {} /\ none = <<>>
  OBVIOUS
<1>2. none \in Seq(E) /\ \A e \in E : Telling(s, e)
  BY <1>1
<1> QED
  BY <1>1, <1>2 DEF Told

\* one event,
LEMMA ToldOne ==
    ASSUME NEW s, NEW e, Telling(s, e)
    PROVE  Told(s, <<e>>)
<1>1. PICK E, one : E = {e} /\ one = <<e>>
  OBVIOUS
<1>2. one \in Seq(E) /\ \A x \in E : Telling(s, x)
  BY <1>1
<1> QED
  BY <1>1, <1>2 DEF Told

\* and the first of some events.
LEMMA ToldTail ==
    ASSUME NEW s, NEW q, Told(s, q), q # <<>>
    PROVE  Telling(s, Head(q)) /\ Told(s, Tail(q))
<1>1. PICK E : q \in Seq(E) /\ \A e \in E : Telling(s, e)
  BY DEF Told
<1>2. Head(q) \in E /\ Tail(q) \in Seq(E)
  BY <1>1
<1> QED
  BY <1>1, <1>2 DEF Told

\* An event without a chunk tells nothing.
LEMMA SilentEvent ==
    ASSUME NEW s
    PROVE  Telling(s, DoneEvent) /\ Telling(s, KeepAlive)
<1>1. ~Parses(DoneEvent) /\ ~Parses(KeepAlive)
  BY DEF Parses, DoneEvent, KeepAlive
<1> QED
  BY <1>1 DEF Telling

\* The event of a chunk tells what the chunk does.
LEMMA ChunkTells ==
    ASSUME NEW s, NEW c, IsSequence(c.calls),
           \A k \in DOMAIN c.calls : s.kind = "api" /\ IsCall(s.answer.blocks, c.calls[k])
    PROVE  Telling(s, EventOf(c))
<1>1. ChunkOf(EventOf(c)) = c
  BY DEF ChunkOf, EventOf, DataEvent, Payload
<1> QED
  BY <1>1 DEF Telling

\* Upstreams whose fragments are right as they are.
LEMMA PassedOn ==
    ASSUME NEW p, p \notin {"gemini", "ollama"}, NEW n, NEW X
    PROVE  \A s \in Seq(X) : FixAll(p, n, s).calls = s
<1> DEFINE S == {s \in Seq(X) : FixAll(p, n, s) = [calls |-> s, state |-> n]}
<1>1. <<>> \in S
  <2>1. FixAll(p, n, <<>>) = [calls |-> <<>>, state |-> n]
    BY FixAllEmpty DEF Unfixed
  <2> QED
    BY <2>1
<1>2. ASSUME NEW s \in Seq(X), NEW c \in X, s \in S PROVE Append(s, c) \in S
  <2>1. PICK all : all = FixAll(p, n, s)
    OBVIOUS
  <2>2. all.calls = s /\ all.state = n
    BY <1>2, <2>1
  <2>3. FixAll(p, n, Append(s, c)) = FixNext(p, all, c)
    <3>1. s \in Seq(X) /\ c \in X
      BY <1>2
    <3> HIDE DEF S
    <3> QED
      BY <2>1, <3>1, FixAllAppend
  <2>4. PICK r : r = Fix(p, n, c, Len(s) + 1) /\ r = [tc |-> c, state |-> n]
    BY DEF Fix
  <2>5. r.tc = c /\ r.state = n
    BY <2>4
  <2>6. FixNext(p, all, c) = [calls |-> Append(s, c), state |-> n]
    BY <2>2, <2>4, <2>5 DEF FixNext
  <2>7. Append(s, c) \in Seq(X)
    OBVIOUS
  <2> QED
    BY <2>3, <2>6, <2>7
<1>3. Seq(X) \subseteq S
  <2> HIDE DEF S
  <2> QED
    BY <1>1, <1>2, SeqInduction
<1>4. ASSUME NEW s \in Seq(X) PROVE FixAll(p, n, s).calls = s
  <2>1. FixAll(p, n, s) = [calls |-> s, state |-> n]
    BY <1>3
  <2> QED
    BY <2>1
<1> QED
  BY <1>4

\* What is let out for such an event tells the same.
LEMMA ShownTells ==
    ASSUME NEW s \in Scenarios, s = scenario, s.kind # "http", NEW pipe, NEW e, Textual(e), Telling(s, e)
    PROVE  Telling(s, Shown(pipe, e))
<1>1. CASE ~Parses(e)
  BY <1>1 DEF Shown
<1>2. CASE Parses(e)
  <2>1. PICK chunk : chunk = ChunkOf(e) /\ IsChunk(chunk)
    BY <1>2 DEF Textual
  <2>2. PICK calls : calls = chunk.calls
    OBVIOUS
  <2>3. IsSequence(calls) /\ \A k \in DOMAIN calls : s.kind = "api" /\ IsCall(s.answer.blocks, calls[k])
    BY <1>2, <2>1, <2>2 DEF Telling
  <2>4. PICK X : X = {calls[k] : k \in DOMAIN calls} /\ calls \in Seq(X)
    BY <2>3 DEF IsSequence
  <2>5. PICK p : p = scenario.provider
    OBVIOUS
  <2>6. PICK all : all = FixAll(p, pipe.normalizer, calls)
    OBVIOUS
  <2>7. all.calls = calls
    <3>1. CASE DOMAIN calls = {}
      <4>1. calls = <<>>
        BY <2>4, <3>1
      <4>2. all = Unfixed(pipe.normalizer)
        BY <2>6, <4>1, FixAllEmpty
      <4> QED
        BY <4>1, <4>2 DEF Unfixed
    <3>2. CASE DOMAIN calls # {}
      <4>1. s.kind = "api"
        BY <2>3, <3>2
      <4>2. p \notin {"gemini", "ollama"}
        BY <2>5, <4>1, CallsAssumption
      <4> QED
        BY <2>4, <2>6, <4>2, PassedOn
    <3> QED
      BY <3>1, <3>2
  <2>8. PICK t : /\ t = Transform(p, pipe.normalizer, chunk)
                 /\ ChunkOf(EventOf(t.chunk)).calls = all.calls
    BY <2>1, <2>2, <2>6, TransformCalls
  <2>9. Shown(pipe, e) = EventOf(t.chunk)
    BY <1>2, <2>1, <2>5, <2>8 DEF Shown
  <2> QED
    BY <2>3, <2>7, <2>8, <2>9 DEF Telling
<1> QED
  BY <1>1, <1>2

\* One event rendered, and none.
LEMMA RenderedOne ==
    ASSUME NEW pipe, NEW e
    PROVE  Rendered(pipe, <<e>>).out = <<Shown(pipe, e)>> /\ Rendered(pipe, <<>>).out = <<>>
<1>1. <<>> \in Seq({e}) /\ Append(<<>>, e) = <<e>>
  OBVIOUS
<1>2. PICK none : none = <<>>
  OBVIOUS
<1>3. Rendered(pipe, none) = Rendering(none, pipe)
  BY <1>2, RenderedEmpty DEF Nothing, Rendering
<1>4. Rendered(pipe, Append(none, e)) = Rendering(Append(none, Shown(pipe, e)), NextPipe(pipe, e))
  <2>1. Rendered(pipe, Append(none, e)) = RenderEvent(Rendered(pipe, none), e)
    BY <1>1, <1>2, RenderedAppend
  <2> QED
    BY <1>3, <2>1, RenderEventShown
<1>5. Append(none, Shown(pipe, e)) = <<Shown(pipe, e)>>
  BY <1>2
<1> QED
  BY <1>1, <1>2, <1>3, <1>4, <1>5 DEF Rendering

\* What claude providers have enqueued and their clients have read tells of Claude's tool
\* uses, and the Messages API has got as far as its events say.
CallsBooks ==
    scenario.kind # "http" =>
       /\ Told(scenario, queue) /\ Told(scenario, written)
       /\ producer.running /\ scenario.kind = "api" =>
             \E g : /\ Walk(scenario.answer.blocks, ApiEvents(scenario.answer), g)
                    /\ Placed(scenario.answer.blocks, g[producer.fed], producer.state)

\* A step by which a provider does not go on.
LEMMA CallsStays ==
    ASSUME CallsBooks, scenario' = scenario, producer'.running => producer' = producer,
           scenario.kind # "http" => Told(scenario, queue') /\ Told(scenario, written')
    PROVE  CallsBooks'
<1>1. CASE scenario.kind = "http"
  BY <1>1 DEF CallsBooks
<1>2. CASE scenario.kind # "http"
  <2>1. producer'.running /\ scenario.kind = "api" =>
           \E g : /\ Walk(scenario.answer.blocks, ApiEvents(scenario.answer), g)
                  /\ Placed(scenario.answer.blocks, g[producer.fed], producer.state)
    BY <1>2 DEF CallsBooks
  <2>2. producer'.running /\ scenario'.kind = "api" =>
           \E g : /\ Walk(scenario'.answer.blocks, ApiEvents(scenario'.answer), g)
                  /\ Placed(scenario'.answer.blocks, g[producer'.fed], producer'.state)
    <3>1. CASE producer'.running /\ scenario'.kind = "api"
      <4>1. producer' = producer /\ scenario' = scenario
        BY <3>1
      <4> QED
        BY <2>1, <3>1, <4>1
    <3> QED
      BY <3>1
  <2> QED
    BY <1>2, <2>2 DEF CallsBooks
<1> QED
  BY <1>1, <1>2

\* What is written tells of tool uses.
LEMMA WriteTells ==
    ASSUME Told(scenario, written), NEW out, Told(scenario, out), Write(out)
    PROVE  Told(scenario, written')
<1>1. Told(scenario, written \o out)
  BY ToldConcat
<1> QED
  BY <1>1 DEF Write

\* At first nothing has been told.
LEMMA CallsInit == Init => CallsBooks
<1> SUFFICES ASSUME Init, scenario.kind # "http" PROVE CallsBooks
  BY DEF CallsBooks
<1>1. /\ scenario \in Scenarios /\ queue = <<>> /\ written = <<>>
      /\ producer = [fed |-> 0, running |-> scenario.kind \in {"api", "cli"},
                     state |-> IF scenario.kind = "api" THEN NewApiStream ELSE <<>>]
  BY DEF Init
<1>2. Told(scenario, queue) /\ Told(scenario, written)
  BY <1>1, ToldNone
<1>3. ASSUME scenario.kind = "api"
      PROVE  \E g : /\ Walk(scenario.answer.blocks, ApiEvents(scenario.answer), g)
                    /\ Placed(scenario.answer.blocks, g[producer.fed], producer.state)
  <2>1. PICK a, blocks, events : a = scenario.answer /\ blocks = a.blocks /\ events = ApiEvents(a)
    OBVIOUS
  <2>2. SpeaksAnthropic(a)
    BY <1>1, <1>3, <2>1, CallsAssumption
  <2>3. PICK n \in Nat : Walks(blocks, events, 0, n)
    BY <2>1, <2>2, ApiWalk
  <2>4. PICK g : Walk(blocks, events, g) /\ g[0] = 0
    BY <2>3 DEF Walks
  <2>5. producer.fed = 0 /\ producer.state = NewApiStream
    <3>1. PICK k : k = (scenario.kind \in {"api", "cli"})
      OBVIOUS
    <3>2. producer = [fed |-> 0, running |-> k, state |-> NewApiStream]
      BY <1>1, <1>3, <3>1
    <3> QED
      BY <3>2
  <2>6. Placed(blocks, 0, NewApiStream)
    <3>1. CallNumber(blocks, 1) = 0
      <4>1. 1 \in Nat /\ 1 > 0
        OBVIOUS
      <4> QED
        BY <4>1, CallNumberNext
    <3>2. NewApiStream.blocks = <<>> /\ NewApiStream.toolCallCounter = 0 /\ Len(<<>>) = 0
      BY DEF NewApiStream
    <3>3. 0 + 1 = 1 /\ 1 .. 0 = {}
      OBVIOUS
    <3> QED
      BY <3>1, <3>2, <3>3 DEF Placed
  <2> QED
    BY <2>1, <2>4, <2>5, <2>6
<1> QED
  BY <1>2, <1>3 DEF CallsBooks

\* A line of the CLI tells of no tool use.
LEMMA CliTells ==
    ASSUME NEW prev, NEW evt, NEW r, r = CliEvent(prev, evt), NEW c, r.chunks = <<c>>
    PROVE  c.calls = <<>>
<1>1. \A text, finish : Chunk(text, <<>>, finish).calls = <<>>
  BY DEF Chunk
<1>2. \A x : <<x>> = <<c>> => x = c
  OBVIOUS
<1>3. <<>> # <<c>>
  OBVIOUS
<1>4. CASE evt.type = "assistant"
  <2>1. PICK delta, state : r = [state |-> state, failed |-> FALSE,
                                 chunks |-> IF delta = <<>> THEN <<>> ELSE <<Chunk(delta, <<>>, None)>>]
    BY <1>4 DEF CliEvent
  <2>2. r.chunks = <<>> \/ r.chunks = <<Chunk(delta, <<>>, None)>>
    BY <2>1
  <2> QED
    BY <1>1, <1>2, <1>3, <2>2
<1>5. CASE evt.type = "result"
  <2>1. PICK finish : r = [state |-> prev, chunks |-> <<Chunk(<<>>, <<>>, finish)>>, failed |-> FALSE]
    BY <1>5 DEF CliEvent
  <2>2. r.chunks = <<Chunk(<<>>, <<>>, finish)>>
    BY <2>1
  <2> QED
    BY <1>1, <1>2, <2>2
<1>6. CASE evt.type \notin {"assistant", "result"}
  <2>1. r = [state |-> prev, chunks |-> <<>>, failed |-> FALSE]
    BY <1>6 DEF CliEvent
  <2>2. r.chunks = <<>>
    BY <2>1
  <2> QED
    BY <1>3, <2>2
<1> QED
  BY <1>4, <1>5, <1>6

\* What is enqueued for a chunk at most.
LEMMA MadeTells ==
    ASSUME NEW s, NEW chunks, chunks = <<>> \/ \E c : chunks = <<c>>,
           \A c : chunks = <<c>> => /\ IsSequence(c.calls)
                                    /\ \A k \in DOMAIN c.calls : s.kind = "api" /\ IsCall(s.answer.blocks, c.calls[k])
    PROVE  Told(s, [i \in DOMAIN chunks |-> EventOf(chunks[i])])
<1>1. CASE chunks = <<>>
  <2>1. [i \in DOMAIN chunks |-> EventOf(chunks[i])] = <<>>
    BY <1>1
  <2> QED
    BY <2>1, ToldNone
<1>2. CASE chunks # <<>>
  <2>1. PICK c : chunks = <<c>>
    BY <1>2
  <2>2. PICK e : e = EventOf(c)
    OBVIOUS
  <2>3. Telling(s, e)
    BY <2>1, <2>2, ChunkTells
  <2>4. [i \in DOMAIN chunks |-> EventOf(chunks[i])] = <<e>>
    BY <2>1, <2>2
  <2> QED
    BY <2>3, <2>4, ToldOne
<1> QED
  BY <1>1, <1>2

\* A fragmentless chunk.
LEMMA NoCalls == IsSequence(<<>>) /\ DOMAIN <<>> = {} /\ ErrorChunk.calls = <<>>
<1>1. IsSequence(<<>>) /\ DOMAIN <<>> = {}
  BY OutgoingEmpty DEF Outgoing
<1>2. ErrorChunk.calls = <<>>
  BY DEF ErrorChunk, Chunk
<1> QED
  BY <1>1, <1>2

\* One event of a provider's upstream tells of tool uses, and gets on.
LEMMA ProducedTells ==
    ASSUME OwnWrites, CallsBooks, scenario \in Scenarios, scenario.kind # "http", producer.running,
           producer.fed < Len(Upstream), NEW r, r = Produced(Upstream[producer.fed + 1])
    PROVE  /\ Told(scenario, [i \in DOMAIN r.chunks |-> EventOf(r.chunks[i])])
           /\ scenario.kind = "api" =>
                 \E g : /\ Walk(scenario.answer.blocks, ApiEvents(scenario.answer), g)
                        /\ Placed(scenario.answer.blocks, g[producer.fed + 1], r.state)
<1>1. producer.fed \in Nat /\ scenario.kind \in {"api", "cli"}
  BY DEF OwnWrites
<1>2. CASE scenario.kind = "api"
  <2>1. PICK a, blocks, events, state : /\ a = scenario.answer /\ blocks = a.blocks /\ events = ApiEvents(a)
                                        /\ state = producer.state
    OBVIOUS
  <2>2. PICK n \in Nat : n = producer.fed
    BY <1>1
  <2>3. state \in ApiStates
    BY <1>2, <2>1 DEF OwnWrites
  <2>4. SpeaksAnthropic(a)
    BY <1>2, <2>1, CallsAssumption
  <2>5. IsSequence(events) /\ IsSequence(blocks)
    BY <2>1, <2>4, ApiWalk DEF SpeaksAnthropic
  <2>6. PICK l \in Nat : DOMAIN blocks = 1 .. l
    <3>1. PICK Y : blocks \in Seq(Y)
      BY <2>5 DEF IsSequence
    <3> QED
      BY <3>1
  <2>7. PICK m \in Nat : m = Len(events)
    <3>1. PICK Y : events \in Seq(Y)
      BY <2>5 DEF IsSequence
    <3> QED
      BY <3>1
  <2>8. Upstream = events /\ n < m
    BY <1>2, <2>1, <2>2, <2>7 DEF Upstream
  <2>9. PICK g : Walk(blocks, events, g) /\ Placed(blocks, g[n], state)
    BY <1>2, <2>1, <2>2 DEF CallsBooks
  <2>10. PICK evt : evt = events[n + 1]
    OBVIOUS
  <2>11. g[n] \in Nat /\ g[n + 1] \in Nat /\ Moves(blocks, evt, g[n], g[n + 1])
    <3>1. n + 1 \in 1 .. m /\ n \in 0 .. m /\ n + 1 \in 0 .. m /\ (n + 1) - 1 = n
      BY <2>8
    <3>2. g \in [0 .. m -> Nat] /\ Moves(blocks, events[n + 1], g[(n + 1) - 1], g[n + 1])
      BY <2>7, <2>9, <3>1 DEF Walk
    <3> QED
      BY <2>10, <3>1, <3>2
  <2>12. r = ApiEvent(state, evt)
    BY <1>2, <2>1, <2>2, <2>8, <2>10 DEF Produced
  <2>13. Placed(blocks, g[n + 1], r.state) /\ Tells(blocks, r.chunks)
    BY <2>3, <2>6, <2>9, <2>11, <2>12, ApiStep
  <2>14. r.chunks = <<>> \/ \E c : r.chunks = <<c>>
    BY <2>3, <2>12, ApiMakes
  <2>15. Told(scenario, [i \in DOMAIN r.chunks |-> EventOf(r.chunks[i])])
    <3>1. \A c : r.chunks = <<c>> =>
             /\ IsSequence(c.calls)
             /\ \A k \in DOMAIN c.calls : scenario.kind = "api" /\ IsCall(scenario.answer.blocks, c.calls[k])
      BY <1>2, <2>1, <2>13 DEF Tells
    <3> QED
      BY <2>14, <3>1, MadeTells
  <2> QED
    BY <2>1, <2>2, <2>9, <2>13, <2>15
<1>3. CASE scenario.kind = "cli"
  <2>1. r = CliEvent(producer.state, scenario.events[producer.fed + 1])
    BY <1>3 DEF Produced, Upstream
  <2>2. r.chunks = <<>> \/ \E c : r.chunks = <<c>>
    <3>1. producer.fed + 1 \in DOMAIN scenario.events
      <4>1. IsSequence(scenario.events) /\ producer.fed < Len(scenario.events)
        BY <1>3, ScenariosAssumption DEF Upstream
      <4> QED
        BY <1>1, <4>1 DEF IsSequence
    <3>2. producer.state \in CliStates(scenario)
      BY <1>3 DEF OwnWrites
    <3> QED
      BY <1>3, <2>1, <3>1, <3>2, CliMakes
  <2>3. \A c : r.chunks = <<c>> =>
           /\ IsSequence(c.calls)
           /\ \A k \in DOMAIN c.calls : scenario.kind = "api" /\ IsCall(scenario.answer.blocks, c.calls[k])
    BY <2>1, CliTells, NoCalls
  <2> QED
    BY <1>3, <2>2, <2>3, MadeTells
<1> QED
  BY <1>1, <1>2, <1>3

\* A provider closes its stream, after an error chunk perhaps.
LEMMA CallsClose ==
    ASSUME OwnStreams, CallsBooks, scenario.kind # "http", UNCHANGED <<scenario, written>>,
           NEW failed, NEW chunks, chunks = <<>> \/ chunks = <<ErrorChunk>>, Close(chunks, failed)
    PROVE  CallsBooks'
<1>1. PICK more : more = [i \in DOMAIN chunks |-> EventOf(chunks[i])]
  OBVIOUS
<1>2. Told(scenario, more)
  <2>1. chunks = <<>> \/ \E c : chunks = <<c>>
    OBVIOUS
  <2>2. \A c : chunks = <<c>> => c = ErrorChunk
    OBVIOUS
  <2>3. \A c : chunks = <<c>> =>
           /\ IsSequence(c.calls)
           /\ \A k \in DOMAIN c.calls : scenario.kind = "api" /\ IsCall(scenario.answer.blocks, c.calls[k])
    BY <2>2, NoCalls
  <2> QED
    BY <1>1, <2>1, <2>3, MadeTells
<1>3. Told(scenario, queue) /\ Told(scenario, written)
  BY DEF CallsBooks
<1>4. Told(scenario, queue')
  <2>1. Told(scenario, <<DoneEvent>>)
    BY SilentEvent, ToldOne
  <2>2. Told(scenario, (queue \o more) \o <<DoneEvent>>)
    BY <1>2, <1>3, <2>1, ToldConcat
  <2>3. queue' = queue \/ queue' = (queue \o more) \o <<DoneEvent>>
    BY <1>1 DEF Close
  <2> QED
    BY <1>3, <2>2, <2>3
<1>5. ~producer'.running
  BY DEF Close, OwnStreams
<1> QED
  BY <1>3, <1>4, <1>5, CallsStays

\* An event of a provider is read.
LEMMA CallsReadQueued ==
    ASSUME OwnStreams, OwnWrites, CallsBooks, scenario \in Scenarios, ReadQueued
    PROVE  CallsBooks'
<1>1. /\ queue # <<>> /\ Relay(Serialize(Head(queue), <<LF>>)) /\ queue' = Tail(queue)
      /\ UNCHANGED <<scenario, producer>>
  BY DEF ReadQueued, routeVars
<1>2. scenario.kind # "http" /\ queue \in Seq(OwnEvents) /\ buffer = <<>>
  BY <1>1 DEF OwnStreams, OwnWrites
<1>3. PICK event \in OwnEvents : event = Head(queue)
  BY <1>1, <1>2
<1>4. PICK text : text = Serialize(event, <<LF>>)
  OBVIOUS
<1>5. Push(<<>>, text) = [events |-> <<event>>, buffer |-> <<>>]
  BY <1>4, OwnEventRead DEF OwnEvents
<1>6. PICK p : p = Push(<<>>, text) /\ p.events = <<event>>
  BY <1>5
<1>7. Write(Rendered(pipeline, <<event>>).out)
  BY <1>1, <1>2, <1>3, <1>4, <1>6 DEF Relay
<1>8. Told(scenario, queue) /\ Told(scenario, written)
  BY <1>2 DEF CallsBooks
<1>9. Telling(scenario, event) /\ Told(scenario, queue')
  BY <1>1, <1>3, <1>8, ToldTail
<1>10. PICK shown : shown = Shown(pipeline, event)
  OBVIOUS
<1>11. Telling(scenario, shown)
  <2>1. Textual(event)
    BY DEF OwnEvents
  <2> QED
    BY <1>2, <1>9, <1>10, <2>1, ShownTells
<1>12. Told(scenario, written')
  BY <1>7, <1>8, <1>10, <1>11, RenderedOne, ToldOne, WriteTells
<1> QED
  BY <1>1, <1>9, <1>12, CallsStays

\* A provider's stream has no tail.
LEMMA CallsFinish ==
    ASSUME OwnWrites, CallsBooks, Finish
    PROVE  CallsBooks'
<1>1. UNCHANGED <<scenario, producer, queue>> /\ Write(Drained(pipeline, buffer).out)
  BY DEF Finish, EndRelay, producerVars
<1>2. ASSUME scenario.kind # "http" PROVE Told(scenario, queue') /\ Told(scenario, written')
  <2>1. buffer = <<>>
    BY <1>2 DEF OwnWrites
  <2>2. Drained(pipeline, buffer).out = <<>>
    <3>1. Drained(pipeline, buffer) = Rendered(pipeline, <<>>)
      BY <2>1, NoBlockNoEvent DEF Drained, Flush
    <3> QED
      BY <3>1, RenderedOne
  <2>3. Told(scenario, queue) /\ Told(scenario, written)
    BY <1>2 DEF CallsBooks
  <2>4. Told(scenario, written')
    BY <1>1, <2>2, <2>3, ToldNone, WriteTells
  <2> QED
    BY <1>1, <2>3, <2>4
<1> QED
  BY <1>1, <1>2, CallsStays

\* What a provider enqueues.
LEMMA CallsProduce ==
    ASSUME OwnStreams, OwnWrites, CallsBooks, scenario \in Scenarios, Produce
    PROVE  CallsBooks'
<1>1. PICK r : r = Produced(Upstream[producer.fed + 1])
  OBVIOUS
<1>2. PICK made : made = [i \in DOMAIN r.chunks |-> EventOf(r.chunks[i])]
  OBVIOUS
<1>3. PICK throws : throws = (r.chunks # <<>> /\ body # "open")
  OBVIOUS
<1>4. /\ producer.running /\ producer.fed < Len(Upstream)
      /\ UNCHANGED <<scenario, written>>
      /\ producer' = [fed |-> producer.fed + 1, state |-> r.state, running |-> ~throws]
      /\ queue' = IF throws THEN queue ELSE queue \o made
  BY <1>1, <1>2, <1>3 DEF Produce, routeVars, relayVars
<1>5. scenario.kind # "http"
  BY <1>4 DEF OwnStreams
<1>6. /\ Told(scenario, made)
      /\ scenario.kind = "api" =>
            \E g : /\ Walk(scenario.answer.blocks, ApiEvents(scenario.answer), g)
                   /\ Placed(scenario.answer.blocks, g[producer.fed + 1], r.state)
  BY <1>1, <1>2, <1>4, <1>5, ProducedTells
<1>7. Told(scenario, queue) /\ Told(scenario, written)
  BY <1>5 DEF CallsBooks
<1>8. Told(scenario, queue')
  BY <1>4, <1>6, <1>7, ToldConcat
<1>9. producer'.fed = producer.fed + 1 /\ producer'.state = r.state
  BY <1>4
<1>10. scenario'.kind = "api" =>
          \E g : /\ Walk(scenario'.answer.blocks, ApiEvents(scenario'.answer), g)
                 /\ Placed(scenario'.answer.blocks, g[producer'.fed], producer'.state)
  BY <1>4, <1>6, <1>9
<1>11. Told(scenario', queue') /\ Told(scenario', written')
  BY <1>4, <1>7, <1>8
<1> QED
  BY <1>10, <1>11 DEF CallsBooks

\* What is told is told by every step.
LEMMA CallsStep ==
    RelayIInv /\ OwnWrites /\ TextBooks /\ CallsBooks /\ [Next]_vars => CallsBooks'
<1> SUFFICES ASSUME RelayIInv, OwnWrites, TextBooks, CallsBooks, [Next]_vars
             PROVE  CallsBooks'
  OBVIOUS
<1>1. OwnStreams /\ scenario \in Scenarios
  BY DEF RelayIInv, TextBooks
<1>2. scenario.kind # "http" => Told(scenario, queue) /\ Told(scenario, written)
  BY DEF CallsBooks
<1>3. ASSUME UNCHANGED <<scenario, queue, written>>, producer'.running => producer' = producer
      PROVE  CallsBooks'
  BY <1>2, <1>3, CallsStays
<1>4. ASSUME UNCHANGED <<scenario, producer, queue>>, NEW event \in {DoneEvent, KeepAlive}, Write(<<event>>)
      PROVE  CallsBooks'
  <2>1. Told(scenario, <<event>>)
    BY SilentEvent, ToldOne
  <2>2. scenario.kind # "http" => Told(scenario, queue') /\ Told(scenario, written')
    BY <1>2, <1>4, <2>1, WriteTells
  <2> QED
    BY <1>4, <2>2, CallsStays
<1>5. CASE Routed
  <2>1. UNCHANGED <<scenario, producer, queue, written>>
    BY <1>5 DEF Routed, relayVars, producerVars
  <2> QED
    BY <1>3, <2>1
<1>6. CASE RoutedWithoutBody
  <2>1. Write(<<DoneEvent>>) /\ UNCHANGED <<scenario, producer, queue>>
    BY <1>6 DEF RoutedWithoutBody, producerVars
  <2> QED
    BY <1>4, <2>1
<1>7. CASE RouteFails
  <2>1. producer' = [producer EXCEPT !.running = FALSE] /\ UNCHANGED <<scenario, queue, written>>
    BY <1>7 DEF RouteFails, relayVars
  <2>2. ~producer'.running
    BY <1>1, <2>1 DEF OwnStreams
  <2> QED
    BY <1>3, <2>1, <2>2
<1>8. CASE ClientLeaves
  <2>1. queue' \in {<<>>, queue} /\ UNCHANGED <<scenario, producer, written>>
    BY <1>8 DEF ClientLeaves, relayVars
  <2>2. scenario.kind # "http" => Told(scenario, queue') /\ Told(scenario, written')
    BY <1>2, <2>1, ToldNone
  <2> QED
    BY <2>1, <2>2, CallsStays
<1>9. CASE Read
  <2>1. scenario.kind = "http" /\ UNCHANGED <<scenario, producer>>
    BY <1>9 DEF Read, routeVars
  <2> QED
    BY <2>1, CallsStays
<1>10. CASE ReadQueued
  BY <1>1, <1>10, CallsReadQueued
<1>11. CASE Finish
  BY <1>11, CallsFinish
<1>12. CASE FinishBroken
  <2>1. UNCHANGED <<scenario, producer, queue, written>>
    BY <1>12 DEF FinishBroken, NothingToRead, EndRelay, relayVars, producerVars
  <2> QED
    BY <1>3, <2>1
<1>13. CASE Heartbeat
  <2>1. Write(<<KeepAlive>>) /\ UNCHANGED <<scenario, producer, queue>>
    BY <1>13 DEF Heartbeat, routeVars, producerVars
  <2> QED
    BY <1>4, <2>1
<1>14. CASE UpstreamEnds
  <2>1. UNCHANGED <<scenario, producer, queue, written>>
    BY <1>14 DEF UpstreamEnds, routeVars, relayVars
  <2> QED
    BY <1>3, <2>1
<1>15. CASE Produce
  BY <1>1, <1>15, CallsProduce
<1>16. ASSUME producer.running, NEW chunks, NEW failed, chunks = <<>> \/ chunks = <<ErrorChunk>>,
              Close(chunks, failed), UNCHANGED <<routeVars, relayVars>>
       PROVE  CallsBooks'
  <2>1. UNCHANGED <<scenario, written>>
    BY <1>16 DEF routeVars, relayVars
  <2>2. scenario.kind # "http"
    BY <1>1, <1>16 DEF OwnStreams
  <2> QED
    BY <1>1, <1>16, <2>1, <2>2, CallsClose
<1>17. CASE ProducerEnds
  BY <1>16, <1>17 DEF ProducerEnds
<1>18. CASE ProducerBreaks
  BY <1>16, <1>18 DEF ProducerBreaks
<1>19. CASE UNCHANGED vars
  <2>1. UNCHANGED <<scenario, producer, queue, written>>
    BY <1>19 DEF vars
  <2> QED
    BY <1>3, <2>1
<1> QED
  BY <1>5, <1>6, <1>7, <1>8, <1>9, <1>10, <1>11, <1>12, <1>13, <1>14, <1>15, <1>17, <1>18, <1>19
     DEF Next, Ended

\* A client of a claude provider can put the calls together.
LEMMA OwnCallsApart ==
    ASSUME scenario \in Scenarios, scenario.kind # "http", CallsBooks
    PROVE  CallsStayApart
<1>1. PICK E : written \in Seq(E) /\ \A e \in E : Telling(scenario, e)
  BY DEF CallsBooks, Told
<1>2. PICK P : P = {e \in E : Parses(e)}
  OBVIOUS
<1>3. PICK C : C = UNION {{ChunkOf(e).calls[k] : k \in DOMAIN ChunkOf(e).calls} : e \in P}
  OBVIOUS
<1>4. ASSUME NEW f \in C PROVE scenario.kind = "api" /\ IsCall(scenario.answer.blocks, f)
  <2>1. PICK e \in P : \E k \in DOMAIN ChunkOf(e).calls : f = ChunkOf(e).calls[k]
    BY <1>3
  <2> QED
    BY <1>1, <1>2, <2>1 DEF Telling
<1>5. Apart(C)
  <2>1. CASE scenario.kind = "api"
    <3>1. SpeaksAnthropic(scenario.answer)
      BY <2>1, CallsAssumption
    <3> QED
      BY <1>4, <3>1, CallsApart
  <2>2. CASE scenario.kind # "api"
    <3>1. C = {}
      BY <1>4, <2>2
    <3> QED
      BY <3>1 DEF Apart
  <2> QED
    BY <2>1, <2>2
<1>6. ASSUME NEW e \in E PROVE Over(C, e)
  <2> SUFFICES ASSUME Parses(e) PROVE ChunkOf(e).calls \in Seq(C)
    BY DEF Over
  <2>1. PICK calls : calls = ChunkOf(e).calls
    OBVIOUS
  <2>2. IsSequence(calls)
    BY <1>1, <2>1 DEF Telling
  <2>3. {calls[k] : k \in DOMAIN calls} \subseteq C
    BY <1>2, <1>3, <2>1
  <2> QED
    BY <2>1, <2>2, <2>3 DEF IsSequence
<1>7. IsSequence(written) /\ \A i \in DOMAIN written : Over(C, written[i])
  BY <1>1, <1>6, SequenceFacts
<1> QED
  BY <1>5, <1>7, FragmentsOver

\* Whatever the upstream and however it streams its tool calls, as long as it streams them as
\* OpenAI, Gemini, Ollama or the Messages API do (CallsAssumption), the client can put every
\* call together: fragments have one index exactly if they belong to one call
\* (indexForToolCall, fixToolCall, content_block_start).
THEOREM CallsKeptApart == Spec => []CallsStayApart
<1>1. ClientSeesEvents /\ TextBooks /\ CallsBooks => CallsStayApart
  <2> SUFFICES ASSUME ClientSeesEvents, TextBooks, CallsBooks PROVE CallsStayApart
    OBVIOUS
  <2>1. scenario \in Scenarios /\ IsSequence(written)
    BY DEF TextBooks, Texted
  <2> QED
    BY <2>1, HttpCallsApart, OwnCallsApart
<1> QED
  BY <1>1, ClientSeesItsEvents, RelayInit, RelayStep, HttpInit, HttpStep, OwnInit, OwnStep, CallsInit,
     CallsStep, PTL DEF Spec
=============================================================================
