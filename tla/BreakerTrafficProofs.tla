------------------------ MODULE BreakerTrafficProofs ------------------------
(***************************************************************************)
(* Proofs about one circuit breaker under any number of concurrent calls,  *)
(* for every threshold and timeout.                                        *)
(***************************************************************************)
EXTENDS BreakerTraffic, TLAPS

\* Each method maps a well-formed breaker to a well-formed breaker.
LEMMA MethodsTyped ==
    ASSUME NEW b \in Breaker, NEW t \in Int
    PROVE  /\ GetState(b, t) \in Breaker
           /\ Trip(t) \in Breaker
           /\ ResetBreaker \in Breaker
           /\ BreakerSuccess(b, t) \in Breaker
           /\ BreakerFailure(b, t) \in Breaker
<1> USE BreakerAssumption, NoneAssumption DEF Breaker, BreakerState
<1>1. Trip(t) \in Breaker /\ ResetBreaker \in Breaker
  BY DEF Trip, ResetBreaker, NewBreaker
<1>2. GetState(b, t) \in Breaker
  BY DEF GetState
<1>3. BreakerSuccess(b, t) \in Breaker
  BY <1>1, <1>2 DEF BreakerSuccess
<1>4. BreakerFailure(b, t) \in Breaker
  BY <1>1, <1>2 DEF BreakerFailure
<1> QED
  BY <1>1, <1>2, <1>3, <1>4

LEMMA InitInv == Init => BreakerInv
  BY BreakerAssumption, NoneAssumption
  DEF Init, BreakerInv, TypeOK, Consistent, NewBreaker, Breaker, BreakerState

\* Reading the state keeps the breaker consistent, and leaves it open only
\* while the timeout of its last trip runs.
LEMMA ReadConsistent ==
    ASSUME BreakerInv
    PROVE  /\ Consistent(GetState(breaker, now), recent, tripAt, now)
           /\ breaker.state # "open" => GetState(breaker, now) = breaker
           /\ breaker.state = "open" => GetState(breaker, now).state # "closed"
           /\ GetState(breaker, now).state = "open"
                 => GetState(breaker, now) = breaker /\ now < tripAt + BreakerTimeout
<1> USE BreakerAssumption, NoneAssumption
<1>1. CASE breaker.state = "open" /\ now >= NextAttempt(breaker)
  <2>1. NextAttempt(breaker) = tripAt + BreakerTimeout
    BY <1>1 DEF BreakerInv, TypeOK, Consistent, NextAttempt
  <2>2. /\ GetState(breaker, now).state = "half_open"
        /\ GetState(breaker, now).successes = 0
        /\ GetState(breaker, now).failures = breaker.failures
        /\ GetState(breaker, now).nextAttemptAt = breaker.nextAttemptAt
    BY <1>1 DEF GetState, BreakerInv, TypeOK, Breaker
  <2>3. QED
    BY <1>1, <2>1, <2>2 DEF BreakerInv, TypeOK, Consistent, Breaker
<1>2. CASE breaker.state = "open" /\ ~(now >= NextAttempt(breaker))
  <2>1. NextAttempt(breaker) = tripAt + BreakerTimeout
    BY <1>2 DEF BreakerInv, TypeOK, Consistent, NextAttempt
  <2>2. GetState(breaker, now) = breaker
    BY <1>2 DEF GetState
  <2>3. QED
    BY <1>2, <2>1, <2>2 DEF BreakerInv, TypeOK, Consistent
<1>3. CASE breaker.state # "open"
  BY <1>3 DEF GetState, BreakerInv
<1> QED
  BY <1>1, <1>2, <1>3

LEMMA NextInv == BreakerInv /\ [Next]_vars => BreakerInv'
<1> SUFFICES ASSUME BreakerInv, [Next]_vars PROVE BreakerInv'
  OBVIOUS
<1> USE BreakerAssumption, NoneAssumption, TrafficAssumption
<1> DEFINE g == GetState(breaker, now)
<1>1. /\ breaker \in Breaker
      /\ now \in Int
      /\ g \in Breaker
      /\ calls \in [Callers -> BreakerState \cup {"idle"}]
      /\ recent.failures \in Nat /\ recent.successes \in Nat
      /\ tripAt \in Int \cup {None}
  BY MethodsTyped DEF BreakerInv, TypeOK
<1>g. /\ Consistent(g, recent, tripAt, now)
      /\ g.state = "open" => g = breaker
  BY ReadConsistent
<1> HIDE DEF g
<1>2. ASSUME NEW c \in Callers, Admit(c) PROVE BreakerInv'
  <2>1. breaker' = g /\ UNCHANGED <<now, recent, tripAt>>
    BY <1>2 DEF Admit, g
  <2>2. calls' \in [Callers -> BreakerState \cup {"idle"}]
    BY <1>1, <1>2 DEF Admit, g, Breaker
  <2>3. QED
    BY <1>1, <1>g, <2>1, <2>2 DEF BreakerInv, TypeOK
<1>3. ASSUME NEW c \in Callers, Succeed(c) PROVE BreakerInv'
  <2>1. /\ recent' \in [failures : Nat, successes : Nat]
        /\ recent'.failures = 0
        /\ recent.successes < SuccessThreshold => recent'.successes = recent.successes + 1
        /\ recent.successes >= SuccessThreshold => recent'.successes = recent.successes
    BY <1>1, <1>3 DEF Succeed, CountPassed
  <2>2. /\ calls' \in [Callers -> BreakerState \cup {"idle"}]
        /\ now' = now
        /\ breaker' = BreakerSuccess(breaker, now)
        /\ breaker' \in Breaker
        /\ tripAt' = IF breaker'.state = "closed" THEN None ELSE tripAt
    BY <1>1, <1>3, MethodsTyped DEF Succeed
  <2>3. CASE g.state = "half_open" /\ g.successes + 1 >= SuccessThreshold
    <3>1. breaker' = ResetBreaker
      BY <2>2, <2>3 DEF BreakerSuccess, g
    <3>2. QED
      BY <1>1, <2>1, <2>2, <3>1
      DEF BreakerInv, TypeOK, Consistent, ResetBreaker, NewBreaker
  <2>4. CASE g.state = "half_open" /\ ~(g.successes + 1 >= SuccessThreshold)
    <3>1. breaker' = [g EXCEPT !.successes = @ + 1]
      BY <2>2, <2>4 DEF BreakerSuccess, g
    <3>2. /\ breaker'.state = "half_open"
          /\ breaker'.failures = g.failures
          /\ breaker'.successes = g.successes + 1
          /\ breaker'.nextAttemptAt = g.nextAttemptAt
      BY <1>1, <2>4, <3>1 DEF Breaker
    <3>3. QED
      BY <1>1, <1>g, <2>1, <2>2, <2>4, <3>2 DEF BreakerInv, TypeOK, Consistent, Breaker
  <2>5. CASE g.state = "closed"
    <3>1. breaker' = [g EXCEPT !.failures = 0]
      BY <2>2, <2>5 DEF BreakerSuccess, g
    <3>2. /\ breaker'.state = "closed"
          /\ breaker'.failures = 0
          /\ breaker'.successes = g.successes
          /\ breaker'.nextAttemptAt = g.nextAttemptAt
      BY <1>1, <2>5, <3>1 DEF Breaker
    <3>3. QED
      BY <1>1, <1>g, <2>1, <2>2, <2>5, <3>2 DEF BreakerInv, TypeOK, Consistent, Breaker
  <2>6. CASE g.state = "open"
    <3>1. breaker' = g
      BY <2>2, <2>6 DEF BreakerSuccess, g
    <3>2. QED
      BY <1>1, <1>g, <2>1, <2>2, <2>6, <3>1 DEF BreakerInv, TypeOK, Consistent, Breaker
  <2> QED
    BY <1>1, <2>3, <2>4, <2>5, <2>6 DEF Breaker, BreakerState
<1>4. ASSUME NEW c \in Callers, Fail(c) PROVE BreakerInv'
  <2>1. /\ recent' \in [failures : Nat, successes : Nat]
        /\ recent'.successes = 0
        /\ recent.failures < FailureThreshold => recent'.failures = recent.failures + 1
        /\ recent.failures >= FailureThreshold => recent'.failures = recent.failures
    BY <1>1, <1>4 DEF Fail, CountFailed
  <2>2. /\ calls' \in [Callers -> BreakerState \cup {"idle"}]
        /\ now' = now
        /\ breaker' = BreakerFailure(breaker, now)
        /\ breaker' \in Breaker
        /\ tripAt' = IF breaker'.state = "open" /\ g.state # "open" THEN now ELSE tripAt
    BY <1>1, <1>4, MethodsTyped DEF Fail, g
  <2>3. CASE \/ g.state = "half_open"
             \/ g.state = "closed" /\ g.failures + 1 >= FailureThreshold
    <3>1. breaker' = Trip(now)
      BY <2>2, <2>3 DEF BreakerFailure, g
    <3>2. QED
      BY <1>1, <2>1, <2>2, <2>3, <3>1 DEF BreakerInv, TypeOK, Consistent, Trip
  <2>4. CASE g.state = "closed" /\ ~(g.failures + 1 >= FailureThreshold)
    <3>1. breaker' = [g EXCEPT !.failures = @ + 1]
      BY <2>2, <2>4 DEF BreakerFailure, g
    <3>2. /\ breaker'.state = "closed"
          /\ breaker'.failures = g.failures + 1
          /\ breaker'.successes = g.successes
          /\ breaker'.nextAttemptAt = g.nextAttemptAt
      BY <1>1, <2>4, <3>1 DEF Breaker
    <3>3. QED
      BY <1>1, <1>g, <2>1, <2>2, <2>4, <3>2 DEF BreakerInv, TypeOK, Consistent, Breaker
  <2>5. CASE g.state = "open"
    <3>1. breaker' = g
      BY <2>2, <2>5 DEF BreakerFailure, g
    <3>2. QED
      BY <1>1, <1>g, <2>1, <2>2, <2>5, <3>1 DEF BreakerInv, TypeOK, Consistent, Breaker
  <2> QED
    BY <1>1, <2>3, <2>4, <2>5 DEF Breaker, BreakerState
<1>5. ASSUME NEW c \in Callers, EndUnreported(c) PROVE BreakerInv'
  BY <1>5 DEF EndUnreported, BreakerInv, TypeOK
<1>6. CASE Observe
  BY <1>1, <1>g, <1>6 DEF Observe, BreakerInv, TypeOK, g
<1>7. CASE AdminReset
  BY <1>1, <1>7, MethodsTyped
  DEF AdminReset, BreakerInv, TypeOK, Consistent, ResetBreaker, NewBreaker
<1>8. CASE Tick
  BY <1>1, <1>8 DEF Tick, BreakerInv, TypeOK, Consistent
<1>9. CASE UNCHANGED vars
  BY <1>9 DEF vars, BreakerInv, TypeOK
<1> QED
  BY <1>2, <1>3, <1>4, <1>5, <1>6, <1>7, <1>8, <1>9 DEF Next

\* The breaker's state and counters always agree with its history.
THEOREM BreakerInvariant == Spec => []BreakerInv
  BY InitInv, NextInv, PTL DEF Spec

\* What a report can do to the state of a breaker whose state reads as g.
LEMMA ReportMoves ==
    ASSUME BreakerInv
    PROVE  LET g == GetState(breaker, now) IN
           /\ g.state = "open" =>
                 /\ BreakerSuccess(breaker, now).state = "open"
                 /\ BreakerFailure(breaker, now).state = "open"
           /\ g.state = "closed" =>
                 /\ BreakerSuccess(breaker, now).state = "closed"
                 /\ BreakerFailure(breaker, now).state = "open"
                       => breaker.failures + 1 >= FailureThreshold
           /\ g.state = "half_open" =>
                 /\ BreakerFailure(breaker, now).state = "open"
                 /\ BreakerSuccess(breaker, now).state = "closed"
                       => g.successes + 1 >= SuccessThreshold
                 /\ BreakerSuccess(breaker, now).state # "open"
<1> DEFINE g == GetState(breaker, now)
<1>1. g \in Breaker /\ (breaker.state # "open" => g = breaker)
         /\ (breaker.state = "open" => g.state # "closed")
  BY MethodsTyped, ReadConsistent DEF BreakerInv, TypeOK
<1>2. /\ BreakerSuccess(breaker, now) =
            CASE g.state = "half_open" ->
                   IF g.successes + 1 >= SuccessThreshold
                   THEN ResetBreaker
                   ELSE [g EXCEPT !.successes = @ + 1]
              [] g.state = "closed" -> [g EXCEPT !.failures = 0]
              [] g.state = "open"   -> g
      /\ BreakerFailure(breaker, now) =
            CASE g.state = "half_open" -> Trip(now)
              [] g.state = "closed" ->
                   IF g.failures + 1 >= FailureThreshold
                   THEN Trip(now)
                   ELSE [g EXCEPT !.failures = @ + 1]
              [] g.state = "open" -> g
  BY DEF BreakerSuccess, BreakerFailure
<1>3. /\ ResetBreaker.state = "closed"
      /\ Trip(now).state = "open"
      /\ [g EXCEPT !.successes = @ + 1].state = g.state
      /\ [g EXCEPT !.failures = 0].state = g.state
      /\ [g EXCEPT !.failures = @ + 1].state = g.state
  BY <1>1 DEF Breaker, ResetBreaker, NewBreaker, Trip
<1> HIDE DEF g
<1>4. CASE g.state = "open"
  BY <1>2, <1>4 DEF g
<1>5. CASE g.state = "closed"
  <2>1. g = breaker
    BY <1>1, <1>5 DEF BreakerInv, TypeOK, Breaker, BreakerState
  <2>2. QED
    BY <1>2, <1>3, <1>5, <2>1 DEF g
<1>6. CASE g.state = "half_open"
  BY <1>2, <1>3, <1>6 DEF g
<1> QED
  BY <1>1, <1>4, <1>5, <1>6 DEF Breaker, BreakerState, g

\* Nobody calls the provider while the timeout of a trip is running.
THEOREM OpenBreakerIsQuiet == Spec => OpenIsQuiet
<1>1. BreakerInv /\ [Next]_vars
        => [\A c \in Callers :
              calls[c] = "idle" /\ calls'[c] # "idle" =>
                 tripAt = None \/ now >= tripAt + BreakerTimeout]_vars
  <2> SUFFICES ASSUME BreakerInv, Next, NEW c \in Callers,
                      calls[c] = "idle", calls'[c] # "idle"
               PROVE  tripAt = None \/ now >= tripAt + BreakerTimeout
    BY DEF vars
  <2>1. IsAllowed(breaker, now)
    BY DEF Next, Admit, Succeed, Fail, EndUnreported, Observe, AdminReset,
           Tick, BreakerInv, TypeOK
  <2>2. CASE breaker.state = "closed"
    BY <2>2 DEF BreakerInv, Consistent
  <2>3. CASE breaker.state # "closed"
    <3>1. GetState(breaker, now).state = "half_open"
      <4>1. GetState(breaker, now) \in Breaker
        BY MethodsTyped DEF BreakerInv, TypeOK
      <4>2. GetState(breaker, now).state # "closed"
        BY <2>3, ReadConsistent
      <4> QED
        BY <2>1, <4>1, <4>2 DEF IsAllowed, Breaker, BreakerState
    <3>2. QED
      BY <3>1, ReadConsistent DEF Consistent
  <2> QED
    BY <2>2, <2>3
<1>2. QED
  BY <1>1, BreakerInvariant, PTL DEF Spec, OpenIsQuiet

\* It takes FailureThreshold failures in a row to open a closed breaker.
THEOREM TripNeedsStreak == Spec => TripsAfterStreak
<1>1. BreakerInv /\ [Next]_vars
        => [breaker.state = "closed" /\ breaker'.state = "open" =>
              recent'.failures >= FailureThreshold]_vars
  <2> SUFFICES ASSUME BreakerInv, Next, breaker.state = "closed", breaker'.state = "open"
               PROVE  recent'.failures >= FailureThreshold
    BY DEF vars
  <2>1. /\ GetState(breaker, now) = breaker
        /\ breaker.failures \in Nat /\ recent.failures \in Nat
        /\ breaker.failures <= recent.failures
    BY ReadConsistent DEF BreakerInv, Consistent, TypeOK, Breaker
  <2>2. \E c \in Callers : Fail(c)
    <3>1. BreakerSuccess(breaker, now).state # "open"
      BY <2>1, ReportMoves
    <3>2. ResetBreaker.state # "open"
      BY DEF ResetBreaker, NewBreaker
    <3> QED
      BY <2>1, <3>1, <3>2 DEF Next, Admit, Succeed, EndUnreported, Observe, AdminReset, Tick
  <2>3. breaker' = BreakerFailure(breaker, now) /\ recent' = CountFailed
    BY <2>2 DEF Fail
  <2>4. breaker.failures + 1 >= FailureThreshold
    BY <2>1, <2>3, ReportMoves
  <2>5. QED
    BY <2>1, <2>3, <2>4, BreakerAssumption, NoneAssumption DEF CountFailed
<1>2. QED
  BY <1>1, BreakerInvariant, PTL DEF Spec, TripsAfterStreak

\* It takes SuccessThreshold successes in a row, or the operator, to close it.
THEOREM CloseNeedsStreak == Spec => ClosesAfterStreak
<1>1. BreakerInv /\ [Next]_vars
        => [breaker.state # "closed" /\ breaker'.state = "closed" =>
              AdminReset \/ recent'.successes >= SuccessThreshold]_vars
  <2> SUFFICES ASSUME BreakerInv, Next, breaker.state # "closed",
                      breaker'.state = "closed", ~AdminReset
               PROVE  recent'.successes >= SuccessThreshold
    BY DEF vars
  <2> DEFINE g == GetState(breaker, now)
  <2>1. /\ g.state # "closed"
        /\ g \in Breaker
        /\ recent.successes \in Nat
        /\ Consistent(g, recent, tripAt, now)
    BY ReadConsistent, MethodsTyped DEF BreakerInv, TypeOK
  <2>2. \E c \in Callers : Succeed(c)
    <3>1. BreakerFailure(breaker, now).state # "closed"
      BY <2>1, ReportMoves DEF Breaker, BreakerState
    <3> QED
      BY <2>1, <3>1 DEF Next, Admit, Fail, EndUnreported, Observe, Tick
  <2>3. breaker' = BreakerSuccess(breaker, now) /\ recent' = CountPassed
    BY <2>2 DEF Succeed
  <2>4. g.successes + 1 >= SuccessThreshold
    BY <2>1, <2>3, ReportMoves DEF Breaker, BreakerState
  <2>5. g.successes \in Nat /\ g.successes <= recent.successes
    BY <2>1 DEF Consistent, Breaker
  <2>6. QED
    BY <2>1, <2>3, <2>4, <2>5, BreakerAssumption, NoneAssumption DEF CountPassed
<1>2. QED
  BY <1>1, BreakerInvariant, PTL DEF Spec, ClosesAfterStreak

(***************************************************************************)
(* Refinement: the lazy breaker behaves like one with a timer.             *)
(***************************************************************************)
LEMMA InitTimed == Init => Timed!TInit
  BY DEF Init, Timed!TInit, Seen, GetState, NewBreaker

LEMMA NextTimed == BreakerInv /\ BreakerInv' /\ [Next]_vars => [Timed!TNext]_Timed!tvars
<1> SUFFICES ASSUME BreakerInv, BreakerInv', [Next]_vars
             PROVE  [Timed!TNext]_Timed!tvars
  OBVIOUS
<1> USE BreakerAssumption, NoneAssumption
<1>1. /\ Seen \in Breaker
      /\ Consistent(Seen, recent, tripAt, now)
      /\ now \in Int
      /\ GetState(Seen, now) = Seen
  BY ReadConsistent, MethodsTyped DEF BreakerInv, TypeOK, Seen, GetState
<1>2. CASE \/ \E c \in Callers : Admit(c) \/ EndUnreported(c)
           \/ Observe
           \/ UNCHANGED vars
  <2>1. now' = now /\ breaker' \in {breaker, Seen}
    BY <1>2 DEF Admit, EndUnreported, Observe, vars, Seen
  <2>2. Seen' = Seen
    BY <1>1, <2>1 DEF Seen
  <2> QED
    BY <2>1, <2>2 DEF Timed!tvars
<1>3. ASSUME NEW c \in Callers, Succeed(c)
      PROVE  [Timed!TNext]_Timed!tvars
  <2>1. now' = now /\ breaker' = BreakerSuccess(breaker, now)
    BY <1>3 DEF Succeed
  <2>2. Seen' = GetState(BreakerSuccess(breaker, now), now)
    BY <2>1 DEF Seen
  <2>3. CASE Seen.state = "half_open" /\ Seen.successes + 1 >= SuccessThreshold
    <3>1. BreakerSuccess(breaker, now) = NewBreaker
      BY <2>3 DEF BreakerSuccess, Seen, ResetBreaker
    <3>2. Seen' = NewBreaker
      BY <2>2, <3>1 DEF GetState, NewBreaker
    <3>3. Timed!CountSuccess
      BY <2>3, <3>2 DEF Timed!CountSuccess, Timed!Close, NewBreaker
    <3> QED
      BY <2>1, <3>3 DEF Timed!TNext, Timed!Report
  <2>4. CASE Seen.state = "half_open" /\ ~(Seen.successes + 1 >= SuccessThreshold)
    <3>1. BreakerSuccess(breaker, now) = [Seen EXCEPT !.successes = @ + 1]
      BY <2>4 DEF BreakerSuccess, Seen
    <3>2. /\ Seen'.state = "half_open"
          /\ Seen'.successes = Seen.successes + 1
          /\ Seen'.failures = Seen.failures
          /\ Seen'.nextAttemptAt = Seen.nextAttemptAt
      BY <1>1, <2>2, <2>4, <3>1 DEF GetState, Breaker
    <3>3. Timed!CountSuccess
      BY <1>1, <2>4, <3>2 DEF Timed!CountSuccess, Breaker
    <3> QED
      BY <2>1, <3>3 DEF Timed!TNext, Timed!Report
  <2>5. CASE Seen.state = "closed"
    <3>1. BreakerSuccess(breaker, now) = [Seen EXCEPT !.failures = 0]
      BY <2>5 DEF BreakerSuccess, Seen
    <3>2. /\ Seen'.state = "closed"
          /\ Seen'.successes = Seen.successes
          /\ Seen'.failures = 0
          /\ Seen'.nextAttemptAt = Seen.nextAttemptAt
      BY <1>1, <2>2, <2>5, <3>1 DEF GetState, Breaker
    <3>3. Timed!CountSuccess
      BY <2>5, <3>2 DEF Timed!CountSuccess
    <3> QED
      BY <2>1, <3>3 DEF Timed!TNext, Timed!Report
  <2>6. CASE Seen.state = "open"
    <3>1. Seen' = Seen
      BY <1>1, <2>2, <2>6 DEF BreakerSuccess, Seen
    <3> QED
      BY <2>1, <3>1 DEF Timed!tvars
  <2> QED
    BY <1>1, <2>3, <2>4, <2>5, <2>6 DEF Breaker, BreakerState
<1>4. ASSUME NEW c \in Callers, Fail(c)
      PROVE  [Timed!TNext]_Timed!tvars
  <2>1. now' = now /\ breaker' = BreakerFailure(breaker, now)
    BY <1>4 DEF Fail
  <2>2. Seen' = GetState(BreakerFailure(breaker, now), now)
    BY <2>1 DEF Seen
  <2>3. CASE \/ Seen.state = "half_open"
             \/ Seen.state = "closed" /\ Seen.failures + 1 >= FailureThreshold
    <3>1. BreakerFailure(breaker, now) = Trip(now)
      BY <2>3 DEF BreakerFailure, Seen
    <3>2. Seen' = GetState(Trip(now), now)
      BY <2>2, <3>1
    <3>3. /\ Trip(now).state = "open"
          /\ NextAttempt(Trip(now)) = now + BreakerTimeout
      BY <1>1 DEF Trip, NextAttempt
    <3>4. /\ Seen'.state = IF BreakerTimeout > 0 THEN "open" ELSE "half_open"
          /\ Seen'.failures = 0
          /\ Seen'.successes = 0
          /\ Seen'.nextAttemptAt = now + BreakerTimeout
      <4>1. CASE BreakerTimeout > 0
        <5>1. ~(now >= now + BreakerTimeout)
          BY <1>1, <4>1
        <5> QED
          BY <3>2, <3>3, <4>1, <5>1 DEF GetState, Trip
      <4>2. CASE ~(BreakerTimeout > 0)
        <5>1. now >= now + BreakerTimeout
          BY <1>1, <4>2
        <5> QED
          BY <3>2, <3>3, <4>2, <5>1 DEF GetState, Trip
      <4> QED
        BY <4>1, <4>2
    <3>5. Timed!CountFailure
      BY <2>3, <3>4 DEF Timed!CountFailure, Timed!Open
    <3> QED
      BY <2>1, <3>5 DEF Timed!TNext, Timed!Report
  <2>4. CASE Seen.state = "closed" /\ ~(Seen.failures + 1 >= FailureThreshold)
    <3>1. BreakerFailure(breaker, now) = [Seen EXCEPT !.failures = @ + 1]
      BY <2>4 DEF BreakerFailure, Seen
    <3>2. /\ Seen'.state = "closed"
          /\ Seen'.successes = Seen.successes
          /\ Seen'.failures = Seen.failures + 1
          /\ Seen'.nextAttemptAt = Seen.nextAttemptAt
      BY <1>1, <2>2, <2>4, <3>1 DEF GetState, Breaker
    <3>3. Timed!CountFailure
      BY <1>1, <2>4, <3>2 DEF Timed!CountFailure, Breaker
    <3> QED
      BY <2>1, <3>3 DEF Timed!TNext, Timed!Report
  <2>5. CASE Seen.state = "open"
    <3>1. Seen' = Seen
      BY <1>1, <2>2, <2>5 DEF BreakerFailure, Seen
    <3> QED
      BY <2>1, <3>1 DEF Timed!tvars
  <2> QED
    BY <1>1, <2>3, <2>4, <2>5 DEF Breaker, BreakerState
<1>5. CASE AdminReset
  <2>1. now' = now /\ breaker' = NewBreaker
    BY <1>5 DEF AdminReset, ResetBreaker
  <2>2. Seen' = NewBreaker
    BY <2>1 DEF Seen, GetState, NewBreaker
  <2> QED
    BY <2>1, <2>2 DEF Timed!TNext, Timed!Report, Timed!Close, NewBreaker
<1>6. CASE Tick
  <2>1. now' = now + 1 /\ breaker' = breaker
    BY <1>6 DEF Tick
  <2>2. Seen' = GetState(breaker, now + 1)
    BY <2>1 DEF Seen
  <2>3. CASE Seen.state = "open"
    <3>1. Seen = breaker /\ NextAttempt(breaker) = breaker.nextAttemptAt
      BY <2>3, ReadConsistent DEF Seen, NextAttempt, Consistent, BreakerInv, TypeOK
    <3>2. CASE now + 1 >= NextAttempt(breaker)
      <4>1. /\ Seen'.state = "half_open"
            /\ Seen'.successes = 0
            /\ Seen'.failures = Seen.failures
            /\ Seen'.nextAttemptAt = Seen.nextAttemptAt
        BY <1>1, <2>2, <2>3, <3>1, <3>2 DEF GetState, Breaker
      <4>2. Seen.successes = 0
        BY <1>1, <2>3 DEF Consistent
      <4> QED
        BY <2>1, <2>3, <3>1, <3>2, <4>1, <4>2 DEF Timed!TNext, Timed!Elapse
    <3>3. CASE ~(now + 1 >= NextAttempt(breaker))
      <4>1. Seen' = Seen
        BY <2>2, <3>1, <3>3 DEF GetState
      <4> QED
        BY <2>1, <2>3, <3>1, <3>3, <4>1 DEF Timed!TNext, Timed!Elapse
    <3> QED
      BY <3>2, <3>3
  <2>4. CASE Seen.state # "open"
    <3>1. Seen' = Seen
      <4>1. CASE breaker.state # "open"
        BY <2>2, <4>1 DEF GetState, Seen
      <4>2. CASE breaker.state = "open"
        <5>1. now >= NextAttempt(breaker)
          BY <2>4, <4>2 DEF Seen, GetState
        <5>2. now + 1 >= NextAttempt(breaker)
          <6>1. NextAttempt(breaker) \in Int
            BY DEF BreakerInv, TypeOK, Breaker, NextAttempt
          <6> QED
            BY <1>1, <5>1, <6>1
        <5> QED
          BY <2>2, <4>2, <5>1, <5>2 DEF GetState, Seen
      <4> QED
        BY <4>1, <4>2
    <3> QED
      BY <2>1, <2>4, <3>1 DEF Timed!TNext, Timed!Elapse
  <2> QED
    BY <2>3, <2>4
<1> QED
  BY <1>2, <1>3, <1>4, <1>5, <1>6 DEF Next

\* The lazily evaluated breaker implements the breaker with a timer.
THEOREM Refinement == Spec => ImplementsTimedBreaker
<1>1. BreakerInv /\ [Next]_vars /\ BreakerInv' => [Timed!TNext]_Timed!tvars
  BY NextTimed
<1>2. QED
  BY <1>1, InitTimed, BreakerInvariant, PTL
  DEF Spec, ImplementsTimedBreaker, Timed!TSpec
=============================================================================
