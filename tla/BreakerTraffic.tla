--------------------------- MODULE BreakerTraffic ---------------------------
(***************************************************************************)
(* One circuit breaker under concurrent calls.  A call is admitted by      *)
(* isAllowed() (BaseProvider.isAvailable, read by the router before each   *)
(* dispatch) and reports its outcome in a later turn of the event loop, so *)
(* outcomes arrive in any order and at any later time: a call admitted     *)
(* while the breaker was closed may report when it is open or half-open.   *)
(* The status page reads the state, the operator resets it.                *)
(***************************************************************************)
EXTENDS CircuitBreaker

CONSTANTS Callers,   \* calls that may be in flight at once
          Horizon,   \* bound: no failure is reported after this time
          MaxTime    \* bound: the clock stops here

ASSUME TrafficAssumption == Horizon \in Int /\ MaxTime \in Int

VARIABLES now,       \* Date.now(), in ticks
          breaker,   \* the CircuitBreaker instance
          calls,     \* "idle", or the state in which the call was admitted
          recent,    \* history: failures and successes in a row, saturated
          tripAt     \* history: time of the last trip; None once closed

vars == <<now, breaker, calls, recent, tripAt>>

Init == /\ now = 0
        /\ breaker = NewBreaker
        /\ calls = [c \in Callers |-> "idle"]
        /\ recent = [failures |-> 0, successes |-> 0]
        /\ tripAt = None

\* History of reports, counted up to the thresholds they are compared with.
CountFailed == [failures  |-> IF recent.failures < FailureThreshold
                              THEN recent.failures + 1 ELSE recent.failures,
                successes |-> 0]
CountPassed == [failures  |-> 0,
                successes |-> IF recent.successes < SuccessThreshold
                              THEN recent.successes + 1 ELSE recent.successes]

\* isAllowed() lets the call through; reading may turn the breaker half-open.
Admit(c) ==
    /\ calls[c] = "idle"
    /\ IsAllowed(breaker, now)
    /\ breaker' = GetState(breaker, now)
    /\ calls' = [calls EXCEPT ![c] = GetState(breaker, now).state]
    /\ UNCHANGED <<now, recent, tripAt>>

Succeed(c) ==
    /\ calls[c] # "idle"
    /\ breaker' = BreakerSuccess(breaker, now)
    /\ calls' = [calls EXCEPT ![c] = "idle"]
    /\ recent' = CountPassed
    /\ tripAt' = IF breaker'.state = "closed" THEN None ELSE tripAt
    /\ UNCHANGED now

Fail(c) ==
    /\ calls[c] # "idle"
    /\ now <= Horizon
    /\ breaker' = BreakerFailure(breaker, now)
    /\ calls' = [calls EXCEPT ![c] = "idle"]
    /\ recent' = CountFailed
    /\ tripAt' = IF breaker'.state = "open" /\ GetState(breaker, now).state # "open"
                 THEN now ELSE tripAt
    /\ UNCHANGED now

\* A 429 or a non-retriable 4xx reports nothing to the breaker.
EndUnreported(c) ==
    /\ calls[c] # "idle"
    /\ calls' = [calls EXCEPT ![c] = "idle"]
    /\ UNCHANGED <<now, breaker, recent, tripAt>>

\* GET /v1/status reads the state without placing a call.
Observe ==
    /\ breaker' = GetState(breaker, now)
    /\ UNCHANGED <<now, calls, recent, tripAt>>

\* POST /v1/status/providers/:id/reset
AdminReset ==
    /\ breaker' = ResetBreaker
    /\ recent' = [failures |-> 0, successes |-> 0]
    /\ tripAt' = None
    /\ UNCHANGED <<now, calls>>

Tick ==
    /\ now < MaxTime
    /\ now' = now + 1
    /\ UNCHANGED <<breaker, calls, recent, tripAt>>

Next ==
    \/ \E c \in Callers : Admit(c) \/ Succeed(c) \/ Fail(c) \/ EndUnreported(c)
    \/ Observe
    \/ AdminReset
    \/ Tick

Spec == Init /\ [][Next]_vars

\* Time passes and callers keep calling and hearing back; nobody is obliged to
\* look at the status page or to reset anything.
Fairness == /\ WF_vars(Tick)
            /\ \A c \in Callers : WF_vars(Admit(c)) /\ WF_vars(Succeed(c))

FairSpec == Spec /\ Fairness

-----------------------------------------------------------------------------
TypeOK ==
    /\ now \in Int
    /\ breaker \in Breaker
    /\ calls \in [Callers -> BreakerState \cup {"idle"}]
    /\ recent \in [failures : Nat, successes : Nat]
    /\ tripAt \in Int \cup {None}

(***************************************************************************)
(* Safety                                                                  *)
(***************************************************************************)

\* Each state carries exactly the counters that belong to it, and the deadline
\* of an open or half-open breaker b is the one its last trip set; h is the
\* history of reports, trip the time of the last trip, t the time.
Consistent(b, h, trip, t) ==
    /\ b.state = "closed" =>
          /\ trip = None
          /\ b.nextAttemptAt = None
          /\ b.successes = 0
          /\ b.failures <= h.failures
    /\ b.state # "closed" =>
          /\ trip \in Int
          /\ b.nextAttemptAt = trip + BreakerTimeout
          /\ b.failures = 0
          /\ b.successes <= h.successes
    /\ b.state = "open" => b.successes = 0
    /\ b.state = "half_open" => t >= trip + BreakerTimeout

\* The breaker is consistent with its history between any two turns, whatever
\* the order in which outcomes, reads and resets arrive (trip, reset, getState).
BreakerInv == TypeOK /\ Consistent(breaker, recent, tripAt, now)

\* No call is admitted before the timeout of the last trip has elapsed, however
\* late the outcomes of older calls arrive (isAllowed, onFailure, trip).
OpenIsQuiet ==
    [][\A c \in Callers :
          calls[c] = "idle" /\ calls'[c] # "idle" =>
             tripAt = None \/ now >= tripAt + BreakerTimeout]_vars

\* A closed breaker opens only on FailureThreshold failures reported in a row,
\* counted over all callers: "Closed. Failure counter resets on success".
TripsAfterStreak ==
    [][breaker.state = "closed" /\ breaker'.state = "open" =>
          recent'.failures >= FailureThreshold]_vars

\* A tripped breaker closes only by the operator or on SuccessThreshold
\* successes in a row with no failure since the trip (onSuccess).
ClosesAfterStreak ==
    [][breaker.state # "closed" /\ breaker'.state = "closed" =>
          AdminReset \/ recent'.successes >= SuccessThreshold]_vars

(***************************************************************************)
(* Refinement: turning half-open on the next read instead of at the        *)
(* timeout cannot be noticed.                                              *)
(***************************************************************************)
Seen == GetState(breaker, now)

Timed == INSTANCE TimedBreaker WITH
            mode     <- Seen.state,
            failed   <- Seen.failures,
            passed   <- Seen.successes,
            reopenAt <- Seen.nextAttemptAt

ImplementsTimedBreaker == Timed!TSpec

(***************************************************************************)
(* Liveness: once calls stop failing, the breaker closes for good.         *)
(***************************************************************************)
Recovers ==
    <>[][\A c \in Callers : ~Fail(c) /\ ~EndUnreported(c)]_vars
       => <>[](breaker.state = "closed")
=============================================================================
