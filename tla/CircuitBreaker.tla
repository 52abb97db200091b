--------------------------- MODULE CircuitBreaker ---------------------------
(***************************************************************************)
(* The circuit breaker of one provider (gateway/circuit-breaker.ts) as     *)
(* operators on a breaker record: each operator returns the breaker after  *)
(* the method of the same name ran at time t.  The class has no timer: an  *)
(* open breaker turns half-open when somebody next reads its state, so     *)
(* reading is an operation too.                                            *)
(***************************************************************************)
EXTENDS JavaScript

CONSTANTS FailureThreshold,  \* CB_FAILURE_THRESHOLD
          SuccessThreshold,  \* CB_SUCCESS_THRESHOLD
          BreakerTimeout     \* CB_TIMEOUT_MS, in clock ticks

\* The three settings are whatever parseInt returns: zero and negative values
\* are accepted by the code.
ASSUME BreakerAssumption ==
    /\ FailureThreshold \in Int
    /\ SuccessThreshold \in Int
    /\ BreakerTimeout \in Int

BreakerState == {"closed", "open", "half_open"}

Breaker == [state         : BreakerState,
            failures      : Nat,
            successes     : Nat,
            nextAttemptAt : Int \cup {None}]

NewBreaker == [state |-> "closed", failures |-> 0, successes |-> 0,
               nextAttemptAt |-> None]

\* nextAttemptAt ?? 0
NextAttempt(b) == IF b.nextAttemptAt = None THEN 0 ELSE b.nextAttemptAt

\* Mutant: forgets that an open breaker waits for its timeout.
ReadTooSoon(b, t) ==
    IF b.state = "open" THEN [b EXCEPT !.state = "half_open", !.successes = 0] ELSE b

\* getState(): the answer is the state of the breaker returned.
GetState(b, t) ==
    IF b.state = "open" /\ t >= NextAttempt(b)
    THEN [b EXCEPT !.state = "half_open", !.successes = 0]
    ELSE b

\* Mutant: looks at the field instead of calling getState().
AllowedByField(b, t) == b.state # "open"

IsAllowed(b, t) == GetState(b, t).state # "open"

Trip(t) == [state |-> "open", failures |-> 0, successes |-> 0,
            nextAttemptAt |-> t + BreakerTimeout]

\* reset() puts back every field of a new breaker.
ResetBreaker == NewBreaker

\* Mutants: closing leaves the deadline behind; a success leaves the failures.
SuccessKeepsDeadline(b, t) ==
    LET g == GetState(b, t)
    IN  CASE g.state = "half_open" ->
               IF g.successes + 1 >= SuccessThreshold
               THEN [g EXCEPT !.state = "closed", !.successes = 0]
               ELSE [g EXCEPT !.successes = @ + 1]
          [] g.state = "closed" -> [g EXCEPT !.failures = 0]
          [] g.state = "open"   -> g

SuccessKeepsFailures(b, t) ==
    LET g == GetState(b, t)
    IN  IF g.state # "half_open" THEN g
        ELSE IF g.successes + 1 >= SuccessThreshold THEN ResetBreaker
        ELSE [g EXCEPT !.successes = @ + 1]

BreakerSuccess(b, t) ==
    LET g == GetState(b, t)
    IN  CASE g.state = "half_open" ->
               IF g.successes + 1 >= SuccessThreshold
               THEN ResetBreaker
               ELSE [g EXCEPT !.successes = @ + 1]
          [] g.state = "closed" -> [g EXCEPT !.failures = 0]
          [] g.state = "open"   -> g

\* Mutants: a failure does not end a half-open trial; a failure while open
\* extends the timeout; the threshold is off by one.
FailureSparesTrial(b, t) ==
    LET g == GetState(b, t)
    IN  IF g.state # "closed" THEN g
        ELSE IF g.failures + 1 >= FailureThreshold THEN Trip(t)
        ELSE [g EXCEPT !.failures = @ + 1]

FailureExtends(b, t) ==
    LET g == GetState(b, t)
    IN  IF g.state # "closed" \/ g.failures + 1 >= FailureThreshold THEN Trip(t)
        ELSE [g EXCEPT !.failures = @ + 1]

FailureTripsEarly(b, t) ==
    LET g == GetState(b, t)
    IN  IF g.state = "open" THEN g
        ELSE IF g.state = "half_open" \/ g.failures + 2 >= FailureThreshold THEN Trip(t)
        ELSE [g EXCEPT !.failures = @ + 1]

BreakerFailure(b, t) ==
    LET g == GetState(b, t)
    IN  CASE g.state = "half_open" -> Trip(t)
          [] g.state = "closed" ->
               IF g.failures + 1 >= FailureThreshold
               THEN Trip(t)
               ELSE [g EXCEPT !.failures = @ + 1]
          [] g.state = "open" -> g
=============================================================================
