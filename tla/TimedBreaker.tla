---------------------------- MODULE TimedBreaker ----------------------------
(***************************************************************************)
(* What a circuit breaker promises, stated with a timer: the breaker turns *)
(* half-open by itself at the instant its timeout elapses, nobody has to   *)
(* look at it.  BreakerTraffic shows that the lazy class of                *)
(* gateway/circuit-breaker.ts cannot be told from this one.                *)
(***************************************************************************)
EXTENDS Integers

CONSTANTS FailureThreshold, SuccessThreshold, BreakerTimeout, None

VARIABLES now,        \* the clock
          mode,       \* what a caller sees: closed, open or half_open
          failed,     \* failures in a row while closed
          passed,     \* successes in a row while half-open
          reopenAt    \* when the last trip ends; None if there was none

tvars == <<now, mode, failed, passed, reopenAt>>

TInit == /\ now \in Int
         /\ mode = "closed"
         /\ failed = 0
         /\ passed = 0
         /\ reopenAt = None

Close == /\ mode' = "closed"
         /\ failed' = 0
         /\ passed' = 0
         /\ reopenAt' = None

\* A timeout that is not positive has already elapsed.
Open == /\ mode' = IF BreakerTimeout > 0 THEN "open" ELSE "half_open"
        /\ failed' = 0
        /\ passed' = 0
        /\ reopenAt' = now + BreakerTimeout

CountSuccess ==
    \/ /\ mode = "closed"
       /\ failed' = 0
       /\ UNCHANGED <<mode, passed, reopenAt>>
    \/ /\ mode = "half_open"
       /\ passed + 1 < SuccessThreshold
       /\ passed' = passed + 1
       /\ UNCHANGED <<mode, failed, reopenAt>>
    \/ /\ mode = "half_open"
       /\ passed + 1 >= SuccessThreshold
       /\ Close

CountFailure ==
    \/ /\ mode = "closed"
       /\ failed + 1 < FailureThreshold
       /\ failed' = failed + 1
       /\ UNCHANGED <<mode, passed, reopenAt>>
    \/ /\ mode = "closed"
       /\ failed + 1 >= FailureThreshold
       /\ Open
    \/ /\ mode = "half_open"
       /\ Open

\* One tick of the clock, and the timer with it.
Elapse == /\ now' = now + 1
          /\ mode' = IF mode = "open" /\ now + 1 >= reopenAt
                     THEN "half_open" ELSE mode
          /\ UNCHANGED <<failed, passed, reopenAt>>

Report == /\ \/ CountSuccess
             \/ CountFailure
             \/ Close
          /\ now' = now

TNext == Report \/ Elapse

TSpec == TInit /\ [][TNext]_tvars
=============================================================================
