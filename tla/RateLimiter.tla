---------------------------- MODULE RateLimiter ----------------------------
(***************************************************************************)
(* The rate limiter of one API key (gateway/rate-limiter.ts): a sliding    *)
(* window of dispatch times and a cooldown after an upstream 429.  Reading *)
(* the limiter prunes it, so the check has an effect of its own.           *)
(*                                                                         *)
(* The array of timestamps is a set of stamps <<time, n>>: the code only   *)
(* filters it by age and takes its length, and n tells apart the           *)
(* dispatches of one millisecond.                                          *)
(***************************************************************************)
EXTENDS JavaScript, FiniteSets

CONSTANTS Window,           \* windowMs, in ticks
          MaxRequests,      \* maxRequests of the provider's window
          DefaultCooldown   \* the 60 s of markRateLimited, in ticks

\* PROVIDER_WINDOW_CONFIGS and FALLBACK_CONFIG only hold positive numbers.
ASSUME LimiterAssumption ==
    /\ Window \in Nat \ {0}
    /\ MaxRequests \in Nat \ {0}
    /\ DefaultCooldown \in Nat \ {0}

Limiter == [blockedUntil : Nat \cup {None}, window : SUBSET (Nat \X Nat)]

NewLimiter == [blockedUntil |-> None, window |-> {}]

Fresh(window, t) == {s \in window : t - s[1] < Window}

\* The stamp of a dispatch at t into a window whose fresh part is f.
Stamp(f, t) == <<t, Cardinality({s \in f : s[1] = t})>>

RecordRequest(l, t) ==
    LET f == Fresh(l.window, t)
    IN  [l EXCEPT !.window = f \cup {Stamp(f, t)}]

InCooldown(l, t) == l.blockedUntil # None /\ t < l.blockedUntil

\* Mutant: off by one at the limit.
WindowOverfull(l, t) == Cardinality(Fresh(l.window, t)) > MaxRequests

IsWindowFull(l, t) == Cardinality(Fresh(l.window, t)) >= MaxRequests

IsRateLimited(l, t) == InCooldown(l, t) \/ IsWindowFull(l, t)

\* What isRateLimited() leaves behind: a running cooldown hides the window,
\* otherwise the elapsed cooldown is dropped and the window pruned.
Checked(l, t) ==
    IF InCooldown(l, t) THEN l
    ELSE [blockedUntil |-> None, window |-> Fresh(l.window, t)]

MarkRateLimited(l, t, retryAfter) ==
    [l EXCEPT !.blockedUntil =
        t + (IF retryAfter = None THEN DefaultCooldown ELSE retryAfter)]

ClearRateLimit(l) == [l EXCEPT !.blockedUntil = None]

\* getWindowStats().retryAfterMs
CooldownLeft(l, t) == IF InCooldown(l, t) THEN l.blockedUntil - t ELSE None
=============================================================================
