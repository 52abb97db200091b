------------------------------ MODULE KeyPool ------------------------------
(***************************************************************************)
(* The keys of one provider under concurrent requests.  Picking a key and  *)
(* counting the request against its window happen in one turn of the event *)
(* loop; the answer arrives in a later one, when the key may have been     *)
(* used, cooled down or cleared by other requests.  The circuit breaker is *)
(* left out here (see Gateway).                                            *)
(***************************************************************************)
EXTENDS KeyRing

CONSTANTS Calls,     \* requests that may be in flight at once
          Headers,   \* the Retry-After headers upstreams send: a date, or seconds
          MinRetry,  \* MIN_RETRY_MS, in ticks
          MaxRetry,  \* MAX_RETRY_MS, in ticks
          MaxTime    \* bound: the clock stops here

ASSUME PoolAssumption ==
    /\ Headers \subseteq [date : BOOLEAN, value : Int]
    /\ MinRetry \in Nat \ {0} /\ MaxRetry \in Nat /\ MinRetry <= MaxRetry
    /\ MaxTime \in Nat
    /\ Calls \cap {None} = {}

VARIABLES now,       \* Date.now(), in ticks
          ring,      \* rateLimiter: one limiter per key
          rotation,  \* keyRotationIndex
          sentWith,  \* responseKeyMap: the key of each call in flight, or None
          log,       \* history: every dispatch of each key
          penalty,   \* history: until when a key was asked to wait, unless let off
          smooth     \* history: no key was ever unusable at a dispatch

vars == <<now, ring, rotation, sentWith, log, penalty, smooth>>

Init == /\ now = 0
        /\ ring = [k \in Keys |-> NewLimiter]
        /\ rotation = 0
        /\ sentWith = [c \in Calls |-> None]
        /\ log = [k \in Keys |-> {}]
        /\ penalty = [k \in Keys |-> None]
        /\ smooth = TRUE

\* isAvailable() said yes; complete() picks a key, moves the rotation on and
\* counts the request, all before its first await.
Dispatch(c) ==
    LET seen   == ScanAvailable(ring, now)
        picked == ScanPick(seen, rotation, now)
    IN  /\ sentWith[c] = None
        /\ \E k \in Keys :
              /\ PickKey(seen, rotation, now, k)
              /\ ring' = [picked EXCEPT ![k] = RecordRequest(@, now)]
              /\ rotation' = NextKey(k)
              /\ sentWith' = [sentWith EXCEPT ![c] = k]
              /\ log' = [log EXCEPT ![k] =
                            @ \cup {Stamp(Fresh(picked[k].window, now), now)}]
        /\ smooth' = (smooth /\ FreeKeys(ring, now) = Keys)
        /\ UNCHANGED <<now, penalty>>

PickedLast == IF rotation = 0 THEN KeyCount - 1 ELSE rotation - 1

\* Mutant: a success clears the key picked last, not the sender.
ClearsLastKey(c) ==
    /\ sentWith[c] # None
    /\ ring' = [ring EXCEPT ![PickedLast] = ClearRateLimit(@)]
    /\ penalty' = [penalty EXCEPT ![sentWith[c]] = None]
    /\ sentWith' = [sentWith EXCEPT ![c] = None]
    /\ UNCHANGED <<now, rotation, log, smooth>>

\* A 2xx: onSuccess() clears the cooldown of the key that sent the request.
AnswerOk(c) ==
    LET k == sentWith[c]
    IN  /\ k # None
        /\ ring' = [ring EXCEPT ![k] = ClearRateLimit(@)]
        /\ penalty' = [penalty EXCEPT ![k] = None]
        /\ sentWith' = [sentWith EXCEPT ![c] = None]
        /\ UNCHANGED <<now, rotation, log, smooth>>

\* parseRetryAfter(), in ticks; None stands for no header and for garbage.
ParseRetryAfter(header, t) ==
    LET wait == IF header.date THEN header.value - t ELSE header.value
    IN  CASE header = None -> None
          [] header # None /\ wait < MinRetry -> MinRetry
          [] header # None /\ wait > MaxRetry -> MaxRetry
          [] OTHER -> wait

\* Until when a header asks to wait, or MaxRetry from t if that is sooner.
AskedUntil(header, t) ==
    LET until == IF header.date THEN header.value ELSE t + header.value
    IN  CASE header = None -> None
          [] header # None /\ until > t + MaxRetry -> t + MaxRetry
          [] OTHER -> until

\* Mutant: the 429 is attributed to the key picked last, not to the sender.
LimitsLastKey(c, header) ==
    LET k == PickedLast
    IN  /\ sentWith[c] # None
        /\ ring' = [ring EXCEPT ![k] = MarkRateLimited(@, now, ParseRetryAfter(header, now))]
        /\ sentWith' = [sentWith EXCEPT ![c] = None]
        /\ UNCHANGED <<now, rotation, log, penalty, smooth>>

\* A 429, or a 5xx with Retry-After: onRateLimit() cools that key down.
AnswerLimited(c, header) ==
    LET k == sentWith[c]
    IN  /\ k # None
        /\ ring' = [ring EXCEPT ![k] = MarkRateLimited(@, now, ParseRetryAfter(header, now))]
        /\ penalty' = [penalty EXCEPT ![k] = AskedUntil(header, now)]
        /\ sentWith' = [sentWith EXCEPT ![c] = None]
        /\ UNCHANGED <<now, rotation, log, smooth>>

\* Any other end of the call leaves the limiter alone.
AnswerOther(c) ==
    /\ sentWith[c] # None
    /\ sentWith' = [sentWith EXCEPT ![c] = None]
    /\ UNCHANGED <<now, ring, rotation, log, penalty, smooth>>

\* isAvailable() for a request that goes elsewhere, and getKeysStatus().
Poll   == /\ ring' = ScanAvailable(ring, now)
          /\ UNCHANGED <<now, rotation, sentWith, log, penalty, smooth>>
Status == /\ ring' = Scan(ring, Keys, now)
          /\ UNCHANGED <<now, rotation, sentWith, log, penalty, smooth>>

\* resetCircuitBreaker() clears the cooldown of every key, not the windows; the
\* handler then answers with the status of the keys.
AdminReset ==
    /\ ring' = Scan(Cleared(ring), Keys, now)
    /\ penalty' = [k \in Keys |-> None]
    /\ UNCHANGED <<now, rotation, sentWith, log, smooth>>

Tick == /\ now < MaxTime
        /\ now' = now + 1
        /\ UNCHANGED <<ring, rotation, sentWith, log, penalty, smooth>>

Next ==
    \/ \E c \in Calls :
          \/ Dispatch(c)
          \/ AnswerOk(c)
          \/ \E header \in Headers \cup {None} : AnswerLimited(c, header)
          \/ AnswerOther(c)
    \/ Poll
    \/ Status
    \/ AdminReset
    \/ Tick

Spec == Init /\ [][Next]_vars

-----------------------------------------------------------------------------
TypeOK ==
    /\ now \in Nat
    /\ ring \in [Keys -> Limiter]
    /\ rotation \in Keys
    /\ sentWith \in [Calls -> Keys \cup {None}]
    /\ log \in [Keys -> SUBSET (Nat \X Nat)]
    /\ penalty \in [Keys -> Int \cup {None}]
    /\ smooth \in BOOLEAN

\* The dispatches of one key in the window that ends at t.
SentBy(k, t) == {s \in log[k] : s[1] <= t /\ t - s[1] < Window}

\* No key is ever used more than MaxRequests times in any window, wherever it
\* starts, although the limiter forgets old dispatches whenever it is read
\* (recordRequest, isWindowFull, pickKey).
Quota == \A k \in Keys, t \in 0 .. now : Cardinality(SentBy(k, t)) <= MaxRequests

\* The type invariant with the quota.
KeysInv == TypeOK /\ Quota

\* "A 429 on key #0 can never accidentally cool down key #1": a cooldown only
\* starts on the key of a call that ends in that step (responseKeyMap).
CooldownOfOwnKey ==
    [][\A k \in Keys :
          ring'[k].blockedUntil \notin {ring[k].blockedUntil, None} =>
             \E c \in Calls : sentWith[c] = k /\ sentWith'[c] = None]_vars

\* As long as no key was ever unusable, the requests are spread evenly over
\* the keys (keyRotationIndex, advanced before the first await).
EvenSpread ==
    smooth => \A j, k \in Keys : Cardinality(log[j]) <= Cardinality(log[k]) + 1

\* "On 429 we honor their Retry-After": a key is not used again before the time
\* its last 429 asked for, in whichever form and up to MaxRetry, however often it
\* is polled and whatever happens to the other keys; only a success on the same
\* key, which may have been sent before the 429, and the operator's reset let it
\* off (parseRetryAfter, markRateLimited, isRateLimited).
HonoursRetryAfter ==
    [][\A c \in Calls, k \in Keys :
          sentWith[c] = None /\ sentWith'[c] = k /\ penalty[k] # None =>
             now >= penalty[k]]_vars
=============================================================================
