------------------------------ MODULE Gateway ------------------------------
(***************************************************************************)
(* Routing with failover (gateway/router.ts, registry.ts, providers/*.ts): *)
(* concurrent requests share the breakers, key rings and rotation indices  *)
(* of the providers.  Every action is one turn of the event loop: the code *)
(* between two awaits, with every call it makes.                           *)
(*                                                                         *)
(* Providers are the enabled ones; they all have KeyCount keys and the     *)
(* same window limit.                                                      *)
(***************************************************************************)
EXTENDS CircuitBreaker, KeyRing, Sequences

CONSTANTS Providers,    \* the enabled providers
          Cli,          \* those that run the claude CLI (claude-code)
          OAuth,        \* those that use its OAuth token (claude-code-api)
          NoTraining,   \* those whose policy satisfies "no-training"
          Models,       \* the models clients ask for
          Metas,        \* META_MODELS
          Order,        \* Order[m]: the providers of m, each with its place
          Requests,     \* requests that may exist
          Asks,         \* what a request may ask for
          RetryAfters,  \* what parseRetryAfter yields besides null: seconds >= 1
          RouteTimeout, \* ROUTE_TIMEOUT_MS, in ticks
          Strategies,   \* bound: the strategies the operator sets
          RrWrap,       \* 1_000_000, where the rotation indices wrap around
          MaxTime       \* bound: the clock and the operator stop here

Serving(m) == DOMAIN Order[m]

Ask == [model : Models, strict : BOOLEAN, private : BOOLEAN, stream : BOOLEAN]

\* How a try may end; while it lasts its outcome is None.
Endings == {"ok", "limited", "client", "failed", "broken"}

Answer == [kind     : {"served", "upstream", "refused", "exhausted", "timeout"},
           provider : Providers \cup {None},
           advice   : Nat \cup {None}]

ASSUME GatewayAssumption ==
    /\ Cli \cup OAuth \cup NoTraining \subseteq Providers
    /\ Cli \cap OAuth = {}
    /\ Metas \subseteq Models
    /\ \A m \in Models : /\ Serving(m) \subseteq Providers
                         /\ Order[m] \in [Serving(m) -> Nat]
                         /\ \A p, q \in Serving(m) :
                               Order[m][p] = Order[m][q] => p = q
    /\ Asks \subseteq Ask
    /\ RetryAfters \subseteq Nat \ {0}
    /\ RouteTimeout \in Nat
    /\ Strategies \subseteq {"round_robin", "random"}
    /\ RrWrap \in Nat \ {0}
    /\ MaxTime \in Nat
    /\ None \notin Providers \cup Models
    /\ None \notin Asks
    /\ None \notin Endings
    /\ None \notin Answer

VARIABLES now,       \* Date.now(), in ticks
          breaker,   \* circuitBreaker of each provider
          ring,      \* rateLimiter of each provider
          rotation,  \* keyRotationIndex of each provider
          stats,     \* stats of each provider
          strategy,  \* router.strategy
          rr,        \* rrIndex (at None) and metaRrIndices
          req        \* route()'s locals for each request, and its tries

providerVars == <<breaker, ring, rotation, stats>>
vars == <<now, breaker, ring, rotation, stats, strategy, rr, req>>

Unasked == [phase |-> "idle", ask |-> None, deadline |-> 0, excluded |-> {},
            tries |-> <<>>, answer |-> None]

NewStats == [total |-> 0, success |-> 0, failed |-> 0, limited |-> 0]

Init == /\ now = 0
        /\ breaker = [p \in Providers |-> NewBreaker]
        /\ ring = [p \in Providers |-> [k \in Keys |-> NewLimiter]]
        /\ rotation = [p \in Providers |-> 0]
        /\ stats = [p \in Providers |-> NewStats]
        /\ strategy = "round_robin"
        /\ rr = [m \in Metas \cup {None} |-> 0]
        /\ req = [r \in Requests |-> Unasked]

-----------------------------------------------------------------------------
(* Reading a provider changes it: isAvailable(), getStatusAll().           *)

\* The providers P were asked isAvailable(), starting from breakers B, rings R.
PolledBreakers(B, P) ==
    [p \in Providers |-> IF p \in P THEN GetState(B[p], now) ELSE B[p]]

PolledRings(B, R, P) ==
    [p \in Providers |-> IF p \in P /\ IsAllowed(B[p], now)
                         THEN ScanAvailable(R[p], now) ELSE R[p]]

\* Mutant: the breaker is not asked.
KeysOnly(B, R, p) == FreeKeys(R[p], now) # {}

Usable(B, R, p) == IsAllowed(B[p], now) /\ FreeKeys(R[p], now) # {}

\* getStatusAll() reads every breaker and every key.
StatusRings(R) == [p \in Providers |-> Scan(R[p], Keys, now)]

\* providerRetryAfterMs() and earliestRetryMs(), over all enabled providers.
RetryHint(R, p) ==
    IF FreeKeys(R[p], now) # {} THEN 0
    ELSE LET left == {CooldownLeft(R[p][k], now) : k \in Keys} \ {None}
         IN  IF left = {} THEN None
             ELSE CHOOSE d \in left : \A e \in left : d <= e

RetryAdvice(R) ==
    LET hints == {RetryHint(R, p) : p \in Providers} \ {None}
    IN  IF hints = {} THEN None
        ELSE CHOOSE d \in hints : \A e \in hints : d <= e

-----------------------------------------------------------------------------
(* One pass of route()'s loop for request r, whose locals are q, from      *)
(* breakers B, rings R and stats S.                                        *)

Answered(q, kind, p, advice) ==
    [q EXCEPT !.phase = "done",
              !.answer = [kind |-> kind, provider |-> p, advice |-> advice]]

Matches(a, p) == p \in Serving(a.model) /\ (a.private => p \in NoTraining)

\* Mutants: the failed providers are forgotten; a provider that was tried once is
\* never tried again.
FailedAgain(q, B, R) ==
    {p \in Providers : Matches(q.ask, p) /\ Usable(B, R, p)}

OnlyUntried(q, B, R) ==
    {p \in Providers : /\ Matches(q.ask, p) /\ Usable(B, R, p)
                       /\ \A i \in DOMAIN q.tries : q.tries[i].provider # p}

Candidates(q, B, R) ==
    {p \in Providers : Matches(q.ask, p) /\ p \notin q.excluded /\ Usable(B, R, p)}

RrKey(m) == IF m \in Metas THEN m ELSE None

\* pickProvider() among the candidates C: any of them when the strategy is
\* random, otherwise the one at place rr % length in the order of the model.
Picks(a, C, p) ==
    /\ p \in C
    /\ strategy = "round_robin" =>
          Cardinality({x \in C : Order[a.model][x] < Order[a.model][p]})
             = rr[RrKey(a.model)] % Cardinality(C)

\* AllProvidersExhaustedError: the error handler reads the status of all
\* providers to advise when to retry, in the same turn.
GiveUp(r, q, kind, B, R, S) ==
    /\ req' = [req EXCEPT ![r] = Answered(q, kind, None, RetryAdvice(R))]
    /\ breaker' = PolledBreakers(B, Providers)
    /\ ring' = StatusRings(R)
    /\ stats' = S
    /\ UNCHANGED <<rotation, rr>>

\* The ring after pickKey() returned k and recordRequest(k).
SentThrough(r, rot, k) == [ScanPick(r, rot, now) EXCEPT ![k] = RecordRequest(@, now)]

\* provider.complete() up to its await: pick a key, count the request.
Dispatch(r, q, p, B, R, S) ==
    \E k \in Keys :
       /\ PickKey(R[p], rotation[p], now, k)
       /\ breaker' = B
       /\ ring' = [R EXCEPT ![p] = SentThrough(@, rotation[p], k)]
       /\ rotation' = [rotation EXCEPT ![p] = NextKey(k)]
       /\ stats' = [S EXCEPT ![p].total = @ + 1]
       /\ req' = [req EXCEPT ![r] =
                    [q EXCEPT !.phase = "waiting",
                              !.tries = Append(@, [provider |-> p, key |-> k,
                                                   outcome |-> None])]]

AdvanceRr(a) ==
    rr' = IF strategy = "random" THEN rr
          ELSE [rr EXCEPT ![RrKey(a.model)] = (@ + 1) % RrWrap]

Proceed(r, q, B, R, S) ==
    LET polledB == PolledBreakers(B, Providers)
        polledR == PolledRings(B, R, Providers)
        C       == Candidates(q, B, R)
    IN  \/ /\ now > q.deadline
           /\ GiveUp(r, q, "timeout", B, R, S)
        \/ /\ now <= q.deadline
           /\ C = {}
           /\ GiveUp(r, q, "exhausted", polledB, polledR, S)
        \/ /\ now <= q.deadline
           /\ AdvanceRr(q.ask)
           /\ \E p \in Providers : /\ Picks(q.ask, C, p)
                                   /\ Dispatch(r, q, p, polledB, polledR, S)

-----------------------------------------------------------------------------
(* Requests.                                                               *)

\* Mutant: strict mode accepts meta-models.
RefusesLess(a) ==
    a.private /\ ~\E p \in NoTraining : a.model \in Metas \/ p \in Serving(a.model)

\* Strict mode forbids meta-models; a privacy posture no provider of the model
\* satisfies fails fast (for a meta-model, any provider counts).
Refused(a) ==
    \/ a.strict /\ a.model \in Metas
    \/ a.private /\ ~\E p \in NoTraining : a.model \in Metas \/ p \in Serving(a.model)

Start(r) ==
    /\ req[r].phase = "idle"
    /\ \E a \in Asks :
          LET q == [Unasked EXCEPT !.ask = a, !.deadline = now + RouteTimeout]
          IN  \/ /\ Refused(a)
                 /\ req' = [req EXCEPT ![r] = Answered(q, "refused", None, None)]
                 /\ UNCHANGED <<providerVars, rr>>
              \/ ~Refused(a) /\ Proceed(r, q, breaker, ring, stats)
    /\ UNCHANGED <<now, strategy>>

LastTry(q) == q.tries[Len(q.tries)]

\* The locals of r once its last try ended with this outcome.
Ended(r, outcome) ==
    [req[r] EXCEPT !.tries[Len(req[r].tries)].outcome = outcome]

SelfReporting == Cli \cup OAuth

\* A 2xx: provider.onSuccess(), and the answer goes out.  The claude providers
\* keep reporting while the body streams; claude-code-api has already counted
\* a success that does not stream.
Succeed(r) ==
    LET p == LastTry(req[r]).provider
        k == LastTry(req[r]).key
        q == Answered(Ended(r, "ok"), "served", p, None)
        streams == req[r].ask.stream /\ p \in SelfReporting
        twice == p \in OAuth /\ ~req[r].ask.stream
    IN  /\ req[r].phase = "waiting"
        /\ breaker' = [breaker EXCEPT ![p] = BreakerSuccess(@, now)]
        /\ ring' = [ring EXCEPT ![p][k] = ClearRateLimit(@)]
        /\ stats' = [stats EXCEPT ![p].success = @ + (IF twice THEN 2 ELSE 1)]
        /\ req' = [req EXCEPT ![r] =
                     IF streams THEN [q EXCEPT !.phase = "streaming"] ELSE q]
        /\ UNCHANGED <<now, rotation, strategy, rr>>

\* A 429 cools the key down; the provider is excluded only when that leaves it
\* unusable.  claude-code-api counts a 429 itself, without a key, and hides
\* the upstream's Retry-After from the router.
RateLimited(r, retryAfter) ==
    LET p == LastTry(req[r]).provider
        k == LastTry(req[r]).key
        R == [ring EXCEPT ![p][k] = MarkRateLimited(@, now, retryAfter)]
        S == [stats EXCEPT ![p].limited = @ + (IF p \in OAuth THEN 2 ELSE 1)]
        q == [Ended(r, "limited") EXCEPT
                 !.excluded = IF Usable(breaker, R, p) THEN @ ELSE @ \cup {p}]
        B2 == PolledBreakers(breaker, {p})
        R2 == PolledRings(breaker, R, {p})
    IN  /\ req[r].phase = "waiting"
        /\ p \notin Cli
        /\ p \in OAuth => retryAfter = None
        /\ \/ /\ q.ask.strict
              /\ req' = [req EXCEPT ![r] = Answered(q, "upstream", p, None)]
              /\ breaker' = B2
              /\ ring' = R2
              /\ stats' = S
              /\ UNCHANGED <<rotation, rr>>
           \/ ~q.ask.strict /\ Proceed(r, q, B2, R2, S)
        /\ UNCHANGED <<now, strategy>>

\* Mutant: the client's mistake is held against the provider.
BlamesProvider(r) ==
    LET p == LastTry(req[r]).provider
    IN  /\ req[r].phase = "waiting"
        /\ breaker' = [breaker EXCEPT ![p] = BreakerFailure(@, now)]
        /\ stats' = [stats EXCEPT ![p].failed = @ + 1]
        /\ req' = [req EXCEPT ![r] = Answered(Ended(r, "client"), "upstream", p, None)]
        /\ UNCHANGED <<now, ring, rotation, strategy, rr>>

\* 400, 401, 403, 404: surfaced as they are, nothing is reported.
ClientError(r) ==
    LET p == LastTry(req[r]).provider
    IN  /\ req[r].phase = "waiting"
        /\ p \notin SelfReporting
        /\ req' = [req EXCEPT ![r] = Answered(Ended(r, "client"), "upstream", p, None)]
        /\ UNCHANGED <<now, providerVars, strategy, rr>>

\* The try failed: a 5xx (perhaps with Retry-After), another status, or an
\* exception out of complete().  own is the failure complete() reports itself
\* before it throws in the same turn.
Fail(r, retryAfter, own) ==
    LET p == LastTry(req[r]).provider
        k == LastTry(req[r]).key
        b == IF own THEN BreakerFailure(breaker[p], now) ELSE breaker[p]
        B == [breaker EXCEPT ![p] = BreakerFailure(b, now)]
        R == IF retryAfter = None THEN ring
             ELSE [ring EXCEPT ![p][k] = MarkRateLimited(@, now, retryAfter)]
        S == [stats EXCEPT ![p].failed = @ + (IF own THEN 2 ELSE 1),
                           ![p].limited = @ + (IF retryAfter = None THEN 0 ELSE 1)]
        q == [Ended(r, "failed") EXCEPT !.excluded = @ \cup {p}]
    IN  /\ req[r].phase \in {"waiting", "failing"}
        /\ own => p \in SelfReporting /\ req[r].phase = "waiting"
        /\ p \in Cli => own /\ ~req[r].ask.stream
        /\ p \in SelfReporting => retryAfter = None
        /\ \/ /\ q.ask.strict
              /\ req' = [req EXCEPT ![r] = Answered(q, "upstream", p, None)]
              /\ breaker' = B
              /\ ring' = R
              /\ stats' = S
              /\ UNCHANGED <<rotation, rr>>
           \/ ~q.ask.strict /\ Proceed(r, q, B, R, S)
        /\ UNCHANGED <<now, strategy>>

OnError(p) ==
    /\ breaker' = [breaker EXCEPT ![p] = BreakerFailure(@, now)]
    /\ stats' = [stats EXCEPT ![p].failed = @ + 1]
    /\ UNCHANGED <<now, ring, rotation, strategy, rr>>

\* claude-code-api got an error status: it reports the failure, then awaits the
\* body, and throws in a later turn.
SelfReport(r) ==
    /\ req[r].phase = "waiting"
    /\ LastTry(req[r]).provider \in OAuth
    /\ req' = [req EXCEPT ![r].phase = "failing"]
    /\ OnError(LastTry(req[r]).provider)

\* The streamed body of a claude provider ends, or fails after the headers.
StreamEnds(r) ==
    /\ req[r].phase = "streaming"
    /\ req' = [req EXCEPT ![r].phase = "done"]
    /\ UNCHANGED <<now, providerVars, strategy, rr>>

\* claude-code-api relays an error event, reports it and reads on (bound: one
\* such event in a stream).
StreamError(r) ==
    /\ req[r].phase = "streaming"
    /\ LastTry(req[r]).provider \in OAuth
    /\ LastTry(req[r]).outcome = "ok"
    /\ req' = [req EXCEPT ![r] = Ended(r, "broken")]
    /\ OnError(LastTry(req[r]).provider)

StreamFails(r) ==
    /\ req[r].phase = "streaming"
    /\ req' = [req EXCEPT ![r] = [Ended(r, "broken") EXCEPT !.phase = "done"]]
    /\ OnError(LastTry(req[r]).provider)

-----------------------------------------------------------------------------
(* The operator and the clock.                                             *)

Status == /\ breaker' = PolledBreakers(breaker, Providers)
          /\ ring' = StatusRings(ring)
          /\ UNCHANGED <<now, rotation, stats, strategy, rr, req>>

\* PATCH /v1/status/routing answers with the status of all providers.
SetStrategy(s) ==
    /\ strategy' = s
    /\ breaker' = PolledBreakers(breaker, Providers)
    /\ ring' = StatusRings(ring)
    /\ UNCHANGED <<now, rotation, stats, rr, req>>

AdminReset(p) ==
    /\ now < MaxTime
    /\ breaker' = [breaker EXCEPT ![p] = ResetBreaker]
    /\ ring' = [ring EXCEPT ![p] = Scan(Cleared(@), Keys, now)]
    /\ UNCHANGED <<now, rotation, stats, strategy, rr, req>>

Tick == /\ now < MaxTime
        /\ now' = now + 1
        /\ UNCHANGED <<breaker, ring, rotation, stats, strategy, rr, req>>

Respond(r) ==
    \/ Succeed(r)
    \/ \E ra \in RetryAfters \cup {None} : RateLimited(r, ra)
    \/ ClientError(r)
    \/ \E ra \in RetryAfters \cup {None}, own \in BOOLEAN : Fail(r, ra, own)

Next ==
    \/ \E r \in Requests : \/ Start(r)
                           \/ Respond(r)
                           \/ SelfReport(r)
                           \/ StreamEnds(r)
                           \/ StreamError(r)
                           \/ StreamFails(r)
    \/ Status
    \/ \E s \in Strategies : SetStrategy(s)
    \/ \E p \in Providers : AdminReset(p)
    \/ Tick

Spec == Init /\ [][Next]_vars

\* complete() awaits the output and the exit of the CLI it spawned, which nothing
\* times out; for a stream it returns at once.
AwaitsChild(r) ==
    /\ req[r].phase = "waiting"
    /\ LastTry(req[r]).provider \in Cli
    /\ ~req[r].ask.stream

\* Time passes and every fetch settles (undici's own timeouts end a silent one);
\* a child process need not.
FairSpec ==
    /\ Spec
    /\ WF_vars(Tick)
    /\ \A r \in Requests : WF_vars(~AwaitsChild(r) /\ Respond(r))
-----------------------------------------------------------------------------
Outcomes == {None} \cup Endings

Try == [provider : Providers, key : Keys, outcome : Outcomes]

ReqOK(q) ==
    /\ q.phase \in {"idle", "waiting", "failing", "streaming", "done"}
    /\ q.ask \in Asks \cup {None}
    /\ q.ask = None <=> q.phase = "idle"
    /\ q.deadline \in Nat
    /\ q.excluded \subseteq Providers
    /\ q.tries \in Seq(Try)
    /\ q.phase \in {"waiting", "failing", "streaming"} => q.tries # <<>>
    /\ q.answer \in Answer \cup {None}

TypeOK ==
    /\ now \in Nat
    /\ breaker \in [Providers -> Breaker]
    /\ ring \in [Providers -> [Keys -> Limiter]]
    /\ rotation \in [Providers -> Keys]
    /\ stats \in [Providers -> [total : Nat, success : Nat, failed : Nat, limited : Nat]]
    /\ strategy \in {"round_robin", "random"}
    /\ rr \in [Metas \cup {None} -> 0 .. RrWrap - 1]
    /\ DOMAIN req = Requests
    /\ \A r \in Requests : ReqOK(req[r])

\* A request only ever reaches providers that serve its model and satisfy its
\* privacy posture, and at most one of them, once, when it is strict; it never
\* goes back to a provider that failed it, and after a 429 it never tries the
\* same key in the next attempt (pickProvider, excluded, markRateLimited, the
\* strict branches of route).
HonoursRequest ==
    \A r \in Requests :
       LET q == req[r]
           t == q.tries
       IN  /\ \A i \in DOMAIN t : Matches(q.ask, t[i].provider)
           /\ Len(t) > 0 /\ q.ask.strict => Len(t) = 1
           /\ \A i, j \in DOMAIN t :
                 /\ i < j /\ t[i].outcome = "failed" => t[j].provider # t[i].provider
                 /\ j = i + 1 /\ t[j].provider = t[i].provider => t[j].key # t[i].key

Dispatched(r, p) ==
    /\ Len(req'[r].tries) > Len(req[r].tries)
    /\ LastTry(req'[r]).provider = p

\* Nothing is sent to a provider whose breaker is open, through a key that is
\* cooling down or full, or for a request past its deadline; what other
\* requests did between the turns is taken into account (isAvailable, pickKey).
SendsWhenAllowed ==
    [][\A r \in Requests, p \in Providers :
          Dispatched(r, p) =>
             /\ breaker'[p].state # "open"
             /\ breaker[p].state = "open" => now >= NextAttempt(breaker[p])
             /\ LastTry(req'[r]).key \in FreeKeys(ring[p], now)
             /\ req'[r].deadline >= now]_vars

\* A provider is struck off a request only when it failed it or when none of
\* its keys was left, and a request is told that all providers are exhausted
\* only when none of those it may use can take it at that instant.
GivesUpForCause ==
    [][\A r \in Requests : LET q == req'[r] IN
          /\ \A p \in q.excluded \ req[r].excluded :
                \/ \E i \in DOMAIN q.tries :
                      q.tries[i].provider = p /\ q.tries[i].outcome = "failed"
                \/ ~Usable(breaker', ring', p)
          /\ req[r].answer = None /\ q.answer # None /\ q.answer.kind = "exhausted" =>
                \A p \in Providers :
                   Matches(q.ask, p) /\ p \notin q.excluded =>
                      ~Usable(breaker', ring', p)]_vars

\* The places of the tries of p, over all requests, with this outcome.
TriesOf(p, outcome) ==
    UNION {{<<r, i>> : i \in {i \in DOMAIN req[r].tries :
                                 /\ req[r].tries[i].provider = p
                                 /\ req[r].tries[i].outcome = outcome}}
             : r \in Requests}

\* The counters of the status page agree with what the requests saw, for the
\* providers that leave the reporting to the router (stats).
StatsAgree ==
    \A p \in Providers \ SelfReporting :
       LET S == stats[p]
           n(outcome) == Cardinality(TriesOf(p, outcome))
       IN  /\ S.success = n("ok")
           /\ S.failed = n("failed")
           /\ S.total = S.success + S.failed + n("limited") + n("client") + n(None)
           /\ S.limited >= n("limited")

\* The type invariant with the counters.
GatewayInv == TypeOK /\ StatsAgree

\* "Consecutive failures before tripping open": a closed breaker opens only
\* when FailureThreshold tries of its provider have failed.
TripsOnEnoughFailures ==
    [][\A p \in Providers :
          breaker[p].state = "closed" /\ breaker'[p].state = "open" =>
             Cardinality(TriesOf(p, "failed")') + Cardinality(TriesOf(p, "broken")')
                >= FailureThreshold]_vars

\* Refinement: to its clients the gateway is a service that answers each
\* request once, with an answer its request allows, and only a request that
\* waits for a child of the CLI may wait for ever.
Contract == INSTANCE RouteContract WITH
    ask    <- [r \in Requests |-> req[r].ask],
    answer <- [r \in Requests |->
                 IF req[r].answer = None THEN None
                 ELSE <<req[r].answer.kind, req[r].answer.provider>>],
    held   <- {r \in Requests : AwaitsChild(r)}

KeepsContract == Contract!CSpec
=============================================================================
