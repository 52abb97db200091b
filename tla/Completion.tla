----------------------------- MODULE Completion -----------------------------
(***************************************************************************)
(* A chat completion around the routing (routes/v1/chat.ts, complete() in  *)
(* gateway/router.ts): the virtual key is checked, the response cache is   *)
(* asked, the request is routed, and what comes back is counted and        *)
(* stored.  Routing itself is Gateway; here it is a pause after which the  *)
(* request has failed or some provider it may use has answered.            *)
(***************************************************************************)
EXTENDS ResponseCache, VirtualKeys, UsageTracker

CONSTANTS Slots,       \* requests that may be in flight at once
          Contents,    \* the distinct request contents: what buildKey() hashes
          Allowed,     \* the contents whose model the virtual key allows
          Providers,   \* the enabled providers
          NoTraining,  \* those whose policy satisfies "no-training"
          Asks,        \* what a request may ask for
          TokenCounts, \* bound: the tokens of a response
          MaxAnswers,  \* bound: requests in all
          MaxTime      \* bound: the clock stops here

Ask == [content : Contents, keyed : BOOLEAN, strict : BOOLEAN,
        private : BOOLEAN, stream : BOOLEAN]

Response == [content : Contents, provider : Providers, tokens : TokenCounts,
             truncated : BOOLEAN, at : Nat]

ASSUME CompletionAssumption ==
    /\ Asks \subseteq Ask
    /\ Allowed \subseteq Contents
    /\ NoTraining \subseteq Providers
    /\ TokenCounts \subseteq Nat /\ IsFiniteSet(TokenCounts) /\ TokenCounts # {}
    /\ IsFiniteSet(Slots)
    /\ MaxAnswers \in Nat /\ MaxTime \in Nat
    /\ None \notin Asks \cup Response

VARIABLES now,       \* Date.now(), in ticks
          cache,     \* the response cache
          counter,   \* the virtual key's counter
          usage,     \* the usage tracker's buckets of each provider
          log,       \* requestLog.stats
          flight,    \* the request in each slot that is being routed
          answers    \* history: the requests answered so far, in order

vars == <<now, cache, counter, usage, log, flight, answers>>

Init == /\ now = 0
        /\ cache = <<>>
        /\ counter = {}
        /\ usage = [p \in Providers |-> NewBuckets]
        /\ log = [success |-> 0, failed |-> 0]
        /\ flight = [s \in Slots |-> None]
        /\ answers = <<>>

Answer(kind, ask, response, cached) ==
    answers' = Append(answers, [kind |-> kind, ask |-> ask, response |-> response,
                                cached |-> cached, at |-> now])

-----------------------------------------------------------------------------
InFlight == {s \in Slots : flight[s] # None}

\* guardVirtualKey() lets the request through; it prunes when it looks.
Guarded(a) ==
    a.keyed => ~Expired(now) /\ a.content \in Allowed /\ CanServe(counter, now)

PrunedByGuard(a) ==
    IF a.keyed /\ ~Expired(now) /\ a.content \in Allowed THEN Prune(counter, now)
    ELSE counter

\* recordRequest(), when the request came with the virtual key.
Charge(a, tokens) ==
    IF a.keyed THEN Record(counter, tokens, now, Len(answers) + 1) ELSE counter

LogSuccess == log' = [log EXCEPT !.success = @ + 1]
LogFailure == log' = [log EXCEPT !.failed = @ + 1]

Refuse(a) ==
    /\ ~Guarded(a)
    /\ Answer("refused", a, None, FALSE)
    /\ counter' = PrunedByGuard(a)
    /\ UNCHANGED <<cache, usage, log, flight>>

AsksCache(a) == ~a.strict /\ ~a.stream

\* complete() answers from the cache, before it looks at the posture.
ServeCached(a) ==
    LET response == Entry(cache, a.content).value
    IN  /\ Guarded(a) /\ AsksCache(a) /\ Hit(cache, a.content, now)
        /\ cache' = AfterGet(cache, a.content, now)
        /\ counter' = Charge(a, response.tokens)
        /\ Answer("served", a, response, TRUE)
        /\ LogSuccess
        /\ UNCHANGED <<usage, flight>>

StartRouting(s, a) ==
    /\ Guarded(a)
    /\ AsksCache(a) => ~Hit(cache, a.content, now)
    /\ cache' = IF AsksCache(a) THEN AfterGet(cache, a.content, now) ELSE cache
    /\ counter' = PrunedByGuard(a)
    /\ flight' = [flight EXCEPT ![s] = a]
    /\ UNCHANGED <<usage, log, answers>>

Arrive(s) ==
    /\ flight[s] = None
    /\ Len(answers) + Cardinality(InFlight) < MaxAnswers
    /\ \E a \in Asks : Refuse(a) \/ ServeCached(a) \/ StartRouting(s, a)
    /\ UNCHANGED now

\* A provider answered and its body was read: count it, store it, charge it.
\* A truncated response is not stored.
Complete(s, p, tokens, truncated) ==
    LET a == flight[s]
        response == [content |-> a.content, provider |-> p, tokens |-> tokens,
                     truncated |-> truncated, at |-> now]
    IN  /\ a # None
        /\ ~a.stream
        /\ a.private => p \in NoTraining
        /\ usage' = IF tokens = 0 THEN usage
                    ELSE [usage EXCEPT ![p] = RecordUsage(@, tokens, now)]
        /\ LogSuccess
        /\ cache' = IF truncated THEN cache
                    ELSE AfterSet(cache, a.content, response, now)
        /\ counter' = Charge(a, tokens)
        /\ Answer("served", a, response, FALSE)
        /\ flight' = [flight EXCEPT ![s] = None]
        /\ UNCHANGED now

\* The relay of a stream ends, by itself or because the client left: its tokens
\* are not known.
StreamEnds(s) ==
    LET a == flight[s]
    IN  /\ a # None
        /\ a.stream
        /\ LogSuccess
        /\ counter' = Charge(a, 0)
        /\ Answer("served", a, None, FALSE)
        /\ flight' = [flight EXCEPT ![s] = None]
        /\ UNCHANGED <<now, cache, usage>>

\* Routing or reading the body failed: logged, and charged to nobody.
Fail(s) ==
    /\ flight[s] # None
    /\ LogFailure
    /\ Answer("failed", flight[s], None, FALSE)
    /\ flight' = [flight EXCEPT ![s] = None]
    /\ UNCHANGED <<now, cache, counter, usage>>

\* GET /v1/status/virtual-keys: reading the usage prunes it.
ReadVirtualKeys ==
    /\ counter' = Prune(counter, now)
    /\ UNCHANGED <<now, cache, usage, log, flight, answers>>

Tick == /\ now < MaxTime
        /\ now' = now + 1
        /\ UNCHANGED <<cache, counter, usage, log, flight, answers>>

Next ==
    \/ \E s \in Slots :
          \/ Arrive(s)
          \/ \E p \in Providers, n \in TokenCounts, truncated \in BOOLEAN :
                Complete(s, p, n, truncated)
          \/ StreamEnds(s)
          \/ Fail(s)
    \/ ReadVirtualKeys
    \/ Tick

Spec == Init /\ [][Next]_vars
-----------------------------------------------------------------------------
Entries == [key : Contents, value : Response, expiresAt : Nat]

\* The cache stays a map of at most MaxEntries contents.
TypeOK ==
    /\ now \in 0 .. MaxTime
    /\ cache \in Seq(Entries)
    /\ Len(cache) <= MaxEntries /\ Cardinality(Stored(cache)) = Len(cache)
    /\ counter \subseteq [at : Nat, tokens : Nat, nr : Nat]
    /\ log \in [success : Nat, failed : Nat]
    /\ flight \in [Slots -> Asks \cup {None}]

\* The answers of which a virtual key, or a provider, was to be charged.
Served == {i \in DOMAIN answers : answers[i].kind = "served"}

Tokens(i) == IF answers[i].response = None THEN 0 ELSE answers[i].response.tokens

TokenSum(I) == SumFunction([i \in I |-> Tokens(i)])

Charged == {i \in Served : answers[i].ask.keyed /\ answers[i].at > now - CapWindow}

\* "SOFT CAP": requests in flight when the cap is reached may still be counted,
\* so a virtual key is overrun by what was in flight at once, and no more
\* (assertCanServe before routing, recordRequest after it).
SoftCap ==
    LET flying == {s \in InFlight : flight[s].keyed}
        most   == CHOOSE n \in TokenCounts : \A m \in TokenCounts : m <= n
        spare  == Cardinality(Slots) - Cardinality(flying)
    IN  /\ RequestCap # None => Cardinality(Charged) <= RequestCap - 1 + spare
        /\ TokenCap # None => TokenSum(Charged) <= TokenCap - 1 + spare * most

\* A request within the key's life and models is refused only when the answers
\* of the last 24 hours have used the cap up: caps recover, and failures, hits
\* of other keys and refusals never eat them (assertCanServe, recordRequest).
RefusedForCause ==
    [][Len(answers') > Len(answers) /\ answers'[Len(answers')].kind = "refused" =>
          \/ Expired(now)
          \/ answers'[Len(answers')].ask.content \notin Allowed
          \/ RequestCap # None /\ Cardinality(Charged) >= RequestCap
          \/ TokenCap # None /\ TokenSum(Charged) >= TokenCap]_vars

\* A cached answer is to the same content, complete, at most Ttl old, and goes
\* neither to a stream nor to a strict request (ResponseCache.get, set).
CachedAnswers ==
    \A i \in DOMAIN answers : LET x == answers[i] IN
       x.cached => /\ x.response.content = x.ask.content
                   /\ ~x.response.truncated
                   /\ x.at - x.response.at <= Ttl
                   /\ ~x.ask.strict /\ ~x.ask.stream

\* The answers that were stored, or served again, for this content.
UsesOf(content) ==
    {i \in Served : /\ answers[i].ask.content = content
                    /\ ~answers[i].ask.stream
                    /\ ~answers[i].response.truncated}

\* A cached answer is the last one stored: requests for one content that were
\* in flight together never bring an older answer back (ResponseCache.set).
LatestAnswer ==
    \A i \in DOMAIN answers :
       answers[i].cached =>
          \A j \in UsesOf(answers[i].ask.content) :
             j < i /\ (\A k \in UsesOf(answers[i].ask.content) :
                          j < k /\ k < i => answers[k].cached)
             => answers[i].response = answers[j].response

\* The usage a provider is shown with is what its uncached answers took in the
\* hours of the window, and the log has counted every answer once.
BooksAgree ==
    /\ \A p \in Providers :
          UsageTotal(usage[p], now) =
             TokenSum({i \in Served :
                         /\ answers[i].response # None
                         /\ answers[i].response.provider = p
                         /\ ~answers[i].cached
                         /\ CurrentHour(answers[i].at) > CurrentHour(now) - WindowHours})
    /\ log.success = Cardinality(Served)
    /\ log.failed = Cardinality({i \in DOMAIN answers : answers[i].kind = "failed"})

\* The type invariant with the books.
BooksInv == TypeOK /\ BooksAgree

\* "the router will only consider providers that contractually exclude
\* free-tier data from training": and so does what a private request is given.
CacheHonoursPosture ==
    \A i \in Served :
       answers[i].ask.private /\ answers[i].response # None =>
          answers[i].response.provider \in NoTraining
=============================================================================
