# FreeLLM: a verification of the gateway's core

FreeLLM is an OpenAI-compatible gateway that spreads chat completions over the
free tiers of several providers. Its core (`packages/api-server/src/gateway`) is
a small distributed-systems problem inside one Node process: many requests are
in flight, each of them suspended at an `await`, and they share circuit
breakers, rate-limit windows, rotation indices, a response cache, quota counters
and a request log. The unit tests drive these classes one call at a time. The
modules here are about what happens when the calls interleave, when answers come
late, when the clock crosses a boundary, and when the process stops half-way.

Paths below are relative to `src/packages/api-server/src/` unless they start with `src/`.

## 1. Inventory

### Components

**Circuit breaker** (`gateway/circuit-breaker.ts`). State: `state`, `failures`,
`successes`, `nextAttemptAt`, one per provider. Operations: `getState`,
`isAllowed`, `onSuccess`, `onFailure`, `reset`. There is no timer: an open
breaker turns half-open when somebody reads it. Hard: outcomes of calls admitted
in one state are reported in another; every read is a write; half-open does not
count its probes. Correct when: it trips and closes only after the configured
streaks, admits nobody before its timeout, recovers once calls succeed.

**Rate limiter and key ring** (`gateway/rate-limiter.ts`,
`gateway/providers/base.ts`). State: for each API key a sliding window of
dispatch times and a cooldown; for each provider a rotation index and a WeakMap
from a response to its key. Operations: `pickKey` + `recordRequest` in one turn,
`onSuccess`, `onRateLimit`, `isAvailable`, `getKeysStatus`, operator reset. Hard:
concurrent picks, answers in another order than the dispatches, lazy pruning.
Correct when: no key exceeds its window, a 429 cools down the key that was sent,
keys are used evenly.

**Router and registry** (`gateway/router.ts`, `gateway/registry.ts`,
`gateway/privacy.ts`, `gateway/strict.ts`, `gateway/config.ts`). State: the
rotation indices, the strategy, and for each request the locals of `route()`:
excluded providers, deadline, attempts. Operations: one pass of the loop per
turn. Hard: what a request saw before its `await` is stale after it; strict mode,
privacy, failover, retry on another key and the deadline combine. Correct when: a
request reaches only providers it may use, is never sent back to one that failed
it, gives up only for cause, and is answered exactly once.

**Providers** (`gateway/providers/*.ts`). Most only add headers and models to
`BaseProvider`. `claude-code.ts` (a child process) and `claude-code-api.ts` (an
OAuth token) override `complete()`, report some outcomes themselves and keep
reporting while their streams run; both translate between two message formats.
`claude-code-api.ts` keeps one module-level `cachedCreds` beside a file the
Claude CLI writes. Hard: who reports what, how often; requests that refresh
together; the same answer translated as JSON and event by event. Correct when:
what is sent is a valid token, good credentials are not thrown away, and the
translations agree.

**Retry-After and retry advice** (`gateway/retry-after.ts`,
`gateway/retry-advice.ts`, `middleware/error-handler.ts`). Pure. The first turns a
429's header into the cooldown of a key; the second reads the status of every
provider when a request is told that all are exhausted.

**Response cache** (`gateway/cache.ts`). State: a Map in insertion order with
expiry times. Operations: `get` (bumps or expires), `set` (evicts). Correct when:
a hit is fresh, complete, of the same content and the last one stored; the least
recently used entry is evicted.

**Virtual keys** (`gateway/virtual-keys.ts`). State: per key the times and tokens
of the last 24 hours. `assertCanServe` runs before the awaits of a request,
`recordRequest` after them. Correct when: the cap is overrun only by what was in
flight, recovers, and is not eaten by failures.

**Usage tracker** (`gateway/usage-tracker.ts`). Hour buckets per provider.

**Completion handler** (`routes/v1/chat.ts`, `complete()` in `gateway/router.ts`).
Ties guard, cache, routing and books together, and relays streams: a reader of
the upstream, a heartbeat, a listener for the client's disconnect. Hard: identical
requests in flight, four kinds of outcome that each touch other books, a client
that leaves and an upstream that breaks at any moment.

**Streaming pipeline** (`gateway/streaming/*.ts`). State per stream: the SSE
parser's buffer, the normalizer's tool-call indices. Hard: bytes cut anywhere,
calls that several chunks make up. Correct when: events do not depend on the
cuts, and fragments of different calls stay apart.

**Request log** (`gateway/request-log.ts`, `server.ts`). State: a buffer, the
table `request_logs`, `nextSeq`, counters. Operations: `add`, `flush` (timer and
signals), `getPage`, `getRecent`, the constructor. Hard: paging while the log
moves, a crash between add and flush, draining at shutdown. Correct when: only
the oldest entries are lost while the process runs, pages are complete and
without repeats.

**Identifier limiter** (`gateway/identifier-limiter.ts`). A bounded Map of
buckets. Correct when: the quota holds in every sliding window of an identifier
that was not evicted, and the reset time can be trusted.

**Authentication, sessions, browser tokens** (`middleware/auth.ts`,
`middleware/admin-auth.ts`, `auth/session.ts`, `gateway/browser-token.ts`,
`routes/v1/tokens.ts`, `routes/auth.ts`). State: none in the gateway; tokens and
cookies are signed and live with the clients, across restarts into another
environment. Hard: credentials issued from credentials, and what a token carries
(a virtual key, an identifier) through the middleware behind it. Correct when:
nobody gets in without somebody having vouched recently, and a token stays under
the caps of its key and the quota of its identifier.

**Without state of the program's own**: the per-IP limit (configuration of
express-rate-limit), errors and schemas, the dashboard and the website.

### Interactions

```
 client -> auth -> identifierLimit
        -> chat.ts: guardVirtualKey -> router.complete: cache.get -> route()
              |                              |                  loop: pickProvider
              |                              |                     isAvailable of all (breaker, limiter)
              |                              |                  provider.complete: pickKey, recordRequest
              |                              |                     ... await fetch ...
              |                              |                  onSuccess / onRateLimit / onError
              |                        usage, log, cache.set
         recordRequest (virtual key)
 upstream -> reader -> StreamingPipeline (SSEParser, normalizer) -> res.write -> client
 operator -> status.ts: reads and so prunes everything; resets breakers; sets the strategy
 timer    -> requestLog.flush        signals -> flush, server.close, exit
```

The code between two awaits runs alone, so a turn of the event loop is the unit
of atomicity of every module: one action is one turn, with every call it makes.

## 2. Modules

| Module | What it is | Code |
|---|---|---|
| `JavaScript` | the value `None` for null and undefined | |
| `CircuitBreaker` | operators: the breaker after each method ran | `circuit-breaker.ts` |
| `BreakerTraffic` | one breaker under concurrent callers | `base.ts`, `router.ts`, `status.ts` |
| `TimedBreaker` | abstract: a breaker with a real timer | |
| `BreakerTrafficProofs` | theorems about `BreakerTraffic` | |
| `RateLimiter`, `KeyRing` | operators: one key's limiter; the keys of a provider | `rate-limiter.ts`, `base.ts` |
| `KeyPool` | the keys of one provider under concurrent calls | `base.ts`, `router.ts` |
| `KeyPoolProofs` | theorems about `KeyPool` | |
| `Gateway` | routing with failover; composes `CircuitBreaker` and `KeyRing` | `router.ts`, `registry.ts`, `providers/*` |
| `RouteContract` | abstract: what a client is promised | |
| `GatewayProofs` | theorems about `Gateway`, over lemmas on breakers and rings | |
| `ResponseCache`, `VirtualKeys`, `UsageTracker` | operators on each one's state | the files of those names |
| `Completion` | a completion around routing; composes the three above | `chat.ts`, `complete()` |
| `CompletionProofs` | theorems about `Completion`, over lemmas on finite sums | |
| `RequestLog` | the log, its readers, shutdown, crash, start | `request-log.ts`, `server.ts` |
| `RequestLogProofs` | theorems about `RequestLog`, over lemmas on sorted tables | |
| `IdentifierLimiter` | the limiter per identifier | `identifier-limiter.ts` |
| `Access` | the middleware with restarts; composes `IdentifierLimiter` | `auth.ts`, `identifier-limit.ts`, `admin-auth.ts`, `session.ts`, `browser-token.ts`, `tokens.ts`, `virtual-keys.ts` |
| `AccessProofs` | theorems about `IdentifierLimiter`, and over them about `Access` | |
| `OAuthCredentials` | the OAuth token of claude-code-api under concurrent requests | `claude-code-api.ts` |
| `OAuthCredentialsProofs` | theorems about `OAuthCredentials` | |
| `SseStreams`, `ToolCallDeltas` | operators: the SSE parser; the normalizers, and how upstreams stream tool calls (`StreamsCalls`) | `streaming/*.ts` |
| `ClaudeTranslation`, `ClaudeCli` | operators: the claude providers' translations | `claude-code-api.ts`, `claude-code.ts` |
| `StreamRelay` | one stream from upstream to client; composes the four above | `chat.ts`, `pipeline.ts`, `buildSseResponse` |
| `StreamRelayProofs` | theorems about `StreamRelay`, over lemmas on sequences, the parser and the pipeline | |
| `MC*` | model-checking constants and symmetry of each | |

The classes are written as operators on values (a breaker record, a limiter, a
sequence of cache entries) so that a composing module can apply several calls of
one turn one after the other: `Gateway.Fail` is the failure that `complete()`
reports, then the router's, then the poll of all providers, then the next
dispatch, in the order of the code. A read that prunes returns the pruned value.

How state corresponds to code:

* `Gateway.req[r]` holds the locals of `route()` (`excluded`, `deadline`), the
  history of its tries, and the phase: `waiting` at the fetch, `failing` between
  claude-code-api's own report and its throw (it awaits the error body there),
  `streaming` while a claude provider's body is still reporting.
* `Gateway.Proceed` is one pass of `while (true)`: deadline, `pickProvider`,
  `complete()` up to its await, or the error and its retry advice.
* `RateLimiter` keeps the array of times as a set of stamps `<<time, n>>`: the
  code only filters it by age and takes its length.
* `RouteContract.held` is the set of requests whose answer nothing hurries; `Gateway`
  puts there those that wait for a child of the CLI (`AwaitsChild`).
* `Completion` replaces routing by a pause that ends with a failure or with the
  answer of any provider the request may use, which is what `Gateway` shows of it.
  The cache's sequence is in the order of the Map; the counter is a set of numbered
  records, for the code only filters its arrays by age, counts and sums them.
* `StreamRelay` has the handler's loop (`Read`, `ReadQueued`, `Finish`), the
  interval and the close listener, and beside them the upstream: bytes for an
  ordinary provider, or the `start()` of a ReadableStream that a claude provider
  fills by itself (`Produce`, `ProducerEnds`, `ProducerBreaks`). Text is a sequence
  of pieces (CR, LF, line marks, payloads); a read takes any number of them.
* `Access.Enter` is the whole chain in front of a route: `Auth`, the identifier,
  `checkAndRecord`. A signature is the secret it was made with; `callers` records who
  came with what, at the index `history` of the limiter gives the request. `None` is an
  absent identifier header (an empty one counts as absent in both middlewares), `Blank` one
  that says `undefined` or `null`.
* A tool use's input without members is the empty sequence, and so are arguments that
  were streamed as the empty string; the string `{}` is `NoArguments`, and `Stringify` and
  `ParseArguments` go from one to the other as `JSON.stringify` and `JSON.parse` do.
* `StreamRelay.Write` adds to what reaches the client. The handler writes its tail and
  heartbeats to a response that has closed as well; Node discards these.
* `OAuthCredentials`: an access token is the instant it stops being accepted, a
  refresh token its number in the rotation; `cachedCreds` and `file` are what their
  names say, and the awaits of `getAccessToken` are its phases.
* `RequestLog.db` is the set of rows; `Page` and `Recent` build what `getPage` and
  `getRecent` build. The model starts with no database file.

Names ending a comment "Mutant:" are the deliberate mistakes each property was
checked against: with the definition replaced by the mutant, TLC finds the
property violated under the same configuration.

## 3. Runs that pass

**BreakerSafety** (3 callers, thresholds 2 and 2, timeout 2, five ticks): the
breaker agrees with the history of reports (`BreakerInv`), admits nobody before
the timeout of the last trip (`OpenIsQuiet`), trips and closes only after streaks
(`TripsAfterStreak`, `ClosesAfterStreak`), and implements `TimedBreaker`: turning
half-open on the next read cannot be told from a timer. Three callers let a late
success and a late failure meet a breaker that a third one moved on; five ticks
allow a trip, a wait and a second trip. Under fairness the breaker also closes for
good once calls stop failing and stop ending unreported (`Recovers`).

**KeyPoolQuota** (2 keys, 2 calls, window 2, at most 2 per window): `KeysInv` with the
quota in every window of the whole run and not only in the limiter's own;
`EvenSpread`; `CooldownOfOwnKey`; `HonoursRetryAfter` with headers that name a date,
more than the ceiling, or nothing. Three ticks let the window slide past its first
stamps and a cooldown end.

**GatewaySafety** (two ordinary providers with two keys each, both strategies,
breakers that need two failures, two requests of five kinds): `HonoursRequest`
(privacy, model and strict mode on every path, no return to a provider that failed
the request or to a key that was limited), `GatewayInv` (the counters agree with what
happened), `TripsOnEnoughFailures`, `GivesUpForCause`. Two keys make a 429 a retry on the same provider before it
becomes an exclusion.

**GatewayContract** (one provider of each claude kind, streams, Retry-After, two
ticks): `SendsWhenAllowed` (nothing through an open breaker, a used-up or cooling
key, or past the deadline) and `KeepsContract`, the refinement to `RouteContract`
with its liveness: every request is answered, once, with an answer its kind
allows, unless it waits for ever for a child of the CLI, which nothing times out (with
`held` empty the liveness fails); and a strict request that was sent out never hears "exhausted" or "timeout".

**CompletionSafety** (one virtual key with a cap of two requests and one token that
expires after two ticks, a cache with room for one, two contents, two slots, four
requests: keyed, plain and streamed, and unkeyed strict ones): `SoftCap` (the
overrun is bounded by what is in flight), `RefusedForCause`, `BooksInv`,
`CachedAnswers`, `LatestAnswer`. One cache entry makes every insertion an
eviction. Every plain response uses one token here, so a response without usage
is not among the inputs.

**LogSafety** (a log of three entries, pages of two, five entries, three starts):
`LogInv` (sequence numbers in order across crashes, counters that cover the log),
`LosesOldest`, `PagesFaithful` (pages descend without repeats, show all that is
retained, and begin with the recent requests). Five entries overflow the buffer
and the table.

**AccessSafety** (six environments, two of which refuse to start, one restart, ten
kinds of request from two addresses, room for two of three identifiers, quota of one
in two ticks): `LimiterInv`, `RejectedForCause`, `ResetIsHonest` behind the whole
middleware; `FreshlyVouched` and `HeldToTheKey` when tokens and sessions are passed
on and the environment changes; `TokenQuota`, which relates the token, the
two middlewares and the limiter: what is sent with a token and without an identifier header
shares the quota of the token's identifier. A client's own header takes a request out of
it; one of the requests has a header that says `undefined`, and the token may be issued for
such an identifier (section 4). Four requests are enough for: sign in,
issue, use, and one by somebody else. The clock's two ticks are the window, a session's life
and a token's longest: each can elapse, and a token can be used when the session it was
issued from has ended.

**OAuthRefresh** (two requests, rotation on, tokens of three ticks, buffer and latency
of one, six ticks): `CredsInv`, `SendsValidToken`, `LostToRivalsOnly`. Six ticks are
two lifetimes; four grants allow both requests to refresh and the CLI to log in
between.

**StreamRelay** (streams of every kind of provider: Gemini's and Ollama's ways of
streaming calls, all of three fragments; CRLF and LF; a last event without its blank
line; unparsable data; answers with text, tools, a call without arguments, thinking, an error;
the CLI's two endings; no body): `ClientSeesEvents`, `CallsStayApart`, `StreamTellsTheAnswer`,
`AnswerComesBack`, `StreamBooks`, `GoneIsLeftAlone`, and the liveness `Ends`. Every
cut of the bytes into reads is enumerated. `StreamTellsTheAnswer` says also that a stream
which reaches its end shows an error exactly if its upstream failed; `StreamBooks`, that a
provider is blamed once for each error event and at most once more. `GoneIsLeftAlone` is
about the handler: it takes nothing more from the body. The loop of a claude provider is
told nothing and may read on, over what it has nothing to send for (section 4).

### Bounds

Clocks stop at `MaxTime`. What a run is about can elapse before that: the
breaker's timeout twice over, the windows of keys, virtual keys and identifiers
at least once, the route's deadline and the cache's expiry. Other limits may
outlast a run (the key window in GatewaySafety, which is GatewayContract's). `Horizon` is the last time a failure is
reported in `BreakerTraffic`. Histories are saturated (`recent`) or capped
(`MaxAnswers`, `MaxAdded`, `MaxRequests`, `MaxBoots`, `MaxFlying`). `RrWrap`
stands for 1,000,000. In `Gateway` the operator acts and the clock ticks before
`MaxTime` only, and a claude-code-api stream relays at most one error event.
Requests in flight are two or three: every property relates at most two requests
and one shared object. Where requests, callers or identifiers are
interchangeable, symmetry is used, in runs without liveness.

Deadlock is checked in the breaker, key-pool, OAuth and stream runs (a finished
stream stutters explicitly). The others stop by
construction when their bounds are used up and say so in their configuration.

### Fairness

* `BreakerTraffic!FairSpec`: weak fairness of `Tick` (time passes), `Admit` (callers
  keep coming) and `Succeed` (what is sent is answered). No fairness of
  `Observe` or `AdminReset`: recovery needs neither status page nor operator.
* `Gateway!FairSpec`: weak fairness of `Tick` and, unless `AwaitsChild(r)`, of each
  `Respond(r)`. A fetch settles because undici's own header and body timeouts end a silent
  one; nothing in the router would (section 4). The CLI's JSON answer is no fetch:
  it waits for the output and the exit of a child (`gateway/providers/claude-code.ts:226-277`,
  awaited at `:297-331`) without any timeout, so nothing is assumed of it. `SelfReport` is an
  alternative way for the same fetch to settle and needs no fairness: it is
  followed by `Fail`, which is part of `Respond`.
* `RouteContract`: weak fairness of `Reply` to a request that is not in `held`, which is
  the promise.
* `StreamRelay!Spec`: weak fairness of the handler's own steps only, reading what is
  queued and leaving the loop, which the event loop runs once they are ready. Neither
  the upstream nor the client owes anything: `Ends` must hold for a silent upstream.

## 4. Findings

Each of these runs checks one statement of the repository's own documents and
finds a counterexample. `PROJECT.json` quotes the lines.

| Run | Said | Done |
|---|---|---|
| GatewaySelfReport | consecutive failures trip the breaker | a claude-code-api failure counts twice |
| CompletionPosture | no-training requests are only given compliant providers | the cache is asked before the posture |
| LogShutdown | the final flush precedes the exit | it precedes the drain, whose entries are lost |

Other disagreements between a document and the code, met while modelling; the
modules follow the code, and no run is spent on them:

* "On 429 we honor their Retry-After" (`gateway/rate-limiter.ts:16-17`): a 200 to an
  older request on the same key clears the cooldown (`gateway/providers/base.ts:172`).
  `HonoursRetryAfter` is what is left: nothing else does.
* "Earliest moment ANY of the given providers will be usable"
  (`gateway/retry-advice.ts:52-53`): open breakers and full windows are not looked at
  (`:31`), so with every breaker open the client is told to retry in 0 ms.
* "Detect client disconnect and cancel the upstream reader so we don't keep burning
  provider quota" (`routes/v1/chat.ts:189-190`): the listener is registered after
  routing (`:192`). A client that leaves before is not noticed, and its upstream is
  read to the end. Where the client is noticed, `reader.cancel()` ends the fetch of an
  ordinary provider; the streams of the claude providers have no `cancel`, and their loops
  read on (`gateway/providers/claude-code-api.ts:420`, `gateway/providers/claude-code.ts:385`)
  until a send throws: over thinking and pings of the Messages API as long as they last,
  and as long as the CLI takes to say something new.
* A disconnect while a claude stream runs makes `controller.enqueue` throw, and the
  catch counts a failure of the provider (`gateway/providers/claude-code-api.ts:585-603`).
  Disconnects are logged as "success" and charged to the virtual key.
* The claude providers' streams and JSON answers differ where `StreamTellsTheAnswer`
  leaves room: after `error_during_execution` JSON throws and the stream says "stop";
  after `error_max_turns` JSON has no text; text beside tool calls is in the stream
  only; a call without arguments streams "" where JSON says "{}" (`AsStreamed`); a Messages-API
  stream that ends early looks complete.
* Normalizers: with Ollama un-indexed calls of one chunk get one index, in the first chunk
  as in later ones: the first call of a stream sets `seenToolCall`
  (`gateway/streaming/ollama.ts:48`), so no other takes its position; two
  calls to one function get one index with Gemini, and indexed and un-indexed calls
  of one Gemini stream may collide. `CallsStayApart` is checked and proved for streams
  without these (`CallsAssumption`).
* Usage is "accurate token counts" (`src/README.md:357`); streams are recorded
  without usage.
* OAuth: what was refreshed is never written to the file, so where refresh tokens
  rotate the file's is used up after the first refresh; a failed refresh overwrites
  usable credentials of a concurrent request (`gateway/providers/claude-code-api.ts:92-95`).
* "A single malformed chunk ... must never crash the whole response path"
  (`gateway/streaming/pipeline.ts:11-14`): of data that is `null` a property is read outside
  the try block (`:114`), which ends the stream as an error. `ScenariosAssumption` leaves out
  JSON that is no chunk.
* The blast radius of a leaked token is "the rate-limit budget of one identifier"
  (`src/packages/website/src/content/docs/browser-integration.mdx:198`, and `:188`): a header
  of the client's own comes before the token's identifier (`middleware/auth.ts:164`), so
  whoever has the token takes as many budgets as it invents identifiers. A header that says
  `undefined` or `null` is there for `auth.ts` and missing for
  `middleware/identifier-limit.ts:57`, and the address is used. The issuing route accepts
  these two as identifiers (`routes/v1/tokens.ts:32`); the limiter does not reject them
  (`:15-18`), it ignores them. `TokenQuota` is what holds.
* A browser token is held to its virtual key "so the chat route enforces its caps"
  (`middleware/auth.ts:156`); after a restart without that key the token is served
  without caps.
* Half-open: "One request is allowed through"
  (`src/packages/website/src/content/docs/features/circuit-breakers.mdx:18`); the code lets all of them through (`gateway/circuit-breaker.ts:42`).
* `ROUTE_TIMEOUT_MS` bounds the routing (`src/packages/website/src/content/docs/reference/configuration.mdx:32`);
  it is compared between tries only (`gateway/router.ts:156`), so a hanging fetch outlives it. It
  "prevents requests from hanging indefinitely" (`src/SECURITY.md:59`): a child of the Claude CLI
  that neither speaks nor exits is waited for without any limit
  (`gateway/providers/claude-code.ts:226-277`). The form that holds is in `SendsWhenAllowed`: nothing is sent past the deadline.
* A stream's headers count as a success before its body fails
  (`gateway/providers/claude-code.ts:425`), so streams that always break never trip.
* The cache evicts "the oldest entry if at capacity (LRU)" (`gateway/cache.ts:157`),
  but overwriting an entry leaves it in its place (`:181`), where it may be the next to go.
* Usage covers "a rolling 24-hour window" (`src/packages/website/src/content/docs/features/token-usage.mdx:6`);
  whole hours drop out (`gateway/usage-tracker.ts:40`), so it covers 23 to 24. `BooksInv` has the exact form.
* The counters survive restarts (`gateway/request-log.ts:12-13`); they are rebuilt
  from the rows that were kept (`:349`).
* Older databases are migrated (`gateway/request-log.ts:159`), but an index on the
  missing column is created first (`:155`) and fails, so the migration
  (`:163-166`) is unreachable on a table that needs it. `RequestLog` has no migrated rows.

## 5. Proofs

`BreakerTrafficProofs`, for any set of callers, any integers as thresholds and
timeout (also zero and negative ones, which `parseInt` accepts), and any bounds:

* `BreakerInvariant`: `Spec => []BreakerInv`. The invariant is inductive. Beyond
  the types it says that each state carries exactly its own counters, that the
  deadline is the last trip's, that an open or half-open breaker remembers a trip,
  and that counters never exceed the history. `ReadConsistent` shows that a read
  preserves it; `NextInv` has one step per action.
* `OpenBreakerIsQuiet`, `TripNeedsStreak`, `CloseNeedsStreak`: the three action
  properties, from the invariant and `ReportMoves`, which says what a report can
  do to a breaker whose state reads as given.
* `Refinement`: `Spec => ImplementsTimedBreaker`. The mapping shows the breaker as
  a read would return it; a tick maps to `Elapse`, reads map to stuttering, and
  reports map to `CountSuccess` and `CountFailure` by the state that is read.

`KeyPoolProofs`, for any number of keys, calls and any positive limits:

* `KeyQuota`: `Spec => []KeysInv`. The quota speaks of the history of all dispatches,
  which the limiter forgets, so it is strengthened by `PoolInv`: what is fresh in
  the limiter is what is fresh in the history, and the stamps of one instant are
  numbered without gaps, so that a dispatch adds exactly one element. The step
  that matters is a dispatch: a window that contains the new stamp is contained
  in the fresh part, which was below the limit.
* `CooldownIsOwn`: `CooldownOfOwnKey`.
* `SpreadsEvenly`: `EvenSpread`, from `GoesRound`: while every key is usable the key
  picked is the one the rotation points at, so each key has had n requests and those
  that were passed in this lap one more.
* `RetryAfterHonoured`: `HonoursRetryAfter` for any set of headers, from `WaitsOut`: a
  key that still has to wait is blocked at least until then. `ParsedFacts` shows that
  no header is parsed to less than it asks for, below the ceiling.

`GatewayProofs`, for any number of providers, keys and concurrent requests, any
order of the models, both strategies and any limits:

* `TypeCorrect` and `RequestsHonoured`, from `RouteInv`. `HonoursRequest` speaks of the
  tries only; what makes it inductive is that every provider that failed a request is
  among its excluded ones whenever it may enter the loop again (`FailedExcluded`),
  and that a request in the loop cannot repeat its last try at once: its provider is
  excluded or its key is not free (`Ready`, from `MarkedNotFree`).
* `SendsOnlyWhenAllowed` and `GivesUpOnlyForCause`, from `StepShape`: a step is a pass
  of the loop (`Turn`), a quiet step of one request, or leaves the requests alone. A
  turn starts from breakers and rings its handler may have changed, and no provider
  that is still allowed looks better there than before the turn. `PassFacts` says how
  a pass ends, and that reading providers changes nobody's answer.
* `AnswersKeepContract`, the step simulation of `RouteContract`. A strict request
  hears no timeout because only its first pass can, before its deadline.
* `CountersAgree`: `GatewayInv`, from `CountInv`. The tries of all requests with one
  provider and one outcome (`Places`) form a finite set, because a step adds one try at
  most; the provider's counters are its cardinality (`Tallied`), also for the tries
  that are still open, each of which is the last of a request that waits (`Pending`).
* `RoutedTripsNeedFailures`: the breaker of a provider outside `SelfReporting` opens
  only after as many of its tries have failed as the threshold asks for: a breaker
  counts no failure that is not a try's outcome. `TripsNeedFailures` concludes
  `TripsOnEnoughFailures` where `SelfReporting` is empty. That hypothesis is not a
  convenience: with a provider that reports by itself the property is false, which is
  what the run GatewaySelfReport shows.

`AccessProofs`, for any identifiers, limit, window and ceiling of the Map, and for any
environments, requests, lifetimes and number of restarts:

* `QuotaHolds`, `RejectionsHaveCause`, `ResetsAreHonest`, of the limiter by itself, from
  one invariant, `LimiterIInv`: what a bucket holds was granted to its identifier
  (`OnlyOwnTimes`); what was granted in the current window is in the bucket unless it
  was evicted, although idle buckets are dropped (`RemembersWindow`); whoever was
  rejected last has a time that leaves the window when promised (`ResetFreesSlot`).
* `CredentialsAreVouched`: every credential at large is traced to the request that
  handed it out (`HandedOut`), which came with something better than a token.
* `QuotaBehindAuth`: the limiter's invariant survives the composition; a restart
  counts what it forgets as evicted.
* `TokensAreWorthTheLimit`: `TokenQuota`. What relates the token to the limiter is
  `CountedAsIssued`: a request with a token, whose client sent no identifier header, is in
  the limiter's history under the identifier the token was issued for. So the
  requests of this kind that were let in with a token map one to one into what was granted
  to its identifier. Nothing is said of requests with a header of their own, which the
  limiter counts elsewhere.
* `TokensHeldToKeys`: `HeldToTheKey`.

`RequestLogProofs`, for any size of the log, of its pages and its buffer, any number of
requests and of starts:

* `NumberingHolds` (`LogInv`), `PagesAreFaithful` (`PagesFaithful`), from `LogIInv`. It adds
  to them that the buffer was added after every row and in its order
  (`BufferAfterRows`), that ids tell entries apart, in memory, in the table and in a
  reader's hands (`IdsTellApart`), and that between two pages a reader has everything
  that was there at the start and still is, down to the cursor (`ReadDownToCursor`).
  The lemmas on tables say what sorting, the newest n rows and appending to them
  return.
* `ForgetsOldestOnly`: `LosesOldest`.

`CompletionProofs`, for any contents, providers, caps (or none), windows, size of the
cache and finite set of slots:

* `CompletionHolds`: the inductive invariant `CompletionIInv`, in parts: the virtual key's
  counter has exactly the charged answers of its window (`Counts`); what the answers in
  any window took leaves room for what is in flight (`CapsHeld`); each bucket of usage is
  the sum over its hour (`BucketsOf`); each cache entry is the last response stored for
  its content (`CacheOf`, `CachedOf`); the log counts the answers (`LogOf`).
* `BooksHold` (`BooksInv`), `SoftCapHolds` (`SoftCap`), `CachedAnswersHold`
  (`CachedAnswers`), `LatestAnswerHolds` (`LatestAnswer`) are its consequences, and
  `RefusalsHaveCauses` (`RefusedForCause`) follows in a step from `Counts`.
* The sums are folds over finite sets. That such a fold exists and adds up is proved from
  a least subset for which it would not (`LeastSubset`, `UnfoldsExists`), and from it
  that adding, removing, renaming and partitioning act as expected (`SumAdd`, `SumRemove`,
  `SumRenamed`, `SumByBucket`).

`StreamRelayProofs`, for any set of upstreams that `ScenariosAssumption` allows, of any
length, and for any cut of their bytes into reads:

* `GoneLeftAlone`: `GoneIsLeftAlone`, from `Cancelled` (once the handler knows that the
  client left, the body is cancelled or broken and nothing is queued) and `OwnStreams`
  (only a claude provider's loop enqueues, and its body is never broken). The step that
  matters is the loop's own: on a cancelled body it goes on only past an event it has
  nothing to send for.
* `RelayBooksHold`: `RelayBooks`. `Blamed` and `Blames` make it inductive: a provider whose
  upstream did not fail was blamed at most once, and then its loop is over; one that did
  fail, once for each error event it handled (`HandledSize`) and at most once more. These two
  hold of upstreams that are not well-formed as well.
* `PushedOn`: parsing what is left of one read together with the next gives the events,
  and leaves the rest, that parsing the whole at once would. The parser does not keep
  its lines: `UnixLines` is applied to the buffer with the next read in front of it, so
  a CR whose LF has not come is seen twice. `Reads` relates a raw text to the blocks it
  has closed and the block that is open; `Settled` says that the open block, read again,
  reads as itself, which holds of every text without two CRs in a row (`Clean`,
  `CleanIsSettled`). `ReadsOn` puts the two together.
* `PushedAll`: the round trip. What an http upstream serializes with LF or with CRLF,
  the last blank line left out or not, is parsed to its events (`EventRead`, `WireRead`,
  `WireTells`).
* `RenderedConcat`: rendering the events of two reads one after the other is rendering
  them together, for the pipeline's state is carried over.
* `ClientSeesItsEvents`: `ClientSeesEvents`. The invariant is `HttpIInv`: buffer and
  pipeline are what one `push` of all that was read so far would have left
  (`WhileRelaying`), and what a client that stayed has read is what that push would have
  rendered. Heartbeats fall anywhere in between (`NewsHeartbeat`).
* `StreamBooksHold`: `StreamBooks` with the logged text. `TextBooks` relates the pipeline's
  text to what was written; `RenderedText` says that rendering adds to it exactly the
  text of the chunks it lets out, whatever the normalizer does to their tool calls.
  `OwnWrites` and `OwnEventRead` say that a claude provider's chunks are read whole.
* `CallsKeptApart`: `CallsStayApart`, for every number of calls and fragments, and however
  fragments are put into chunks. For http upstreams, `Normed` says what a normalizer has
  made of the fragments so far, and what its state has to do with them: Gemini's names are
  those of the fragments, each once, and the last of them is that of the call that began
  last; Ollama's last index is the last call's, or 0 (`GeminiIndex` and `OllamaIndex`,
  fragment by fragment: `NormedNext`). What was read is a prefix of what would be rendered
  of all that is sent (`ClientSeesEvents`), and of that `NormedEvents` speaks. For the
  Messages API, `Walk` says which block is open after each event of the answer, and `Placed`
  that `buildSseResponse` has noted for each block that began how many tool uses came
  before it, which no two tool uses have in common (`CallNumberOnce`). `CallsBooks` is the
  invariant: what is queued and what the client has read is made of such fragments.
* What the provers lack for sequences is proved here: `Induction` and `SeqInduction`, over
  sets of numbers and of sequences, from a least element of a finite set; and that
  `Split`, `FlattenSeq`, `Rendered` and `FixAll` unfold (`SplitsExists`, `FlattensExists`,
  `RendersExists`, `FixesExists`), with what appending does to each.

`OAuthCredentialsProofs`, for any number of requests, with and without rotation:

* `CredentialsKept`, `TokensValid`, `LostOnlyToRivals`, from `OAuthInv`: no expiry
  noted is later than the server's by more than the way of the answer; a grant is on
  its way to a request that is refreshing; and whoever refreshes while the credentials
  in memory are good was refreshing already when they were stored.

Assumptions are the named ASSUMEs of the modules, which say no more than the code
does about its settings: `BreakerAssumption`, `TrafficAssumption`,
`LimiterAssumption`, `KeyAssumption`, `PoolAssumption`, `GatewayAssumption` (which
says how the catalogue is formed: the models' orders, disjoint provider kinds),
`IdentifierAssumption`, `AccessAssumption`, `RequestLogAssumption`,
`CompletionAssumption` (a response's token count comes from a finite, non-empty set, and
slots are finite), `VirtualKeyAssumption`, `CacheAssumption`, `UsageAssumption`,
`OAuthAssumption` (which holds an answer's travel time to the refresh buffer, as undici's
header timeout does), `ScenariosAssumption` (an http upstream ends all its lines in LF or
all in CRLF, sends data and comments, and what it sends that is JSON is a chunk; data that
is no JSON is allowed; texts are sequences), `CallsAssumption` (tool calls are streamed as
OpenAI specifies it, with the call's index, or as the comments of `streaming/gemini.ts` and
`streaming/ollama.ts` describe these two: without an index, a call begun by its name, or
continuing the call before; a message of the Messages API tells its tool uses apart by their
ids, and does not come from Gemini or Ollama), and that `None` is no value of the
model (no number, identifier, request or response).

Only model-checked:

* The liveness properties (`Recovers`, `Ends`, the liveness of the contract), which
  TLAPS does not support.
* `StreamTellsTheAnswer` and `AnswerComesBack`, which compare the whole answer with what
  another translation makes of it. These translations fold and select with operators as
  arguments (`FoldLeft`, `SelectSeq`), as the code's `reduce` and `filter` do, and of these
  the provers know neither a definition they can unfold nor a fact. They are checked on
  small answers of every kind.

## 6. What is abstracted or left out

* Contents of requests, prompts and responses. A request is its model, its
  flags, and for the cache its content, which is what `buildKey` hashes.
* The cache's hit and miss counters, enabling switch and `clear()` (no caller).
* The microtask between the end of `complete()` and the handler's `recordRequest`
  counts as one turn: no other I/O callback can run in it.
* A stream's payload is one piece and is cut no further; decoding of split UTF-8 is the
  TextDecoder's. The heartbeat writes once in a run of the model.
* The child process of claude-code begins with its output: the flattened prompt, the
  arguments and `stdin` (whose pipe has no error handler) are not modelled.
* A token's or a session's encoding is left out; its signature verifies exactly under
  the secret it was made with. `GET /auth/me` and logout change nothing in the gateway.
* The identifier's sanitizing, and the per-IP limit in front of it.
* The error handler's `getStatusAll` after a strict 429 is a later `Status`.
* Requests refused by the guard are not in the request log, as in the code.
* A crash may happen at any time; a failing flush is a crash (timer) or is
  swallowed after the batch was taken out of the buffer (signal handler).
* Several virtual keys do not interact; one is modelled. All providers of a
  model instance have the same number of keys and the same window limit.
* Not modelled: the per-IP limit (a library), errors' wording and request schemas,
  the mapping of headers and model names by the ordinary providers (text), `getById`
  and bodies of the log, the status page's rendering, dashboard, website, generated
  clients.

## 7. What would come next

1. `StreamTellsTheAnswer` for every answer: the client's and the translations' selections as
   recursive functions, and the induction over sequences that `StreamRelayProofs` has.
2. Several virtual keys, and providers with different numbers of keys.
3. The quota of a key inside `Gateway`, whose history has no times of dispatch; `KeyPool`
   shows it of one provider.
