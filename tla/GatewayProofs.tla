---------------------------- MODULE GatewayProofs ----------------------------
(***************************************************************************)
(* Proofs about routing with failover, for any number of providers, keys   *)
(* and concurrent requests, any order of the models and any setting.       *)
(***************************************************************************)
EXTENDS Gateway, FiniteSetTheorems, TLAPS

\* The rings the program can reach: no window grows without bound.
Rings == [Providers -> [Keys -> {l \in Limiter : IsFiniteSet(l.window)}]]

Breakers == [Providers -> Breaker]

Stats == [Providers -> [total : Nat, success : Nat, failed : Nat, limited : Nat]]

Locals == [phase : {"idle", "waiting", "failing", "streaming", "done"},
           ask : Asks \cup {None}, deadline : Nat, excluded : SUBSET Providers,
           tries : Seq(Try), answer : Answer \cup {None}]

\* HonoursRequest for one request
Honours(q) ==
    /\ \A i \in DOMAIN q.tries : Matches(q.ask, q.tries[i].provider)
    /\ Len(q.tries) > 0 /\ q.ask.strict => Len(q.tries) = 1
    /\ \A i, j \in DOMAIN q.tries :
          /\ i < j /\ q.tries[i].outcome = "failed" =>
                q.tries[j].provider # q.tries[i].provider
          /\ j = i + 1 /\ q.tries[j].provider = q.tries[i].provider =>
                q.tries[j].key # q.tries[i].key

\* Every provider that failed the request is struck off.
FailedExcluded(q) ==
    \A i \in DOMAIN q.tries :
       q.tries[i].outcome = "failed" => q.tries[i].provider \in q.excluded

\* The locals of a request between two turns
Settled(q) ==
    /\ q \in Locals
    /\ q.ask = None <=> q.phase = "idle"
    /\ q.phase = "idle" => q.tries = <<>>
    /\ q.phase \in {"waiting", "failing", "streaming"} => q.tries # <<>>
    /\ q.phase \in {"waiting", "failing"} => FailedExcluded(q)
    /\ q.phase \in {"idle", "waiting", "failing"} => q.answer = None
    /\ q.tries # <<>> => ~Refused(q.ask)
    /\ Honours(q)

\* The locals of a request that enters route()'s loop when the rings are R: its
\* last try cannot be repeated at once.
Ready(q, R) ==
    /\ q \in Locals /\ q.ask \in Asks
    /\ q.answer = None /\ ~Refused(q.ask)
    /\ Honours(q) /\ FailedExcluded(q)
    /\ q.tries # <<>> =>
          /\ ~q.ask.strict
          /\ \/ LastTry(q).provider \in q.excluded
             \/ LastTry(q).key \notin FreeKeys(R[LastTry(q).provider], now)

\* The inductive invariant
RouteInv ==
    /\ now \in Nat
    /\ breaker \in Breakers
    /\ ring \in Rings
    /\ rotation \in [Providers -> Keys]
    /\ stats \in Stats
    /\ strategy \in {"round_robin", "random"}
    /\ rr \in [Metas \cup {None} -> 0 .. RrWrap - 1]
    /\ req \in [Requests -> Locals]
    /\ \A r \in Requests : Settled(req[r])

\* Everything but the requests is well-formed after the step.
SharedTyped ==
    /\ now' \in Nat /\ breaker' \in Breakers /\ ring' \in Rings
    /\ rotation' \in [Providers -> Keys] /\ stats' \in Stats
    /\ strategy' \in {"round_robin", "random"}
    /\ rr' \in [Metas \cup {None} -> 0 .. RrWrap - 1]

\* A step that brings request r to x without a new try: it goes on as it was, it
\* is refused at once, or a provider it may use answers it.
Quiet(r, x) ==
    /\ req' = [req EXCEPT ![r] = x] /\ Settled(x)
    /\ SharedTyped
    /\ x.excluded \subseteq req[r].excluded /\ Len(x.tries) = Len(req[r].tries)
    /\ \/ x.ask = req[r].ask /\ x.answer = req[r].answer
       \/ /\ req[r].ask = None /\ req[r].answer = None
          /\ x.ask \in Asks /\ Refused(x.ask)
          /\ x.answer = [kind |-> "refused", provider |-> None, advice |-> None]
       \/ /\ x.ask = req[r].ask /\ req[r].answer = None
          /\ x.ask \in Asks /\ ~Refused(x.ask)
          /\ \E kind \in {"served", "upstream"}, p \in Providers :
                /\ Matches(x.ask, p)
                /\ x.answer = [kind |-> kind, provider |-> p, advice |-> None]

\* A turn that enters route()'s loop for request r with the locals q, breakers B,
\* rings R and counters S its handler left.  No provider the request may still
\* use looks better than before the turn, and the handler struck one off for a
\* cause.
Turn(r, q, B, R, S) ==
    /\ B \in Breakers /\ R \in Rings /\ S \in Stats
    /\ q \in Locals /\ q.ask \in Asks /\ Honours(q)
    /\ q.answer = None /\ ~Refused(q.ask)
    /\ req[r].answer = None /\ Len(q.tries) = Len(req[r].tries)
    /\ req[r].ask = IF q.tries = <<>> THEN None ELSE q.ask
    /\ q.tries = <<>> => now <= q.deadline
    /\ \A p \in Providers \ q.excluded :
          /\ IsAllowed(B[p], now) => IsAllowed(breaker[p], now)
          /\ FreeKeys(R[p], now) \subseteq FreeKeys(ring[p], now)
    /\ \A p \in q.excluded \ req[r].excluded :
          \/ \E i \in DOMAIN q.tries :
                q.tries[i].provider = p /\ q.tries[i].outcome = "failed"
          \/ ~Usable(B, R, p)
    /\ UNCHANGED <<now, strategy>>
    /\ \/ /\ q.ask.strict /\ q.tries # <<>>
          /\ req' = [req EXCEPT ![r] = Answered(q, "upstream", LastTry(q).provider, None)]
          /\ breaker' = B /\ ring' = R /\ stats' = S
          /\ UNCHANGED <<rotation, rr>>
       \/ Ready(q, R) /\ Proceed(r, q, B, R, S)

-----------------------------------------------------------------------------
(* The breakers and the key rings of the providers.                        *)

\* Each method maps a well-formed breaker to a well-formed breaker.
LEMMA MethodsTyped ==
    ASSUME NEW b \in Breaker, NEW t \in Int
    PROVE  /\ GetState(b, t) \in Breaker
           /\ Trip(t) \in Breaker
           /\ ResetBreaker \in Breaker
           /\ BreakerSuccess(b, t) \in Breaker
           /\ BreakerFailure(b, t) \in Breaker
<1> USE BreakerAssumption, NoneAssumption DEF Breaker, BreakerState
<1>1. Trip(t) \in Breaker /\ ResetBreaker \in Breaker
  BY DEF Trip, ResetBreaker, NewBreaker
<1>2. GetState(b, t) \in Breaker
  BY DEF GetState
<1>3. BreakerSuccess(b, t) \in Breaker
  BY <1>1, <1>2 DEF BreakerSuccess
<1>4. BreakerFailure(b, t) \in Breaker
  BY <1>1, <1>2 DEF BreakerFailure
<1> QED
  BY <1>1, <1>2, <1>3, <1>4

\* Reading the state twice at one instant gives one answer.
LEMMA ReadTwice ==
    ASSUME NEW b \in Breaker, NEW t \in Int
    PROVE  /\ GetState(GetState(b, t), t) = GetState(b, t)
           /\ IsAllowed(GetState(b, t), t) <=> IsAllowed(b, t)
<1>1. CASE b.state = "open" /\ t >= NextAttempt(b)
  <2>1. GetState(b, t).state = "half_open"
    BY <1>1 DEF GetState, Breaker
  <2> QED
    BY <2>1 DEF GetState, IsAllowed
<1>2. CASE ~(b.state = "open" /\ t >= NextAttempt(b))
  BY <1>2 DEF GetState, IsAllowed
<1> QED
  BY <1>1, <1>2

\* Dropping the old stamps once is enough, and later ones only drop more.
LEMMA FreshFacts ==
    ASSUME NEW W \in SUBSET (Nat \X Nat), NEW t \in Nat
    PROVE  /\ Fresh(W, t) \subseteq W
           /\ Fresh(Fresh(W, t), t) = Fresh(W, t)
           /\ Fresh(Fresh(W, t), t + 1) = Fresh(W, t + 1)
           /\ Fresh(W, t + 1) \subseteq Fresh(W, t)
  BY LimiterAssumption, NoneAssumption DEF Fresh

\* Checking a limiter never changes what it will answer at that time.
LEMMA CheckedFacts ==
    ASSUME NEW l \in Limiter, NEW t \in Nat
    PROVE  /\ Checked(l, t) \in Limiter
           /\ Fresh(Checked(l, t).window, t) = Fresh(l.window, t)
           /\ InCooldown(Checked(l, t), t) <=> InCooldown(l, t)
           /\ Checked(l, t).blockedUntil \in {l.blockedUntil, None}
           /\ InCooldown(l, t) => Checked(l, t).blockedUntil = l.blockedUntil
           /\ Checked(l, t).window \subseteq l.window
<1>1. CASE InCooldown(l, t)
  BY <1>1 DEF Checked, Limiter
<1>2. CASE ~InCooldown(l, t)
  <2>1. Checked(l, t) = [blockedUntil |-> None, window |-> Fresh(l.window, t)]
    BY <1>2 DEF Checked
  <2>2. /\ l.window \in SUBSET (Nat \X Nat)
        /\ Fresh(l.window, t) \subseteq l.window
        /\ Fresh(Fresh(l.window, t), t) = Fresh(l.window, t)
    BY FreshFacts DEF Limiter
  <2>3. QED
    BY <1>2, <2>1, <2>2 DEF InCooldown, Limiter
<1> QED
  BY <1>1, <1>2

\* Scanning keys never changes which of them are free at that time.
LEMMA ScanFacts ==
    ASSUME NEW r \in [Keys -> Limiter], NEW S, NEW t \in Nat
    PROVE  /\ Scan(r, S, t) \in [Keys -> Limiter]
           /\ \A k \in Keys :
                 /\ Fresh(Scan(r, S, t)[k].window, t) = Fresh(r[k].window, t)
                 /\ IsRateLimited(Scan(r, S, t)[k], t) <=> IsRateLimited(r[k], t)
                 /\ Scan(r, S, t)[k].blockedUntil \in {r[k].blockedUntil, None}
                 /\ InCooldown(r[k], t) => Scan(r, S, t)[k].blockedUntil = r[k].blockedUntil
                 /\ Scan(r, S, t)[k].window \subseteq r[k].window
<1>1. ASSUME NEW k \in Keys
      PROVE  /\ Scan(r, S, t)[k] \in Limiter
             /\ Fresh(Scan(r, S, t)[k].window, t) = Fresh(r[k].window, t)
             /\ IsRateLimited(Scan(r, S, t)[k], t) <=> IsRateLimited(r[k], t)
             /\ Scan(r, S, t)[k].blockedUntil \in {r[k].blockedUntil, None}
             /\ InCooldown(r[k], t) => Scan(r, S, t)[k].blockedUntil = r[k].blockedUntil
             /\ Scan(r, S, t)[k].window \subseteq r[k].window
  <2>1. Scan(r, S, t)[k] \in {Checked(r[k], t), r[k]}
    BY DEF Scan
  <2>2. r[k] \in Limiter
    OBVIOUS
  <2>3. QED
    BY <2>1, <2>2, CheckedFacts DEF IsRateLimited, IsWindowFull
<1>2. QED
  BY <1>1 DEF Scan

\* A cooldown starts and ends without touching the window.
LEMMA LimiterFacts ==
    ASSUME NEW l \in Limiter, NEW t \in Nat, NEW ra \in Nat \cup {None}
    PROVE  /\ ClearRateLimit(l) \in Limiter
           /\ ClearRateLimit(l).window = l.window
           /\ ClearRateLimit(l).blockedUntil = None
           /\ MarkRateLimited(l, t, ra) \in Limiter
           /\ MarkRateLimited(l, t, ra).window = l.window
<1>1. t + (IF ra = None THEN DefaultCooldown ELSE ra) \in Nat
  BY LimiterAssumption, NoneAssumption
<1>2. QED
  BY <1>1 DEF ClearRateLimit, MarkRateLimited, Limiter

\* The operator's reset ends every cooldown and keeps every window.
LEMMA ClearedFacts ==
    ASSUME NEW r \in [Keys -> Limiter]
    PROVE  /\ Cleared(r) \in [Keys -> Limiter]
           /\ \A k \in Keys : /\ Cleared(r)[k].window = r[k].window
                             /\ Cleared(r)[k].blockedUntil = None
<1>1. \A k \in Keys : /\ ClearRateLimit(r[k]) \in Limiter
                      /\ ClearRateLimit(r[k]).window = r[k].window
                      /\ ClearRateLimit(r[k]).blockedUntil = None
  BY LimiterFacts, LimiterAssumption, NoneAssumption
<1> QED
  BY <1>1 DEF Cleared

-----------------------------------------------------------------------------
LEMMA MinimumExists ==
    ASSUME NEW S \in SUBSET Nat, S # {}
    PROVE  \E d \in S : \A e \in S : d <= e
<1>1. PICK d \in S : \A e \in S : <<e, d>> \notin OpToRel(<, Nat)
  BY WFMin, NatLessThanWellFounded, Zenon
<1>2. \A e \in S : ~(e < d)
  BY <1>1, Zenon DEF OpToRel
<1> QED
  BY <1>2

\* The advice to the client is a wait in ticks, or none.
LEMMA AdviceTyped ==
    ASSUME NEW R \in Rings, now \in Nat
    PROVE  RetryAdvice(R) \in Nat \cup {None}
<1>1. ASSUME NEW p \in Providers PROVE RetryHint(R, p) \in Nat \cup {None}
  <2> DEFINE left == {CooldownLeft(R[p][k], now) : k \in Keys} \ {None}
  <2>1. ASSUME NEW k \in Keys PROVE CooldownLeft(R[p][k], now) \in Nat \cup {None}
    <3>1. R[p][k].blockedUntil \in Nat \cup {None}
      BY DEF Rings, Limiter
    <3> QED
      BY <3>1, NoneAssumption DEF CooldownLeft, InCooldown
  <2>2. left \in SUBSET Nat
    BY <2>1
  <2> DEFINE least == CHOOSE d \in left : \A e \in left : d <= e
  <2>3. RetryHint(R, p) \in {0, None} \/ (left # {} /\ RetryHint(R, p) = least)
    BY DEF RetryHint
  <2> HIDE DEF left
  <2>4. left # {} => least \in Nat
    BY <2>2, MinimumExists
  <2> HIDE DEF least
  <2> QED
    BY <2>3, <2>4
<1> DEFINE hints == {RetryHint(R, p) : p \in Providers} \ {None}
<1>2. hints \in SUBSET Nat
  BY <1>1
<1> DEFINE least == CHOOSE d \in hints : \A e \in hints : d <= e
<1>3. RetryAdvice(R) = None \/ (hints # {} /\ RetryAdvice(R) = least)
  BY DEF RetryAdvice
<1> HIDE DEF hints
<1>4. hints # {} => least \in Nat
  BY <1>2, MinimumExists
<1> HIDE DEF least
<1> QED
  BY <1>3, <1>4

\* Polling providers keeps every part well-formed and frees no key.
LEMMA PolledFacts ==
    ASSUME NEW B \in Breakers, NEW R \in Rings, NEW P, now \in Nat
    PROVE  /\ PolledBreakers(B, P) \in Breakers
           /\ PolledRings(B, R, P) \in Rings
           /\ StatusRings(R) \in Rings
           /\ \A p \in Providers :
                 /\ IsAllowed(PolledBreakers(B, P)[p], now) <=> IsAllowed(B[p], now)
                 /\ FreeKeys(PolledRings(B, R, P)[p], now) = FreeKeys(R[p], now)
                 /\ FreeKeys(StatusRings(R)[p], now) = FreeKeys(R[p], now)
<1>1. PolledBreakers(B, P) \in Breakers
  BY MethodsTyped DEF Breakers, PolledBreakers
<1>2. ASSUME NEW p \in Providers, NEW S
      PROVE  /\ Scan(R[p], S, now) \in [Keys -> {l \in Limiter : IsFiniteSet(l.window)}]
             /\ FreeKeys(Scan(R[p], S, now), now) = FreeKeys(R[p], now)
  <2>1. R[p] \in [Keys -> Limiter] /\ \A k \in Keys : IsFiniteSet(R[p][k].window)
    BY DEF Rings
  <2>2. /\ Scan(R[p], S, now) \in [Keys -> Limiter]
        /\ \A k \in Keys :
              /\ IsRateLimited(Scan(R[p], S, now)[k], now) <=> IsRateLimited(R[p][k], now)
              /\ Scan(R[p], S, now)[k].window \subseteq R[p][k].window
    BY <2>1, ScanFacts
  <2>3. \A k \in Keys : IsFiniteSet(Scan(R[p], S, now)[k].window)
    BY <2>1, <2>2, FS_Subset
  <2> QED
    BY <2>2, <2>3 DEF FreeKeys
<1>3. \A p \in Providers : PolledRings(B, R, P)[p] = R[p]
                           \/ \E S : PolledRings(B, R, P)[p] = Scan(R[p], S, now)
  BY DEF PolledRings, ScanAvailable
<1>4. PolledRings(B, R, P) \in Rings
  BY <1>2, <1>3 DEF Rings, PolledRings
<1>5. StatusRings(R) \in Rings
  BY <1>2 DEF Rings, StatusRings
<1>6. \A p \in Providers :
         /\ FreeKeys(PolledRings(B, R, P)[p], now) = FreeKeys(R[p], now)
         /\ FreeKeys(StatusRings(R)[p], now) = FreeKeys(R[p], now)
  BY <1>2, <1>3 DEF StatusRings
<1>7. \A p \in Providers :
         IsAllowed(PolledBreakers(B, P)[p], now) <=> IsAllowed(B[p], now)
  <2>1. \A p \in Providers : IsAllowed(GetState(B[p], now), now) <=> IsAllowed(B[p], now)
    BY ReadTwice DEF Breakers
  <2> QED
    BY <2>1 DEF PolledBreakers
<1> QED
  BY <1>1, <1>4, <1>5, <1>6, <1>7

\* Fields of locals that were changed one at a time.
LEMMA LocalsFacts ==
    ASSUME NEW q \in Locals
    PROVE  /\ q.tries \in Seq(Try)
           /\ Len(q.tries) \in Nat
           /\ DOMAIN q.tries = 1 .. Len(q.tries)
           /\ \A i \in DOMAIN q.tries : q.tries[i] \in Try
           /\ q.tries # <<>> => /\ Len(q.tries) > 0
                                /\ LastTry(q) \in Try
                                /\ LastTry(q).provider \in Providers
                                /\ LastTry(q).key \in Keys
<1>1. q.tries \in Seq(Try)
  BY DEF Locals
<1>2. \A i \in DOMAIN q.tries : q.tries[i] \in Try
  BY <1>1
<1>3. q.tries # <<>> => Len(q.tries) > 0
  BY <1>1
<1>4. q.tries # <<>> => LastTry(q) \in Try
  BY <1>1, <1>2, <1>3 DEF LastTry
<1> QED
  BY <1>1, <1>2, <1>3, <1>4 DEF Try

\* The outcome of the last try is recorded, and nothing else changes.
LEMMA EndedFacts ==
    ASSUME NEW r \in Requests, req \in [Requests -> Locals], Settled(req[r]),
           req[r].tries # <<>>, NEW o \in Outcomes
    PROVE  /\ Ended(r, o) \in Locals
           /\ Ended(r, o).phase = req[r].phase
           /\ Ended(r, o).ask = req[r].ask
           /\ Ended(r, o).excluded = req[r].excluded
           /\ Ended(r, o).answer = req[r].answer
           /\ Len(Ended(r, o).tries) = Len(req[r].tries)
           /\ Ended(r, o).tries # <<>>
           /\ LastTry(Ended(r, o)).provider = LastTry(req[r]).provider
           /\ LastTry(Ended(r, o)).key = LastTry(req[r]).key
           /\ LastTry(Ended(r, o)).outcome = o
           /\ \A i \in DOMAIN req[r].tries :
                 /\ Ended(r, o).tries[i].provider = req[r].tries[i].provider
                 /\ Ended(r, o).tries[i].key = req[r].tries[i].key
                 /\ i # Len(req[r].tries) =>
                       Ended(r, o).tries[i].outcome = req[r].tries[i].outcome
           /\ Honours(Ended(r, o))
<1> DEFINE q == req[r]
           e == Ended(r, o)
           n == Len(q.tries)
           last == [q.tries[n] EXCEPT !.outcome = o]
           t == [q.tries EXCEPT ![n] = last]
<1>1. /\ q \in Locals /\ q.tries \in Seq(Try)
      /\ n \in Nat /\ n > 0 /\ DOMAIN q.tries = 1 .. n
      /\ \A i \in DOMAIN q.tries : q.tries[i] \in Try
  BY LocalsFacts
<1>2. e = [q EXCEPT !.tries = t]
  BY DEF Ended
<1>3. /\ last \in Try /\ last.outcome = o
      /\ last.provider = q.tries[n].provider /\ last.key = q.tries[n].key
  BY <1>1 DEF Try
<1> HIDE DEF last
<1>4. /\ t \in Seq(Try) /\ Len(t) = n /\ DOMAIN t = DOMAIN q.tries
      /\ t[n] = last
      /\ \A i \in DOMAIN q.tries : i # n => t[i] = q.tries[i]
  BY <1>1, <1>3
<1> HIDE DEF t
<1>5. /\ e \in Locals /\ e.tries = t
      /\ e.phase = q.phase /\ e.ask = q.ask /\ e.excluded = q.excluded
      /\ e.answer = q.answer
  BY <1>1, <1>2, <1>4 DEF Locals
<1>6. e.tries # <<>>
  BY <1>1, <1>4, <1>5
<1>7. LastTry(e) = last /\ LastTry(q) = q.tries[n]
  BY <1>4, <1>5 DEF LastTry
<1>8. \A i \in DOMAIN q.tries :
         /\ e.tries[i].provider = q.tries[i].provider
         /\ e.tries[i].key = q.tries[i].key
         /\ i # n => e.tries[i].outcome = q.tries[i].outcome
  BY <1>3, <1>4, <1>5
<1>9. Honours(e)
  <2>1. Honours(q)
    BY DEF Settled
  <2>2. \A i, j \in DOMAIN q.tries : i < j => i # n
    BY <1>1
  <2>3. DOMAIN e.tries = DOMAIN q.tries /\ Len(e.tries) = n
    BY <1>4, <1>5
  <2> HIDE DEF e, q, n
  <2>4. \A i \in DOMAIN e.tries : Matches(e.ask, e.tries[i].provider)
    BY <1>5, <1>8, <2>1, <2>3 DEF Honours
  <2>5. Len(e.tries) > 0 /\ e.ask.strict => Len(e.tries) = 1
    BY <1>5, <2>1, <2>3 DEF Honours, n
  <2>6. ASSUME NEW i \in DOMAIN e.tries, NEW j \in DOMAIN e.tries
        PROVE  /\ i < j /\ e.tries[i].outcome = "failed" =>
                     e.tries[j].provider # e.tries[i].provider
               /\ j = i + 1 /\ e.tries[j].provider = e.tries[i].provider =>
                     e.tries[j].key # e.tries[i].key
    BY <1>8, <2>1, <2>2, <2>3 DEF Honours
  <2> QED
    BY <2>4, <2>5, <2>6 DEF Honours
<1> QED
  BY <1>3, <1>4, <1>5, <1>6, <1>7, <1>8, <1>9

\* The next try of a request that is ready for it goes where it may go.
LEMMA NextTry ==
    ASSUME NEW q, NEW R \in Rings, NEW B, Ready(q, R),
           NEW p \in Candidates(q, B, R), NEW k \in FreeKeys(R[p], now),
           NEW x, x = [q EXCEPT !.phase = "waiting",
                                !.tries = Append(@, [provider |-> p, key |-> k,
                                                     outcome |-> None])]
    PROVE  Settled(x)
<1> DEFINE new == [provider |-> p, key |-> k, outcome |-> None]
           n == Len(q.tries)
<1>1. /\ q \in Locals /\ q.ask \in Asks /\ Honours(q) /\ FailedExcluded(q)
      /\ q.answer = None /\ ~Refused(q.ask)
      /\ q.tries \in Seq(Try) /\ n \in Nat /\ DOMAIN q.tries = 1 .. n
      /\ q.tries # <<>> => n > 0
  BY LocalsFacts DEF Ready
<1>2. p \in Providers /\ Matches(q.ask, p) /\ p \notin q.excluded /\ k \in Keys
  BY DEF Candidates, FreeKeys
<1>3. new \in Try /\ new.provider = p /\ new.key = k /\ new.outcome = None
  BY <1>2 DEF Try, Outcomes
<1> HIDE DEF new
<1>4. /\ Append(q.tries, new) \in Seq(Try)
      /\ Len(Append(q.tries, new)) = n + 1
      /\ DOMAIN Append(q.tries, new) = 1 .. n + 1
      /\ Append(q.tries, new)[n + 1] = new
      /\ \A i \in 1 .. n : Append(q.tries, new)[i] = q.tries[i]
      /\ Append(q.tries, new) # <<>>
  BY <1>1, <1>3
<1>5. /\ x \in Locals /\ x.tries = Append(q.tries, new)
      /\ x.phase = "waiting" /\ x.ask = q.ask /\ x.excluded = q.excluded
      /\ x.answer = q.answer
  <2>1. x = [q EXCEPT !.phase = "waiting", !.tries = Append(@, new)]
    BY DEF new
  <2> QED
    BY <1>1, <1>4, <2>1 DEF Locals
<1>6. x.ask # None
  BY <1>1, <1>5, GatewayAssumption
<1>7. FailedExcluded(x)
  <2>1. ASSUME NEW i \in DOMAIN x.tries, x.tries[i].outcome = "failed"
        PROVE  x.tries[i].provider \in x.excluded
    <3>1. CASE i = n + 1
      BY <1>3, <1>4, <1>5, <2>1, <3>1, GatewayAssumption DEF Endings
    <3>2. CASE i # n + 1
      BY <1>1, <1>4, <1>5, <2>1, <3>2 DEF FailedExcluded
    <3> QED
      BY <3>1, <3>2
  <2> QED
    BY <2>1 DEF FailedExcluded
<1>8. Honours(x)
  <2>1. \A i \in DOMAIN x.tries : Matches(x.ask, x.tries[i].provider)
    BY <1>1, <1>2, <1>3, <1>4, <1>5 DEF Honours
  <2>2. Len(x.tries) > 0 /\ x.ask.strict => Len(x.tries) = 1
    BY <1>1, <1>4, <1>5 DEF Ready
  <2>3. ASSUME NEW i \in DOMAIN x.tries, NEW j \in DOMAIN x.tries
        PROVE  /\ i < j /\ x.tries[i].outcome = "failed" =>
                     x.tries[j].provider # x.tries[i].provider
               /\ j = i + 1 /\ x.tries[j].provider = x.tries[i].provider =>
                     x.tries[j].key # x.tries[i].key
    <3>1. CASE i \in 1 .. n /\ j \in 1 .. n
      BY <1>1, <1>4, <1>5, <3>1 DEF Honours
    <3>2. CASE i \in 1 .. n /\ j = n + 1
      <4>1. x.tries[i] = q.tries[i] /\ x.tries[j] = new
        BY <1>4, <1>5, <3>2
      <4>2. q.tries[i].outcome = "failed" => q.tries[i].provider # p
        BY <1>1, <1>2, <3>2 DEF FailedExcluded
      <4>3. j = i + 1 /\ q.tries[i].provider = p => q.tries[i].key # k
        <5>1. SUFFICES ASSUME j = i + 1, q.tries[i].provider = p PROVE q.tries[i].key # k
          OBVIOUS
        <5>2. i = n /\ q.tries # <<>> /\ LastTry(q) = q.tries[i]
          BY <1>1, <3>2, <5>1 DEF LastTry
        <5>3. LastTry(q).key \notin FreeKeys(R[p], now)
          BY <1>2, <5>1, <5>2 DEF Ready
        <5> QED
          BY <5>2, <5>3
      <4> QED
        BY <1>3, <4>1, <4>2, <4>3
    <3>3. CASE i = n + 1
      BY <1>1, <1>4, <1>5, <3>3
    <3> QED
      BY <1>4, <1>5, <3>1, <3>2, <3>3
  <2> QED
    BY <2>1, <2>2, <2>3 DEF Honours
<1> QED
  BY <1>1, <1>4, <1>5, <1>6, <1>7, <1>8 DEF Settled

\* A request that is answered is settled.
LEMMA AnsweredFacts ==
    ASSUME NEW q \in Locals, q.ask \in Asks, Honours(q), q.tries # <<>> => ~Refused(q.ask),
           NEW p \in Providers \cup {None},
           NEW kind \in {"served", "upstream", "refused", "exhausted", "timeout"},
           NEW advice \in Nat \cup {None}
    PROVE  /\ Settled(Answered(q, kind, p, advice))
           /\ Answered(q, kind, p, advice).tries = q.tries
           /\ Answered(q, kind, p, advice).ask = q.ask
           /\ Answered(q, kind, p, advice).excluded = q.excluded
           /\ Answered(q, kind, p, advice).answer
                 = [kind |-> kind, provider |-> p, advice |-> advice]
<1> DEFINE a == [kind |-> kind, provider |-> p, advice |-> advice]
           x == Answered(q, kind, p, advice)
<1>1. a \in Answer
  BY DEF Answer
<1>2. x = [q EXCEPT !.phase = "done", !.answer = a]
  BY DEF Answered
<1> HIDE DEF a, x
<1>3. /\ x \in Locals /\ x.phase = "done" /\ x.ask = q.ask /\ x.tries = q.tries
      /\ x.excluded = q.excluded /\ x.answer = a
  BY <1>1, <1>2 DEF Locals
<1>4. x.ask # None
  BY <1>3, GatewayAssumption
<1>5. Honours(x)
  BY <1>3 DEF Honours
<1> QED
  BY <1>3, <1>4, <1>5 DEF Settled, x, a

\* Recording a dispatch keeps the window finite.
LEMMA RecordTyped ==
    ASSUME NEW l \in Limiter, IsFiniteSet(l.window), NEW t \in Nat
    PROVE  /\ RecordRequest(l, t) \in Limiter
           /\ IsFiniteSet(RecordRequest(l, t).window)
<1> DEFINE f == Fresh(l.window, t)
           s == Stamp(f, t)
<1>1. f \in SUBSET (Nat \X Nat) /\ IsFiniteSet(f)
  BY FreshFacts, FS_Subset DEF Limiter
<1> HIDE DEF f
<1>2. IsFiniteSet({x \in f : x[1] = t})
  BY <1>1, FS_Subset
<1>3. s \in Nat \X Nat
  BY <1>2, FS_CardinalityType DEF Stamp
<1> HIDE DEF s
<1>4. f \cup {s} \in SUBSET (Nat \X Nat) /\ IsFiniteSet(f \cup {s})
  BY <1>1, <1>3, FS_AddElement
<1>5. RecordRequest(l, t) = [l EXCEPT !.window = f \cup {s}]
  BY DEF RecordRequest, f, s
<1> QED
  BY <1>4, <1>5 DEF Limiter

LEMMA DispatchRings ==
    ASSUME NEW R \in Rings, NEW p \in Providers, NEW k \in Keys, NEW rot, now \in Nat
    PROVE  [R EXCEPT ![p] = SentThrough(@, rot, k)] \in Rings
<1> DEFINE picked == ScanPick(R[p], rot, now)
<1>1. R[p] \in [Keys -> Limiter] /\ \A j \in Keys : IsFiniteSet(R[p][j].window)
  BY DEF Rings
<1>2. /\ picked \in [Keys -> Limiter]
      /\ \A j \in Keys : picked[j].window \subseteq R[p][j].window
  BY <1>1, ScanFacts DEF ScanPick
<1> HIDE DEF picked
<1>3. \A j \in Keys : IsFiniteSet(picked[j].window)
  BY <1>1, <1>2, FS_Subset
<1>4. /\ RecordRequest(picked[k], now) \in Limiter
      /\ IsFiniteSet(RecordRequest(picked[k], now).window)
  BY <1>2, <1>3, RecordTyped
<1>5. SentThrough(R[p], rot, k) \in [Keys -> {l \in Limiter : IsFiniteSet(l.window)}]
  BY <1>2, <1>3, <1>4 DEF SentThrough, picked
<1> QED
  BY <1>5 DEF Rings

\* A step that settles one request and keeps the rest well-formed keeps the
\* invariant.
LEMMA OneRequest ==
    ASSUME RouteInv, NEW r \in Requests, NEW x, Settled(x),
           req' = [req EXCEPT ![r] = x],
           SharedTyped
    PROVE  RouteInv'
<1>1. req' \in [Requests -> Locals]
  BY DEF RouteInv, Settled
<1>2. \A s \in Requests : req'[s] = IF s = r THEN x ELSE req[s]
  BY DEF RouteInv
<1>3. \A s \in Requests : Settled(req'[s])
  BY <1>2 DEF RouteInv
<1> QED
  BY <1>1, <1>3 DEF RouteInv, SharedTyped, Settled, Honours, FailedExcluded, LastTry, Breakers, Rings, Stats, Locals

\* One pass of the loop, from what the handler left behind.
LEMMA ProceedFacts ==
    ASSUME RouteInv, NEW r \in Requests, NEW q, NEW B \in Breakers, NEW R \in Rings,
           NEW S \in Stats, Ready(q, R), Proceed(r, q, B, R, S),
           UNCHANGED <<now, strategy>>
    PROVE  RouteInv'
<1> DEFINE polledB == PolledBreakers(B, Providers)
           polledR == PolledRings(B, R, Providers)
           C       == Candidates(q, B, R)
<1>1. /\ now \in Nat /\ rotation \in [Providers -> Keys]
      /\ strategy \in {"round_robin", "random"}
      /\ rr \in [Metas \cup {None} -> 0 .. RrWrap - 1]
  BY DEF RouteInv
<1>2. /\ polledB \in Breakers /\ polledR \in Rings
      /\ \A p \in Providers : FreeKeys(polledR[p], now) = FreeKeys(R[p], now)
  BY <1>1, PolledFacts
<1>3. ASSUME NEW kind \in {"timeout", "exhausted"}, NEW B2 \in Breakers, NEW R2 \in Rings,
             GiveUp(r, q, kind, B2, R2, S)
      PROVE  RouteInv'
  <2>1. RetryAdvice(R2) \in Nat \cup {None}
    BY <1>1, AdviceTyped
  <2>2. Settled(Answered(q, kind, None, RetryAdvice(R2)))
    BY <2>1, AnsweredFacts DEF Ready
  <2>3. breaker' \in Breakers /\ ring' \in Rings
    BY <1>1, <1>3, PolledFacts DEF GiveUp
  <2> QED
    BY <1>1, <1>3, <2>2, <2>3, OneRequest DEF GiveUp, SharedTyped
<1>4. ASSUME NEW p \in Providers, AdvanceRr(q.ask), Picks(q.ask, C, p),
             Dispatch(r, q, p, polledB, polledR, S)
      PROVE  RouteInv'
  <2> HIDE DEF polledB, polledR
  <2>1. PICK k \in Keys :
          /\ PickKey(polledR[p], rotation[p], now, k)
          /\ breaker' = polledB
          /\ ring' = [polledR EXCEPT ![p] = SentThrough(@, rotation[p], k)]
          /\ rotation' = [rotation EXCEPT ![p] = NextKey(k)]
          /\ stats' = [S EXCEPT ![p].total = @ + 1]
          /\ req' = [req EXCEPT ![r] =
                       [q EXCEPT !.phase = "waiting",
                                 !.tries = Append(@, [provider |-> p, key |-> k,
                                                      outcome |-> None])]]
    BY <1>4 DEF Dispatch
  <2>2. k \in FreeKeys(R[p], now) /\ p \in C
    BY <1>2, <1>4, <2>1 DEF PickKey, Picks
  <2> DEFINE x == [q EXCEPT !.phase = "waiting",
                            !.tries = Append(@, [provider |-> p, key |-> k,
                                                 outcome |-> None])]
  <2>3. Settled(x)
    BY <2>2, NextTry
  <2>4. ring' \in Rings
    BY <1>1, <1>2, <2>1, DispatchRings
  <2>5. rotation' \in [Providers -> Keys]
    <3>1. NextKey(k) \in Keys
      BY KeyAssumption DEF NextKey, Keys
    <3> QED
      BY <1>1, <2>1, <3>1
  <2>6. stats' \in Stats
    BY <2>1 DEF Stats
  <2>7. rr' \in [Metas \cup {None} -> 0 .. RrWrap - 1]
    <3>1. \A i \in Nat : i % RrWrap \in 0 .. RrWrap - 1
      BY GatewayAssumption
    <3>2. RrKey(q.ask.model) \in Metas \cup {None}
      BY DEF RrKey
    <3>3. (rr[RrKey(q.ask.model)] + 1) % RrWrap \in 0 .. RrWrap - 1
      BY <1>1, <3>1, <3>2
    <3> QED
      BY <1>1, <1>4, <3>2, <3>3 DEF AdvanceRr
  <2>8. req' = [req EXCEPT ![r] = x]
    BY <2>1
  <2> HIDE DEF x
  <2> QED
    BY <1>1, <1>2, <2>1, <2>3, <2>4, <2>5, <2>6, <2>7, <2>8, OneRequest DEF SharedTyped
<1> QED
  BY <1>2, <1>3, <1>4 DEF Proceed

LEMMA InitInv == Init => RouteInv
<1> SUFFICES ASSUME Init PROVE RouteInv
  OBVIOUS
<1> USE KeyAssumption, GatewayAssumption, NoneAssumption
<1>1. breaker \in Breakers
  BY DEF Init, Breakers, NewBreaker, Breaker, BreakerState
<1>2. ring \in Rings
  <2>1. NewLimiter \in Limiter /\ IsFiniteSet(NewLimiter.window)
    BY FS_EmptySet DEF NewLimiter, Limiter
  <2> QED
    BY <2>1 DEF Init, Rings
<1>3. rotation \in [Providers -> Keys] /\ stats \in Stats
  BY DEF Init, Keys, NewStats, Stats
<1>4. rr \in [Metas \cup {None} -> 0 .. RrWrap - 1]
  BY DEF Init
<1>5. Unasked \in Locals /\ Settled(Unasked)
  BY DEF Unasked, Locals, Settled, Honours
<1> QED
  BY <1>1, <1>2, <1>3, <1>4, <1>5 DEF Init, RouteInv

\* What the handlers of an answer start from.
LEMMA PendingFacts ==
    ASSUME RouteInv, NEW r \in Requests, req[r].phase \in {"waiting", "failing", "streaming"}
    PROVE  /\ req[r] \in Locals /\ req[r].ask \in Asks
           /\ req[r].tries # <<>> /\ Honours(req[r]) /\ ~Refused(req[r].ask)
           /\ req[r].phase \in {"waiting", "failing"} =>
                 req[r].answer = None /\ FailedExcluded(req[r])
           /\ LastTry(req[r]).provider \in Providers
           /\ Matches(req[r].ask, LastTry(req[r]).provider)
           /\ LastTry(req[r]).key \in Keys
<1>1. Settled(req[r])
  BY DEF RouteInv
<1>2. req[r] \in Locals /\ req[r].tries # <<>> /\ req[r].ask # None
  BY <1>1 DEF Settled
<1>3. req[r].ask \in Asks
  BY <1>2 DEF Locals
<1>4. Matches(req[r].ask, LastTry(req[r]).provider)
  BY <1>1, <1>2, LocalsFacts DEF Settled, Honours, LastTry
<1> QED
  BY <1>1, <1>2, <1>3, <1>4, LocalsFacts DEF Settled

\* The rings after a 429 of provider p through key k
Marked(p, k, ra) == [ring EXCEPT ![p][k] = MarkRateLimited(@, now, ra)]

\* Setting off a cooldown, ending one and counting keep every part well-formed.
LEMMA RingUpdates ==
    ASSUME RouteInv, NEW p \in Providers, NEW k \in Keys, NEW ra \in Nat \cup {None}
    PROVE  /\ [ring EXCEPT ![p][k] = ClearRateLimit(@)] \in Rings
           /\ Marked(p, k, ra) \in Rings
<1>1. /\ ring \in Rings /\ now \in Nat
      /\ ring[p][k] \in Limiter /\ IsFiniteSet(ring[p][k].window)
  BY DEF RouteInv, Rings
<1>2. /\ ClearRateLimit(ring[p][k]) \in {l \in Limiter : IsFiniteSet(l.window)}
      /\ MarkRateLimited(ring[p][k], now, ra) \in {l \in Limiter : IsFiniteSet(l.window)}
  BY <1>1, LimiterFacts
<1>3. ASSUME NEW l \in {l \in Limiter : IsFiniteSet(l.window)}
      PROVE  [ring EXCEPT ![p][k] = l] \in Rings
  BY <1>1 DEF Rings
<1> QED
  BY <1>2, <1>3 DEF Marked

\* A 429 leaves its key cooling down and frees none.
LEMMA MarkedNotFree ==
    ASSUME RouteInv, NEW p \in Providers, NEW k \in Keys,
           NEW ra \in RetryAfters \cup {None}
    PROVE  /\ k \notin FreeKeys(Marked(p, k, ra)[p], now)
           /\ \A o \in Providers :
                 FreeKeys(Marked(p, k, ra)[o], now) \subseteq FreeKeys(ring[o], now)
<1> DEFINE R == Marked(p, k, ra)
           l == MarkRateLimited(ring[p][k], now, ra)
<1>1. now \in Nat /\ ring[p][k] \in Limiter /\ ring \in Rings
  BY DEF RouteInv, Rings
<1>2. /\ R[p][k] = l
      /\ \A o \in Providers, j \in Keys : o # p \/ j # k => R[o][j] = ring[o][j]
  BY <1>1 DEF Rings, Marked
<1>3. l.blockedUntil = now + (IF ra = None THEN DefaultCooldown ELSE ra)
  BY <1>1 DEF MarkRateLimited, Limiter
<1>4. l.blockedUntil \in Nat /\ now < l.blockedUntil
  <2> DEFINE wait == IF ra = None THEN DefaultCooldown ELSE ra
  <2>1. wait \in Nat \ {0}
    BY LimiterAssumption, GatewayAssumption
  <2> HIDE DEF wait, l
  <2>2. now + wait \in Nat /\ now < now + wait
    BY <1>1, <2>1
  <2>3. l.blockedUntil = now + wait
    BY <1>3 DEF wait
  <2> QED
    BY <2>2, <2>3
<1>5. InCooldown(l, now)
  BY <1>4, NoneAssumption DEF InCooldown
<1> HIDE DEF l, R
<1>6. k \notin FreeKeys(R[p], now)
  BY <1>2, <1>5 DEF FreeKeys, IsRateLimited
<1>7. ASSUME NEW o \in Providers, NEW j \in FreeKeys(R[o], now)
      PROVE  j \in FreeKeys(ring[o], now)
  <2>1. o # p \/ j # k
    BY <1>6
  <2> QED
    BY <1>2, <2>1 DEF FreeKeys
<1> QED
  BY <1>6, <1>7 DEF R

LEMMA CountTyped ==
    ASSUME NEW S \in Stats, NEW p \in Providers, NEW n \in Nat, NEW m \in Nat
    PROVE  /\ [S EXCEPT ![p].success = @ + n] \in Stats
           /\ [S EXCEPT ![p].limited = @ + n] \in Stats
           /\ [S EXCEPT ![p].failed = @ + n] \in Stats
           /\ [S EXCEPT ![p].failed = @ + n, ![p].limited = @ + m] \in Stats
<1> DEFINE Counters == [total : Nat, success : Nat, failed : Nat, limited : Nat]
<1>1. /\ S[p] \in Counters
      /\ S[p].success + n \in Nat /\ S[p].limited + n \in Nat
      /\ S[p].failed + n \in Nat /\ S[p].limited + m \in Nat
  BY DEF Stats
<1>2. ASSUME NEW c \in Counters PROVE [S EXCEPT ![p] = c] \in Stats
  BY <1>2 DEF Stats
<1>3. /\ [S[p] EXCEPT !.success = @ + n] \in Counters
      /\ [S[p] EXCEPT !.limited = @ + n] \in Counters
      /\ [S[p] EXCEPT !.failed = @ + n] \in Counters
      /\ [S[p] EXCEPT !.failed = @ + n, !.limited = @ + m] \in Counters
  BY <1>1
<1>4. /\ [S EXCEPT ![p].success = @ + n] = [S EXCEPT ![p] = [S[p] EXCEPT !.success = @ + n]]
      /\ [S EXCEPT ![p].limited = @ + n] = [S EXCEPT ![p] = [S[p] EXCEPT !.limited = @ + n]]
      /\ [S EXCEPT ![p].failed = @ + n] = [S EXCEPT ![p] = [S[p] EXCEPT !.failed = @ + n]]
  OBVIOUS
<1>5. [S EXCEPT ![p].failed = @ + n, ![p].limited = @ + m]
         = [S EXCEPT ![p] = [S[p] EXCEPT !.failed = @ + n, !.limited = @ + m]]
  BY <1>1 DEF Stats
<1> HIDE DEF Counters
<1> QED
  BY <1>2, <1>3, <1>4, <1>5

LEMMA StartTurn ==
    ASSUME RouteInv, NEW r \in Requests, Start(r)
    PROVE  \/ \E x : Quiet(r, x)
           \/ \E q : Turn(r, q, breaker, ring, stats)
<1>1. PICK a \in Asks :
         LET q == [Unasked EXCEPT !.ask = a, !.deadline = now + RouteTimeout]
         IN  \/ /\ Refused(a)
                /\ req' = [req EXCEPT ![r] = Answered(q, "refused", None, None)]
                /\ UNCHANGED <<providerVars, rr>>
             \/ ~Refused(a) /\ Proceed(r, q, breaker, ring, stats)
  BY DEF Start
<1> DEFINE q == [Unasked EXCEPT !.ask = a, !.deadline = now + RouteTimeout]
<1>2. UNCHANGED <<now, strategy>>
  BY DEF Start
<1>3. /\ q \in Locals /\ q.ask = a /\ q.tries = <<>> /\ q.excluded = {}
      /\ q.answer = None /\ now <= q.deadline
  <2>1. now + RouteTimeout \in Nat /\ now <= now + RouteTimeout
    BY GatewayAssumption DEF RouteInv
  <2>2. /\ Unasked \in Locals /\ Unasked.tries = <<>> /\ Unasked.excluded = {}
        /\ Unasked.answer = None
    BY DEF Unasked, Locals
  <2> QED
    BY <2>1, <2>2 DEF Locals
<1> HIDE DEF q
<1>4. /\ req[r].ask = None /\ req[r].answer = None
      /\ Len(req[r].tries) = Len(q.tries)
  BY <1>3 DEF Start, RouteInv, Settled, Locals
<1>5. Honours(q) /\ FailedExcluded(q)
  BY <1>3 DEF Honours, FailedExcluded
<1>6. CASE Refused(a) /\ UNCHANGED <<providerVars, rr>>
           /\ req' = [req EXCEPT ![r] = Answered(q, "refused", None, None)]
  <2> DEFINE x == Answered(q, "refused", None, None)
  <2>1. /\ Settled(x) /\ x.tries = q.tries /\ x.ask = a /\ x.excluded = {}
        /\ x.answer = [kind |-> "refused", provider |-> None, advice |-> None]
    BY <1>3, <1>5, AnsweredFacts
  <2> HIDE DEF x
  <2>2. SharedTyped
    BY <1>2, <1>6 DEF SharedTyped, RouteInv, providerVars
  <2>3. req' = [req EXCEPT ![r] = x]
    BY <1>6 DEF x
  <2>4. Quiet(r, x)
    BY <1>6, <1>4, <2>1, <2>2, <2>3 DEF Quiet
  <2> QED
    BY <2>4
<1>7. CASE ~Refused(a) /\ Proceed(r, q, breaker, ring, stats)
  <2>1. Ready(q, ring)
    BY <1>3, <1>5, <1>7 DEF Ready
  <2>2. breaker \in Breakers /\ ring \in Rings /\ stats \in Stats
    BY DEF RouteInv
  <2>3. Turn(r, q, breaker, ring, stats)
    BY <1>2, <1>3, <1>5, <1>7, <1>4, <2>1, <2>2 DEF Turn
  <2> QED
    BY <2>3
<1> QED
  BY <1>1, <1>6, <1>7 DEF q

LEMMA SucceedQuiet ==
    ASSUME RouteInv, NEW r \in Requests, Succeed(r) PROVE \E x : Quiet(r, x)
<1> DEFINE p == LastTry(req[r]).provider
           k == LastTry(req[r]).key
           e == Ended(r, "ok")
           q == Answered(e, "served", p, None)
<1>1. /\ req[r] \in Locals /\ req[r].ask \in Asks /\ req[r].tries # <<>>
      /\ p \in Providers /\ k \in Keys /\ ~Refused(req[r].ask)
      /\ Matches(req[r].ask, p) /\ req[r].answer = None
  BY PendingFacts DEF Succeed
<1>2. req \in [Requests -> Locals] /\ Settled(req[r]) /\ now \in Nat
  BY DEF RouteInv
<1>3. /\ e \in Locals /\ e.ask \in Asks /\ e.tries # <<>> /\ Honours(e)
      /\ ~Refused(e.ask) /\ Matches(e.ask, p) /\ e.ask = req[r].ask
      /\ e.excluded = req[r].excluded /\ Len(e.tries) = Len(req[r].tries)
      /\ req[r].answer = None
  BY <1>1, <1>2, EndedFacts DEF Outcomes, Endings
<1>4. PICK x \in {q, [q EXCEPT !.phase = "streaming"]} :
         req' = [req EXCEPT ![r] = x]
  BY DEF Succeed
<1> HIDE DEF e
<1>5. /\ Settled(q) /\ q.tries = e.tries /\ q.ask = e.ask /\ q.excluded = e.excluded
      /\ q.answer = [kind |-> "served", provider |-> p, advice |-> None]
  BY <1>1, <1>3, AnsweredFacts
<1> HIDE DEF q
<1>6. /\ Settled(x) /\ x.ask = q.ask /\ x.excluded = q.excluded
      /\ x.tries = q.tries /\ x.answer = q.answer
  <2>1. CASE x = [q EXCEPT !.phase = "streaming"]
    <3>1. /\ q \in Locals /\ q.tries # <<>> /\ Honours(q)
          /\ q.ask # None /\ ~Refused(q.ask)
      BY <1>3, <1>5 DEF Settled, Answered, q
    <3>2. /\ x \in Locals /\ x.phase = "streaming" /\ x.ask = q.ask /\ x.tries = q.tries
          /\ x.excluded = q.excluded /\ x.answer = q.answer
      BY <2>1, <3>1 DEF Locals
    <3>3. Honours(x)
      BY <3>1, <3>2 DEF Honours
    <3> QED
      BY <3>1, <3>2, <3>3 DEF Settled
  <2> QED
    BY <1>4, <1>5, <2>1
<1>7. breaker' \in Breakers
  <2>1. BreakerSuccess(breaker[p], now) \in Breaker
    BY <1>1, <1>2, MethodsTyped DEF RouteInv, Breakers
  <2> QED
    BY <2>1 DEF Succeed, RouteInv, Breakers
<1>8. ring' \in Rings
  BY <1>1, RingUpdates DEF Succeed
<1>9. stats' \in Stats
  <2>1. PICK n \in {1, 2} : stats' = [stats EXCEPT ![p].success = @ + n]
    BY DEF Succeed
  <2>2. stats \in Stats /\ n \in Nat
    BY DEF RouteInv
  <2> HIDE DEF p
  <2> QED
    BY <1>1, <2>1, <2>2, CountTyped
<1>10. UNCHANGED <<now, rotation, strategy, rr>>
  BY DEF Succeed
<1>11. SharedTyped
  BY <1>7, <1>8, <1>9, <1>10 DEF SharedTyped, RouteInv
<1>12. Quiet(r, x)
  BY <1>1, <1>3, <1>4, <1>5, <1>6, <1>11 DEF Quiet
<1> QED
  BY <1>12

\* What the handlers of a 429 and of a failure leave of the tries, the breakers
\* and the counters.
AfterLimit(r, q, B, S) ==
    LET p == LastTry(req[r]).provider
    IN  /\ q.tries = Ended(r, "limited").tries
        /\ B = PolledBreakers(breaker, {p})
        /\ S = [stats EXCEPT ![p].limited = @ + (IF p \in OAuth THEN 2 ELSE 1)]

AfterFailure(r, own, ra, q, B, S) ==
    LET p == LastTry(req[r]).provider
        b == IF own THEN BreakerFailure(breaker[p], now) ELSE breaker[p]
    IN  /\ q.tries = Ended(r, "failed").tries
        /\ B = [breaker EXCEPT ![p] = BreakerFailure(b, now)]
        /\ S = [stats EXCEPT ![p].failed = @ + (IF own THEN 2 ELSE 1),
                             ![p].limited = @ + (IF ra = None THEN 0 ELSE 1)]

LEMMA RateLimitedTurn ==
    ASSUME RouteInv, NEW r \in Requests, NEW ra \in RetryAfters \cup {None},
           RateLimited(r, ra)
    PROVE  \E q, B, R, S : Turn(r, q, B, R, S) /\ AfterLimit(r, q, B, S)
<1> DEFINE p == LastTry(req[r]).provider
           k == LastTry(req[r]).key
           e == Ended(r, "limited")
           R == [ring EXCEPT ![p][k] = MarkRateLimited(@, now, ra)]
           S == [stats EXCEPT ![p].limited = @ + (IF p \in OAuth THEN 2 ELSE 1)]
           q == [e EXCEPT !.excluded = IF Usable(breaker, R, p) THEN @ ELSE @ \cup {p}]
           B2 == PolledBreakers(breaker, {p})
           R2 == PolledRings(breaker, R, {p})
<1>1. /\ req[r] \in Locals /\ req[r].ask \in Asks /\ req[r].tries # <<>>
      /\ p \in Providers /\ k \in Keys
      /\ req[r].answer = None /\ ~Refused(req[r].ask)
  BY PendingFacts DEF RateLimited
<1>2. /\ req \in [Requests -> Locals] /\ Settled(req[r]) /\ FailedExcluded(req[r])
      /\ now \in Nat /\ breaker \in Breakers /\ stats \in Stats
  BY DEF RouteInv, RateLimited, Settled
<1>3. ra \in Nat \cup {None}
  BY GatewayAssumption
<1>4. /\ R \in Rings /\ k \notin FreeKeys(R[p], now)
      /\ \A o \in Providers : FreeKeys(R[o], now) \subseteq FreeKeys(ring[o], now)
  <2> HIDE DEF p, k
  <2>1. R = Marked(p, k, ra)
    BY DEF Marked
  <2> HIDE DEF R
  <2>2. R \in Rings
    BY <1>1, <1>3, <2>1, RingUpdates
  <2> QED
    BY <1>1, <2>1, <2>2, MarkedNotFree
<1>5. S \in Stats
  <2>1. (IF p \in OAuth THEN 2 ELSE 1) \in Nat
    OBVIOUS
  <2> QED
    BY <1>1, <1>2, <2>1, CountTyped
<1>6. /\ UNCHANGED <<now, strategy>>
      /\ \/ /\ q.ask.strict
            /\ req' = [req EXCEPT ![r] = Answered(q, "upstream", p, None)]
            /\ breaker' = B2
            /\ ring' = R2
            /\ stats' = S
            /\ UNCHANGED <<rotation, rr>>
         \/ ~q.ask.strict /\ Proceed(r, q, B2, R2, S)
  BY DEF RateLimited
<1> HIDE DEF R, S
<1>7. /\ B2 \in Breakers /\ R2 \in Rings
      /\ \A o \in Providers :
            /\ IsAllowed(B2[o], now) <=> IsAllowed(breaker[o], now)
            /\ FreeKeys(R2[o], now) = FreeKeys(R[o], now)
  <2> HIDE DEF p
  <2> QED
    BY <1>1, <1>2, <1>4, PolledFacts
<1>8. /\ e \in Locals /\ e.ask \in Asks /\ Honours(e) /\ e.tries # <<>>
      /\ Len(e.tries) = Len(req[r].tries)
      /\ LastTry(e).provider = p /\ LastTry(e).key = k /\ LastTry(e).outcome = "limited"
      /\ e.ask = req[r].ask /\ e.excluded = req[r].excluded /\ e.answer = None /\ ~Refused(e.ask)
      /\ \A i \in DOMAIN req[r].tries :
            /\ e.tries[i].provider = req[r].tries[i].provider
            /\ i # Len(req[r].tries) => e.tries[i].outcome = req[r].tries[i].outcome
  BY <1>1, <1>2, EndedFacts DEF Outcomes, Endings
<1> HIDE DEF e, p, k, B2, R2
<1>9. /\ q \in Locals /\ q.ask = e.ask /\ q.tries = e.tries /\ q.answer = e.answer
      /\ e.excluded \subseteq q.excluded
      /\ \A o \in q.excluded \ e.excluded : ~Usable(breaker, R, o)
  BY <1>1, <1>8 DEF Locals
<1> HIDE DEF q
<1>10. Honours(q) /\ LastTry(q) = LastTry(e)
  BY <1>8, <1>9 DEF Honours, LastTry
<1>11. FailedExcluded(q)
  <2>1. DOMAIN q.tries = DOMAIN req[r].tries
    BY <1>1, <1>8, <1>9, LocalsFacts
  <2>2. \A i \in DOMAIN q.tries : q.tries[i].outcome = "failed" => i # Len(req[r].tries)
    BY <1>8, <1>9 DEF LastTry
  <2> QED
    BY <1>2, <1>8, <1>9, <2>1, <2>2 DEF FailedExcluded
<1>12. ~q.ask.strict => Ready(q, R2)
  <2>1. LastTry(q).key \notin FreeKeys(R2[LastTry(q).provider], now)
    BY <1>1, <1>4, <1>7, <1>8, <1>10
  <2> QED
    BY <1>8, <1>9, <1>10, <1>11, <2>1 DEF Ready
<1>13. \A o \in q.excluded \ e.excluded : ~Usable(B2, R2, o)
  <2>1. q.excluded \subseteq Providers
    BY <1>9 DEF Locals
  <2> QED
    BY <1>7, <1>9, <2>1 DEF Usable
<1>14. /\ Len(q.tries) = Len(req[r].tries) /\ q.tries # <<>>
       /\ req[r].ask = q.ask /\ LastTry(q).provider = p
  BY <1>8, <1>9, <1>10
<1>15. \A o \in Providers \ q.excluded :
          /\ IsAllowed(B2[o], now) => IsAllowed(breaker[o], now)
          /\ FreeKeys(R2[o], now) \subseteq FreeKeys(ring[o], now)
  BY <1>4, <1>7
<1>16. Turn(r, q, B2, R2, S)
  BY <1>1, <1>5, <1>6, <1>7, <1>8, <1>9, <1>10, <1>12, <1>13, <1>14, <1>15 DEF Turn
<1> QED
  BY <1>9, <1>16 DEF AfterLimit, B2, S, e, p

LEMMA FailTurn ==
    ASSUME RouteInv, NEW r \in Requests, NEW ra \in RetryAfters \cup {None},
           NEW own \in BOOLEAN, Fail(r, ra, own)
    PROVE  \E q, B, R, S : Turn(r, q, B, R, S) /\ AfterFailure(r, own, ra, q, B, S)
<1> DEFINE p == LastTry(req[r]).provider
           k == LastTry(req[r]).key
           b == IF own THEN BreakerFailure(breaker[p], now) ELSE breaker[p]
           B == [breaker EXCEPT ![p] = BreakerFailure(b, now)]
           R == IF ra = None THEN ring
                ELSE [ring EXCEPT ![p][k] = MarkRateLimited(@, now, ra)]
           S == [stats EXCEPT ![p].failed = @ + (IF own THEN 2 ELSE 1),
                              ![p].limited = @ + (IF ra = None THEN 0 ELSE 1)]
           e == Ended(r, "failed")
           q == [e EXCEPT !.excluded = @ \cup {p}]
<1>1. /\ req[r] \in Locals /\ req[r].ask \in Asks /\ req[r].tries # <<>>
      /\ p \in Providers /\ k \in Keys
      /\ req[r].answer = None /\ ~Refused(req[r].ask)
  BY PendingFacts DEF Fail
<1>2. /\ req \in [Requests -> Locals] /\ Settled(req[r]) /\ FailedExcluded(req[r])
      /\ now \in Nat /\ breaker \in Breakers /\ ring \in Rings /\ stats \in Stats
  BY DEF RouteInv, Fail, Settled
<1>3. ra \in Nat \cup {None}
  BY GatewayAssumption
<1>4. /\ R \in Rings
      /\ \A o \in Providers : FreeKeys(R[o], now) \subseteq FreeKeys(ring[o], now)
  <2> HIDE DEF p, k
  <2>1. CASE ra = None
    BY <1>2, <2>1
  <2>2. CASE ra # None
    <3>1. R = Marked(p, k, ra)
      BY <2>2 DEF Marked
    <3> HIDE DEF R
    <3>2. R \in Rings
      BY <1>1, <1>3, <3>1, RingUpdates
    <3> QED
      BY <1>1, <3>1, <3>2, MarkedNotFree
  <2> QED
    BY <2>1, <2>2
<1>5. B \in Breakers /\ \A o \in Providers \ {p} : B[o] = breaker[o]
  <2>1. b \in Breaker
    BY <1>1, <1>2, MethodsTyped DEF Breakers
  <2>2. BreakerFailure(b, now) \in Breaker
    BY <1>2, <2>1, MethodsTyped
  <2> HIDE DEF b, p
  <2> QED
    BY <1>1, <1>2, <2>2 DEF Breakers
<1>6. S \in Stats
  <2>1. (IF own THEN 2 ELSE 1) \in Nat /\ (IF ra = None THEN 0 ELSE 1) \in Nat
    OBVIOUS
  <2> QED
    BY <1>1, <1>2, <2>1, CountTyped
<1>7. /\ UNCHANGED <<now, strategy>>
      /\ \/ /\ q.ask.strict
            /\ req' = [req EXCEPT ![r] = Answered(q, "upstream", p, None)]
            /\ breaker' = B
            /\ ring' = R
            /\ stats' = S
            /\ UNCHANGED <<rotation, rr>>
         \/ ~q.ask.strict /\ Proceed(r, q, B, R, S)
  BY DEF Fail
<1> HIDE DEF B, R, S
<1>8. /\ e \in Locals /\ e.ask \in Asks /\ Honours(e) /\ e.tries # <<>>
      /\ Len(e.tries) = Len(req[r].tries)
      /\ LastTry(e).provider = p /\ LastTry(e).outcome = "failed"
      /\ e.ask = req[r].ask /\ e.excluded = req[r].excluded /\ e.answer = None /\ ~Refused(e.ask)
      /\ \A i \in DOMAIN req[r].tries :
            /\ e.tries[i].provider = req[r].tries[i].provider
            /\ i # Len(req[r].tries) => e.tries[i].outcome = req[r].tries[i].outcome
  BY <1>1, <1>2, EndedFacts DEF Outcomes, Endings
<1> HIDE DEF e, p, k
<1>9. /\ q \in Locals /\ q.ask = e.ask /\ q.tries = e.tries /\ q.answer = e.answer
      /\ q.excluded = e.excluded \cup {p}
  BY <1>1, <1>8 DEF Locals
<1> HIDE DEF q
<1>10. Honours(q) /\ LastTry(q) = LastTry(e)
  BY <1>8, <1>9 DEF Honours, LastTry
<1>11. FailedExcluded(q)
  <2>1. DOMAIN q.tries = DOMAIN req[r].tries
    BY <1>1, <1>8, <1>9, LocalsFacts
  <2>2. q.tries[Len(req[r].tries)].provider = p
    BY <1>8, <1>9 DEF LastTry
  <2> QED
    BY <1>2, <1>8, <1>9, <2>1, <2>2 DEF FailedExcluded
<1>12. ~q.ask.strict => Ready(q, R)
  BY <1>8, <1>9, <1>10, <1>11 DEF Ready
<1>13. \A o \in q.excluded \ req[r].excluded :
          \E i \in DOMAIN q.tries :
             q.tries[i].provider = o /\ q.tries[i].outcome = "failed"
  <2>1. Len(q.tries) \in DOMAIN q.tries
    BY <1>8, <1>9, LocalsFacts
  <2> QED
    BY <1>8, <1>9, <2>1 DEF LastTry
<1>14. /\ Len(q.tries) = Len(req[r].tries) /\ q.tries # <<>>
       /\ req[r].ask = q.ask /\ LastTry(q).provider = p
  BY <1>8, <1>9, <1>10
<1>15. \A o \in Providers \ q.excluded :
          /\ IsAllowed(B[o], now) => IsAllowed(breaker[o], now)
          /\ FreeKeys(R[o], now) \subseteq FreeKeys(ring[o], now)
  BY <1>4, <1>5, <1>9
<1>16. Turn(r, q, B, R, S)
  BY <1>1, <1>4, <1>5, <1>6, <1>7, <1>8, <1>9, <1>10, <1>12, <1>13, <1>14, <1>15 DEF Turn
<1> QED
  BY <1>9, <1>16 DEF AfterFailure, B, S, e, p

LEMMA OnErrorTyped ==
    ASSUME RouteInv, NEW p \in Providers, OnError(p)
    PROVE  /\ breaker' \in Breakers /\ stats' \in Stats
           /\ UNCHANGED <<now, ring, rotation, strategy, rr>>
<1>1. now \in Nat /\ breaker \in Breakers /\ stats \in Stats
  BY DEF RouteInv
<1>2. BreakerFailure(breaker[p], now) \in Breaker
  BY <1>1, MethodsTyped DEF Breakers
<1> QED
  BY <1>1, <1>2, CountTyped DEF OnError, Breakers

\* What a request does besides entering the loop and being served.
LEMMA OtherQuiet ==
    ASSUME RouteInv, NEW r \in Requests,
           ClientError(r) \/ SelfReport(r) \/ StreamEnds(r) \/ StreamError(r)
              \/ StreamFails(r)
    PROVE  \E x : Quiet(r, x)
<1> DEFINE p == LastTry(req[r]).provider
<1>1. /\ req[r] \in Locals /\ req[r].ask \in Asks /\ req[r].tries # <<>>
      /\ Honours(req[r]) /\ p \in Providers /\ ~Refused(req[r].ask)
      /\ Matches(req[r].ask, p) /\ (ClientError(r) => req[r].answer = None)
  BY PendingFacts DEF ClientError, SelfReport, StreamEnds, StreamError, StreamFails
<1>2. req \in [Requests -> Locals] /\ Settled(req[r]) /\ req[r].ask # None
  BY <1>1, GatewayAssumption DEF RouteInv
<1> HIDE DEF p
<1>3. ASSUME NEW o \in Outcomes
      PROVE  /\ Ended(r, o) \in Locals /\ Ended(r, o).ask = req[r].ask
             /\ Ended(r, o).phase = req[r].phase /\ Ended(r, o).tries # <<>>
             /\ Ended(r, o).answer = req[r].answer
             /\ Ended(r, o).excluded = req[r].excluded
             /\ Len(Ended(r, o).tries) = Len(req[r].tries)
             /\ Honours(Ended(r, o)) /\ ~Refused(Ended(r, o).ask)
  BY <1>1, <1>2, EndedFacts
<1>4. ASSUME UNCHANGED <<providerVars, now, strategy, rr>> \/ OnError(p)
      PROVE  SharedTyped
  <2>1. CASE OnError(p)
    BY <1>1, <2>1, OnErrorTyped DEF SharedTyped, RouteInv
  <2>2. CASE UNCHANGED <<providerVars, now, strategy, rr>>
    BY <2>2 DEF SharedTyped, RouteInv, providerVars
  <2> QED
    BY <1>4, <2>1, <2>2
<1>5. CASE ClientError(r)
  <2> DEFINE e == Ended(r, "client")
             x == Answered(e, "upstream", p, None)
  <2>1. /\ e \in Locals /\ e.ask = req[r].ask /\ e.tries # <<>> /\ ~Refused(e.ask)
        /\ e.excluded = req[r].excluded /\ Len(e.tries) = Len(req[r].tries) /\ Honours(e)
    BY <1>3 DEF Outcomes, Endings
  <2> HIDE DEF e
  <2>2. /\ Settled(x) /\ x.tries = e.tries /\ x.ask = e.ask /\ x.excluded = e.excluded
        /\ x.answer = [kind |-> "upstream", provider |-> p, advice |-> None]
    BY <1>1, <2>1, AnsweredFacts
  <2>3. req' = [req EXCEPT ![r] = x] /\ SharedTyped
    BY <1>5, <1>4 DEF ClientError, p, e
  <2> HIDE DEF x
  <2>4. Quiet(r, x)
    BY <1>1, <1>5, <2>1, <2>2, <2>3 DEF Quiet
  <2> QED
    BY <2>4
<1>6. CASE SelfReport(r)
  <2> DEFINE x == [req[r] EXCEPT !.phase = "failing"]
  <2>1. req' = [req EXCEPT ![r] = x] /\ req[r].phase = "waiting"
    BY <1>6 DEF SelfReport
  <2>2. /\ x \in Locals /\ x.phase = "failing" /\ x.ask = req[r].ask
        /\ x.tries = req[r].tries /\ x.excluded = req[r].excluded
        /\ x.answer = req[r].answer
    BY <1>1 DEF Locals
  <2> HIDE DEF x
  <2>3. Honours(x)
    BY <1>1, <2>2 DEF Honours
  <2>4. FailedExcluded(x)
    BY <1>2, <2>1, <2>2 DEF Settled, FailedExcluded
  <2>5. Settled(x)
    BY <1>1, <1>2, <2>1, <2>2, <2>3, <2>4 DEF Settled
  <2>6. OnError(p)
    BY <1>6 DEF SelfReport, p
  <2>7. Quiet(r, x)
    BY <1>4, <2>1, <2>2, <2>5, <2>6 DEF Quiet
  <2> QED
    BY <2>7
<1>7. CASE StreamEnds(r)
  <2> DEFINE x == [req[r] EXCEPT !.phase = "done"]
  <2>1. req' = [req EXCEPT ![r] = x]
    BY <1>7 DEF StreamEnds
  <2>2. /\ x \in Locals /\ x.phase = "done" /\ x.ask = req[r].ask
        /\ x.tries = req[r].tries /\ x.answer = req[r].answer
        /\ x.excluded = req[r].excluded
    BY <1>1 DEF Locals
  <2> HIDE DEF x
  <2>3. Honours(x)
    BY <1>1, <2>2 DEF Honours
  <2>4. Settled(x)
    BY <1>1, <1>2, <2>2, <2>3 DEF Settled
  <2>5. SharedTyped
    BY <1>7, <1>4 DEF StreamEnds
  <2>6. Quiet(r, x)
    BY <2>1, <2>2, <2>4, <2>5 DEF Quiet
  <2> QED
    BY <2>6
<1>8. CASE StreamError(r)
  <2> DEFINE x == Ended(r, "broken")
  <2>1. req' = [req EXCEPT ![r] = x] /\ req[r].phase = "streaming" /\ OnError(p)
    BY <1>8 DEF StreamError, p
  <2>2. Settled(x)
    BY <1>2, <1>3, <2>1 DEF Settled, Outcomes, Endings
  <2>3. /\ x.ask = req[r].ask /\ x.answer = req[r].answer /\ x.excluded = req[r].excluded
        /\ Len(x.tries) = Len(req[r].tries)
    BY <1>3 DEF Outcomes, Endings
  <2> HIDE DEF x
  <2>4. Quiet(r, x)
    BY <1>4, <2>1, <2>2, <2>3 DEF Quiet
  <2> QED
    BY <2>4
<1>9. CASE StreamFails(r)
  <2> DEFINE e == Ended(r, "broken")
             x == [e EXCEPT !.phase = "done"]
  <2>1. req' = [req EXCEPT ![r] = x] /\ OnError(p)
    BY <1>9 DEF StreamFails, p
  <2>2. /\ e \in Locals /\ e.ask = req[r].ask /\ e.tries # <<>> /\ Honours(e)
        /\ ~Refused(e.ask) /\ e.answer = req[r].answer /\ e.excluded = req[r].excluded
        /\ Len(e.tries) = Len(req[r].tries)
    BY <1>3 DEF Outcomes, Endings
  <2> HIDE DEF e
  <2>3. /\ x \in Locals /\ x.phase = "done" /\ x.ask = e.ask /\ x.tries = e.tries
        /\ x.answer = e.answer /\ x.excluded = e.excluded
    BY <2>2 DEF Locals
  <2> HIDE DEF x
  <2>4. Honours(x)
    BY <2>2, <2>3 DEF Honours
  <2>5. Settled(x)
    BY <1>2, <2>2, <2>3, <2>4 DEF Settled
  <2>6. Quiet(r, x)
    BY <1>4, <2>1, <2>2, <2>3, <2>5 DEF Quiet
  <2> QED
    BY <2>6
<1> QED
  BY <1>5, <1>6, <1>7, <1>8, <1>9

\* Steps of the operator and of the clock.
LEMMA OperatorSteps ==
    ASSUME RouteInv,
           \/ Status \/ \E s \in Strategies : SetStrategy(s)
           \/ \E p \in Providers : AdminReset(p)
           \/ Tick
    PROVE  RouteInv' /\ UNCHANGED req
<1>1. /\ now \in Nat /\ breaker \in Breakers /\ ring \in Rings
  BY DEF RouteInv
<1>2. /\ PolledBreakers(breaker, Providers) \in Breakers
      /\ StatusRings(ring) \in Rings
  BY <1>1, PolledFacts
<1>3. /\ now' \in Nat /\ breaker' \in Breakers /\ ring' \in Rings
      /\ strategy' \in {"round_robin", "random"}
      /\ UNCHANGED <<rotation, stats, rr, req>>
  <2>1. CASE Status
    BY <1>1, <1>2, <2>1 DEF Status, RouteInv
  <2>2. ASSUME NEW s \in Strategies, SetStrategy(s)
        PROVE  /\ now' \in Nat /\ breaker' \in Breakers /\ ring' \in Rings
               /\ strategy' \in {"round_robin", "random"}
               /\ UNCHANGED <<rotation, stats, rr, req>>
    BY <1>1, <1>2, <2>2, GatewayAssumption DEF SetStrategy
  <2>3. ASSUME NEW p \in Providers, AdminReset(p)
        PROVE  /\ now' \in Nat /\ breaker' \in Breakers /\ ring' \in Rings
               /\ strategy' \in {"round_robin", "random"}
               /\ UNCHANGED <<rotation, stats, rr, req>>
    <3>1. breaker' \in Breakers
      BY <1>1, <2>3, MethodsTyped DEF AdminReset, Breakers, Breaker, BreakerState,
         ResetBreaker, NewBreaker
    <3>2. ring[p] \in [Keys -> Limiter] /\ \A k \in Keys : IsFiniteSet(ring[p][k].window)
      BY <1>1 DEF Rings
    <3>3. /\ Cleared(ring[p]) \in [Keys -> Limiter]
          /\ \A k \in Keys : IsFiniteSet(Cleared(ring[p])[k].window)
      BY <3>2, ClearedFacts
    <3>4. /\ Scan(Cleared(ring[p]), Keys, now) \in [Keys -> Limiter]
          /\ \A k \in Keys : Scan(Cleared(ring[p]), Keys, now)[k].window
                                \subseteq Cleared(ring[p])[k].window
      BY <1>1, <3>3, ScanFacts
    <3>5. Scan(Cleared(ring[p]), Keys, now)
             \in [Keys -> {l \in Limiter : IsFiniteSet(l.window)}]
      BY <3>3, <3>4, FS_Subset
    <3>6. ring' \in Rings
      BY <1>1, <2>3, <3>5 DEF AdminReset, Rings
    <3> QED
      BY <1>1, <2>3, <3>1, <3>6 DEF AdminReset, RouteInv
  <2>4. CASE Tick
    BY <1>1, <2>4 DEF Tick, RouteInv
  <2> QED
    BY <2>1, <2>2, <2>3, <2>4
<1>4. \A r \in Requests : Settled(req'[r])
  BY <1>3 DEF RouteInv
<1> QED
  BY <1>3, <1>4 DEF RouteInv, Settled, Honours, FailedExcluded, LastTry, Breakers, Rings,
     Stats, Locals

\* Every step of the gateway is a loop pass, a quiet step of a request, or leaves
\* the requests alone.
LEMMA StepShape ==
    ASSUME RouteInv, [Next]_vars
    PROVE  \/ \E r \in Requests : \E x : Quiet(r, x)
           \/ \E r \in Requests : \E q, B, R, S : Turn(r, q, B, R, S)
           \/ RouteInv' /\ UNCHANGED req
<1>1. CASE \E r \in Requests : Start(r)
  BY <1>1, StartTurn
<1>2. CASE \E r \in Requests : Respond(r)
  <2>1. PICK r \in Requests : Respond(r)
    BY <1>2
  <2>2. CASE Succeed(r) \/ ClientError(r)
    BY <2>2, SucceedQuiet, OtherQuiet
  <2>3. CASE \E ra \in RetryAfters \cup {None} : RateLimited(r, ra)
    BY <2>3, RateLimitedTurn
  <2>4. CASE \E ra \in RetryAfters \cup {None}, own \in BOOLEAN : Fail(r, ra, own)
    BY <2>4, FailTurn
  <2> QED
    BY <2>1, <2>2, <2>3, <2>4 DEF Respond
<1>3. CASE \E r \in Requests : \/ SelfReport(r) \/ StreamEnds(r)
                               \/ StreamError(r) \/ StreamFails(r)
  BY <1>3, OtherQuiet
<1>4. CASE \/ Status \/ \E s \in Strategies : SetStrategy(s)
           \/ \E p \in Providers : AdminReset(p)
           \/ Tick
  BY <1>4, OperatorSteps
<1>5. CASE UNCHANGED vars
  BY <1>5 DEF vars, RouteInv, Settled, Honours, FailedExcluded, LastTry, Breakers, Rings,
     Stats, Locals
<1> QED
  BY <1>1, <1>2, <1>3, <1>4, <1>5 DEF Next

LEMMA TurnKeeps ==
    ASSUME RouteInv, NEW r \in Requests, NEW q, NEW B, NEW R, NEW S, Turn(r, q, B, R, S)
    PROVE  RouteInv'
<1>1. /\ B \in Breakers /\ R \in Rings /\ S \in Stats /\ UNCHANGED <<now, strategy>>
      /\ q \in Locals /\ q.ask \in Asks /\ Honours(q) /\ ~Refused(q.ask)
  BY DEF Turn
<1>2. CASE Ready(q, R) /\ Proceed(r, q, B, R, S)
  BY <1>1, <1>2, ProceedFacts
<1>3. CASE /\ q.tries # <<>>
           /\ req' = [req EXCEPT ![r] = Answered(q, "upstream", LastTry(q).provider, None)]
           /\ breaker' = B /\ ring' = R /\ stats' = S
           /\ UNCHANGED <<rotation, rr>>
  <2>1. LastTry(q).provider \in Providers
    BY <1>1, <1>3, LocalsFacts
  <2>2. Settled(Answered(q, "upstream", LastTry(q).provider, None))
    BY <1>1, <2>1, AnsweredFacts
  <2>3. SharedTyped
    BY <1>1, <1>3 DEF SharedTyped, RouteInv
  <2> QED
    BY <1>3, <2>2, <2>3, OneRequest
<1> QED
  BY <1>2, <1>3 DEF Turn

LEMMA NextInv == RouteInv /\ [Next]_vars => RouteInv'
<1> SUFFICES ASSUME RouteInv, [Next]_vars PROVE RouteInv'
  OBVIOUS
<1>1. ASSUME NEW r \in Requests, NEW x, Quiet(r, x) PROVE RouteInv'
  BY <1>1, OneRequest DEF Quiet
<1> QED
  BY <1>1, StepShape, TurnKeeps

LEMMA InvariantImplies == RouteInv => TypeOK /\ HonoursRequest
<1> SUFFICES ASSUME RouteInv PROVE TypeOK /\ HonoursRequest
  OBVIOUS
<1>1. ASSUME NEW r \in Requests PROVE ReqOK(req[r])
  <2>1. Settled(req[r])
    BY DEF RouteInv
  <2> QED
    BY <2>1 DEF Settled, Locals, ReqOK
<1>2. ring \in [Providers -> [Keys -> Limiter]]
  BY DEF RouteInv, Rings
<1>3. TypeOK
  BY <1>1, <1>2 DEF RouteInv, TypeOK, Breakers, Stats
<1>4. HonoursRequest
  BY DEF RouteInv, Settled, Honours, HonoursRequest
<1> QED
  BY <1>3, <1>4

\* The parts of the gateway keep their types, for any number of providers, keys
\* and requests in flight (route, BaseProvider, CircuitBreaker, RateLimiter).
THEOREM TypeCorrect == Spec => []TypeOK
<1>1. RouteInv => TypeOK
  BY InvariantImplies
<1> QED
  BY <1>1, InitInv, NextInv, PTL DEF Spec

\* Whatever other requests do between its turns, a request only reaches
\* providers that serve its model and satisfy its privacy posture, once when it
\* is strict, never again one that failed it, and never twice in a row through
\* the key that was just limited (pickProvider, excluded, markRateLimited).
THEOREM RequestsHonoured == Spec => []HonoursRequest
<1>1. RouteInv => HonoursRequest
  BY InvariantImplies
<1> QED
  BY <1>1, InitInv, NextInv, PTL DEF Spec

-----------------------------------------------------------------------------
\* The locals after the dispatch to provider p through key k
Sent(q, p, k) ==
    [q EXCEPT !.phase = "waiting",
              !.tries = Append(@, [provider |-> p, key |-> k, outcome |-> None])]

LEMMA SentFacts ==
    ASSUME NEW q \in Locals, NEW p \in Providers, NEW k \in Keys
    PROVE  /\ Len(Sent(q, p, k).tries) = Len(q.tries) + 1
           /\ LastTry(Sent(q, p, k)).provider = p
           /\ LastTry(Sent(q, p, k)).key = k
           /\ \A i \in DOMAIN q.tries : /\ i \in DOMAIN Sent(q, p, k).tries
                                        /\ Sent(q, p, k).tries[i] = q.tries[i]
           /\ Sent(q, p, k).ask = q.ask
           /\ Sent(q, p, k).answer = q.answer
           /\ Sent(q, p, k).excluded = q.excluded
           /\ Sent(q, p, k).deadline = q.deadline
<1> DEFINE new == [provider |-> p, key |-> k, outcome |-> None]
           x == Sent(q, p, k)
<1>1. q.tries \in Seq(Try) /\ Len(q.tries) \in Nat /\ DOMAIN q.tries = 1 .. Len(q.tries)
  BY LocalsFacts
<1>2. new \in Try /\ new.provider = p /\ new.key = k
  BY DEF Try, Outcomes
<1>3. x = [q EXCEPT !.phase = "waiting", !.tries = Append(@, new)]
  BY DEF Sent
<1> HIDE DEF new, x
<1>4. /\ x.tries = Append(q.tries, new) /\ x.ask = q.ask /\ x.answer = q.answer
      /\ x.excluded = q.excluded /\ x.deadline = q.deadline
  BY <1>3 DEF Locals
<1>5. /\ Len(x.tries) = Len(q.tries) + 1
      /\ x.tries[Len(q.tries) + 1] = new
      /\ \A i \in DOMAIN q.tries : i \in DOMAIN x.tries /\ x.tries[i] = q.tries[i]
  BY <1>1, <1>2, <1>4
<1> QED
  BY <1>2, <1>4, <1>5 DEF LastTry, x

\* How one pass of the loop ends: the request is given up, or sent to a candidate.
GaveUp(r, q, B, R) ==
    /\ \E kind \in {"timeout", "exhausted"}, advice \in Nat \cup {None} :
          /\ req' = [req EXCEPT ![r] = Answered(q, kind, None, advice)]
          /\ kind = "exhausted" => Candidates(q, B, R) = {}
          /\ kind = "timeout" => now > q.deadline
    /\ \A p \in Providers : Usable(breaker', ring', p) <=> Usable(B, R, p)

WasSent(r, q, B, R) ==
    \E p \in Candidates(q, B, R), k \in Keys :
       /\ req' = [req EXCEPT ![r] = Sent(q, p, k)]
       /\ now <= q.deadline
       /\ k \in FreeKeys(R[p], now)
       /\ breaker'[p] = GetState(B[p], now)
       /\ \A o \in Providers \ {p} : Usable(breaker', ring', o) <=> Usable(B, R, o)

LEMMA PassFacts ==
    ASSUME RouteInv, NEW r \in Requests, NEW q, NEW B \in Breakers, NEW R \in Rings,
           NEW S, Proceed(r, q, B, R, S)
    PROVE  GaveUp(r, q, B, R) \/ WasSent(r, q, B, R)
<1> DEFINE polledB == PolledBreakers(B, Providers)
           polledR == PolledRings(B, R, Providers)
           C       == Candidates(q, B, R)
<1>1. now \in Nat /\ rotation \in [Providers -> Keys]
  BY DEF RouteInv
<1>2. /\ polledB \in Breakers /\ polledR \in Rings
      /\ \A p \in Providers : /\ IsAllowed(polledB[p], now) <=> IsAllowed(B[p], now)
                              /\ FreeKeys(polledR[p], now) = FreeKeys(R[p], now)
                              /\ polledB[p] = GetState(B[p], now)
  BY <1>1, PolledFacts DEF PolledBreakers
<1> HIDE DEF polledB, polledR
<1>3. ASSUME NEW kind \in {"timeout", "exhausted"}, NEW B2 \in Breakers, NEW R2 \in Rings,
             GiveUp(r, q, kind, B2, R2, S), kind = "exhausted" => C = {},
             kind = "timeout" => now > q.deadline,
             \A p \in Providers : Usable(B2, R2, p) <=> Usable(B, R, p)
      PROVE  GaveUp(r, q, B, R)
  <2>1. RetryAdvice(R2) \in Nat \cup {None}
    BY <1>1, AdviceTyped
  <2>2. \A p \in Providers :
           /\ IsAllowed(breaker'[p], now) <=> IsAllowed(B2[p], now)
           /\ FreeKeys(ring'[p], now) = FreeKeys(R2[p], now)
    BY <1>1, <1>3, PolledFacts DEF GiveUp
  <2>3. \A p \in Providers : Usable(breaker', ring', p) <=> Usable(B, R, p)
    BY <1>3, <2>2 DEF Usable
  <2> QED
    BY <1>3, <2>1, <2>3 DEF GaveUp, GiveUp
<1>4. ASSUME now <= q.deadline, NEW p \in C,
             Dispatch(r, q, p, polledB, polledR, S)
      PROVE  WasSent(r, q, B, R)
  <2>1. PICK k \in Keys :
          /\ k \in FreeKeys(polledR[p], now)
          /\ breaker' = polledB
          /\ ring' = [polledR EXCEPT ![p] = SentThrough(@, rotation[p], k)]
          /\ req' = [req EXCEPT ![r] = Sent(q, p, k)]
    BY <1>4 DEF Dispatch, PickKey, Sent
  <2>2. p \in Providers
    BY DEF Candidates
  <2>3. \A o \in Providers \ {p} : ring'[o] = polledR[o]
    BY <1>2, <2>1 DEF Rings
  <2>4. \A o \in Providers \ {p} : Usable(breaker', ring', o) <=> Usable(B, R, o)
    BY <1>2, <2>1, <2>3 DEF Usable
  <2> HIDE DEF C
  <2> QED
    BY <1>2, <1>4, <2>1, <2>2, <2>4 DEF WasSent, C
<1>5. \A p \in Providers : Usable(polledB, polledR, p) <=> Usable(B, R, p)
  BY <1>2 DEF Usable
<1>6. CASE now > q.deadline /\ GiveUp(r, q, "timeout", B, R, S)
  BY <1>3, <1>6
<1>7. CASE C = {} /\ GiveUp(r, q, "exhausted", polledB, polledR, S)
  BY <1>2, <1>3, <1>5, <1>7
<1>8. CASE now <= q.deadline /\ \E p \in Providers : /\ Picks(q.ask, C, p)
                                                     /\ Dispatch(r, q, p, polledB, polledR, S)
  BY <1>4, <1>8 DEF Picks
<1> QED
  BY <1>6, <1>7, <1>8 DEF Proceed, polledB, polledR

\* What a turn leaves of its request.
LEMMA TurnFacts ==
    ASSUME RouteInv, NEW r \in Requests, NEW q, NEW B, NEW R, NEW S, Turn(r, q, B, R, S)
    PROVE  /\ req' = [req EXCEPT ![r] = req'[r]]
           /\ \/ GaveUp(r, q, B, R)
              \/ WasSent(r, q, B, R)
              \/ /\ req'[r] = Answered(q, "upstream", LastTry(q).provider, None)
                 /\ q.tries # <<>> /\ breaker' = B /\ ring' = R
<1>1. B \in Breakers /\ R \in Rings /\ req \in [Requests -> Locals]
  BY DEF Turn, RouteInv
<1>2. CASE Proceed(r, q, B, R, S)
  <2>1. GaveUp(r, q, B, R) \/ WasSent(r, q, B, R)
    BY <1>1, <1>2, PassFacts
  <2>2. \E x : req' = [req EXCEPT ![r] = x]
    BY <2>1 DEF GaveUp, WasSent
  <2> QED
    BY <1>1, <2>1, <2>2
<1>3. CASE /\ q.tries # <<>> /\ breaker' = B /\ ring' = R
           /\ req' = [req EXCEPT ![r] = Answered(q, "upstream", LastTry(q).provider, None)]
  BY <1>1, <1>3
<1> QED
  BY <1>2, <1>3 DEF Turn

LEMMA SendsStep ==
    ASSUME RouteInv, [Next]_vars, NEW r \in Requests, NEW p \in Providers, Dispatched(r, p)
    PROVE  /\ breaker'[p].state # "open"
           /\ breaker[p].state = "open" => now >= NextAttempt(breaker[p])
           /\ LastTry(req'[r]).key \in FreeKeys(ring[p], now)
           /\ req'[r].deadline >= now
<1>1. req \in [Requests -> Locals] /\ Len(req[r].tries) \in Nat /\ now \in Nat
  BY LocalsFacts DEF RouteInv
<1>2. CASE UNCHANGED req
  BY <1>1, <1>2 DEF Dispatched
<1>3. ASSUME NEW s \in Requests, NEW x, Quiet(s, x) PROVE FALSE
  BY <1>1, <1>3 DEF Quiet, Dispatched
<1>4. ASSUME NEW s \in Requests, NEW q, NEW B, NEW R, NEW S, Turn(s, q, B, R, S)
      PROVE  /\ breaker'[p].state # "open"
             /\ breaker[p].state = "open" => now >= NextAttempt(breaker[p])
             /\ LastTry(req'[r]).key \in FreeKeys(ring[p], now)
             /\ req'[r].deadline >= now
  <2>1. /\ B \in Breakers /\ R \in Rings /\ q \in Locals /\ q.ask \in Asks
        /\ Honours(q) /\ ~Refused(q.ask)
        /\ Len(q.tries) = Len(req[s].tries)
        /\ \A o \in Providers \ q.excluded :
              /\ IsAllowed(B[o], now) => IsAllowed(breaker[o], now)
              /\ FreeKeys(R[o], now) \subseteq FreeKeys(ring[o], now)
    BY <1>4 DEF Turn
  <2>2. r = s
    <3>1. req' = [req EXCEPT ![s] = req'[s]]
      BY <1>4, TurnFacts
    <3> QED
      BY <1>1, <3>1 DEF Dispatched
  <2>3. CASE GaveUp(s, q, B, R)
    <3>1. PICK kind \in {"timeout", "exhausted"}, advice \in Nat \cup {None} :
             req' = [req EXCEPT ![r] = Answered(q, kind, None, advice)]
      BY <2>2, <2>3 DEF GaveUp
    <3>2. req'[r] = Answered(q, kind, None, advice)
      BY <1>1, <3>1
    <3>3. req'[r].tries = q.tries
      BY <2>1, <3>2 DEF Answered, Locals
    <3> QED
      BY <1>1, <2>1, <2>2, <3>3 DEF Dispatched
  <2>4. CASE WasSent(s, q, B, R)
    <3>1. PICK o \in Candidates(q, B, R), k \in Keys :
             /\ req' = [req EXCEPT ![r] = Sent(q, o, k)]
             /\ now <= q.deadline
             /\ k \in FreeKeys(R[o], now)
             /\ breaker'[o] = GetState(B[o], now)
      BY <2>2, <2>4 DEF WasSent
    <3>2. o \in Providers /\ o \notin q.excluded /\ IsAllowed(B[o], now)
      BY DEF Candidates, Usable
    <3>3. req'[r] = Sent(q, o, k)
      BY <1>1, <3>1
    <3>4. o = p /\ LastTry(req'[r]).key = k /\ req'[r].deadline = q.deadline
      BY <2>1, <3>2, <3>3, SentFacts DEF Dispatched
    <3>5. IsAllowed(breaker[p], now) /\ k \in FreeKeys(ring[p], now)
      BY <2>1, <3>1, <3>2, <3>4
    <3>6. breaker[p].state = "open" => now >= NextAttempt(breaker[p])
      BY <3>5 DEF IsAllowed, GetState
    <3>7. breaker'[p].state # "open"
      BY <3>1, <3>2, <3>4 DEF IsAllowed
    <3>8. req'[r].deadline >= now
      BY <1>1, <2>1, <3>1, <3>4 DEF Locals
    <3> QED
      BY <3>4, <3>5, <3>6, <3>7, <3>8
  <2>5. CASE req'[s] = Answered(q, "upstream", LastTry(q).provider, None) /\ q.tries # <<>>
    <3>1. LastTry(q).provider \in Providers
      BY <2>1, <2>5, LocalsFacts
    <3>2. req'[r] = Answered(q, "upstream", LastTry(q).provider, None)
      BY <2>2, <2>5
    <3>3. req'[r].tries = q.tries
      BY <2>1, <3>2 DEF Answered, Locals
    <3> QED
      BY <1>1, <2>1, <2>2, <3>3 DEF Dispatched
  <2> QED
    BY <1>4, <2>3, <2>4, <2>5, TurnFacts
<1> QED
  BY <1>2, <1>3, <1>4, StepShape

LEMMA GivesUpStep ==
    ASSUME RouteInv, [Next]_vars, NEW r \in Requests
    PROVE  LET x == req'[r] IN
           /\ \A p \in x.excluded \ req[r].excluded :
                 \/ \E i \in DOMAIN x.tries :
                       x.tries[i].provider = p /\ x.tries[i].outcome = "failed"
                 \/ ~Usable(breaker', ring', p)
           /\ req[r].answer = None /\ x.answer # None /\ x.answer.kind = "exhausted" =>
                 \A p \in Providers :
                    Matches(x.ask, p) /\ p \notin x.excluded =>
                       ~Usable(breaker', ring', p)
<1> DEFINE x == req'[r]
           Goal == /\ \A p \in x.excluded \ req[r].excluded :
                         \/ \E i \in DOMAIN x.tries :
                               x.tries[i].provider = p /\ x.tries[i].outcome = "failed"
                         \/ ~Usable(breaker', ring', p)
                   /\ req[r].answer = None /\ x.answer # None /\ x.answer.kind = "exhausted" =>
                         \A p \in Providers :
                            Matches(x.ask, p) /\ p \notin x.excluded =>
                               ~Usable(breaker', ring', p)
<1>1. req \in [Requests -> Locals]
  BY DEF RouteInv
<1>2. CASE x = req[r]
  BY <1>2
<1>3. ASSUME NEW s \in Requests, NEW y, Quiet(s, y) PROVE Goal
  <2>1. CASE s # r
    BY <1>1, <1>2, <1>3, <2>1 DEF Quiet
  <2>2. CASE s = r
    <3>1. x = y
      BY <1>1, <1>3, <2>2 DEF Quiet
    <3>2. /\ x.excluded \subseteq req[r].excluded
          /\ \/ x.answer = req[r].answer
             \/ x.answer.kind \in {"refused", "served", "upstream"}
      <4> HIDE DEF x
      <4>1. \/ x.answer = req[r].answer
            \/ x.answer = [kind |-> "refused", provider |-> None, advice |-> None]
            \/ \E kind \in {"served", "upstream"}, p \in Providers :
                  x.answer = [kind |-> kind, provider |-> p, advice |-> None]
        BY <1>3, <2>2, <3>1 DEF Quiet
      <4>2. x.excluded \subseteq req[r].excluded
        BY <1>3, <2>2, <3>1 DEF Quiet
      <4>3. CASE x.answer = [kind |-> "refused", provider |-> None, advice |-> None]
        BY <4>2, <4>3
      <4>4. CASE \E kind \in {"served", "upstream"}, p \in Providers :
                    x.answer = [kind |-> kind, provider |-> p, advice |-> None]
        BY <4>2, <4>4
      <4> QED
        BY <4>1, <4>2, <4>3, <4>4
    <3> QED
      BY <3>2
  <2> QED
    BY <2>1, <2>2
<1>4. ASSUME NEW s \in Requests, NEW q, NEW B, NEW R, NEW S, Turn(s, q, B, R, S)
      PROVE  Goal
  <2>1. /\ B \in Breakers /\ R \in Rings /\ q \in Locals /\ q.ask \in Asks
        /\ Honours(q) /\ ~Refused(q.ask) /\ q.answer = None
        /\ \A p \in q.excluded \ req[s].excluded :
              \/ \E i \in DOMAIN q.tries :
                    q.tries[i].provider = p /\ q.tries[i].outcome = "failed"
              \/ ~Usable(B, R, p)
    BY <1>4 DEF Turn
  <2>2. CASE s # r
    <3>1. req' = [req EXCEPT ![s] = req'[s]]
      BY <1>4, TurnFacts
    <3> QED
      BY <1>1, <1>2, <2>2, <3>1
  <2>3. CASE s = r /\ GaveUp(s, q, B, R)
    <3>1. PICK kind \in {"timeout", "exhausted"}, advice \in Nat \cup {None} :
             /\ req' = [req EXCEPT ![r] = Answered(q, kind, None, advice)]
             /\ kind = "exhausted" => Candidates(q, B, R) = {}
      BY <2>3 DEF GaveUp
    <3>2. \A p \in Providers : Usable(breaker', ring', p) <=> Usable(B, R, p)
      BY <2>3 DEF GaveUp
    <3>3. x = Answered(q, kind, None, advice)
      BY <1>1, <3>1
    <3>4. /\ x.tries = q.tries /\ x.ask = q.ask /\ x.excluded = q.excluded
          /\ x.answer = [kind |-> kind, provider |-> None, advice |-> advice]
      <4> HIDE DEF x
      <4> QED
        BY <2>1, <3>3 DEF Answered, Locals
    <3>5. q.excluded \subseteq Providers
      BY <2>1 DEF Locals
    <3>6. kind = "exhausted" => \A p \in Providers :
             Matches(q.ask, p) /\ p \notin q.excluded => ~Usable(B, R, p)
      BY <3>1 DEF Candidates
    <3> QED
      BY <2>1, <2>3, <3>2, <3>4, <3>5, <3>6
  <2>4. CASE s = r /\ WasSent(s, q, B, R)
    <3>1. PICK o \in Candidates(q, B, R), k \in Keys :
             /\ req' = [req EXCEPT ![r] = Sent(q, o, k)]
             /\ \A p \in Providers \ {o} : Usable(breaker', ring', p) <=> Usable(B, R, p)
      BY <2>4 DEF WasSent
    <3>2. o \in Providers /\ o \notin q.excluded
      BY DEF Candidates
    <3>3. x = Sent(q, o, k)
      BY <1>1, <3>1
    <3>4. /\ \A i \in DOMAIN q.tries : i \in DOMAIN x.tries /\ x.tries[i] = q.tries[i]
          /\ x.answer = None /\ x.excluded = q.excluded
      BY <2>1, <3>2, <3>3, SentFacts
    <3>5. q.excluded \subseteq Providers
      BY <2>1 DEF Locals
    <3> QED
      BY <2>1, <2>4, <3>1, <3>2, <3>4, <3>5
  <2>5. CASE /\ s = r /\ q.tries # <<>> /\ breaker' = B /\ ring' = R
             /\ req'[s] = Answered(q, "upstream", LastTry(q).provider, None)
    <3>1. LastTry(q).provider \in Providers
      BY <2>1, <2>5, LocalsFacts
    <3>2. x = Answered(q, "upstream", LastTry(q).provider, None)
      BY <2>5
    <3>3. /\ x.tries = q.tries /\ x.excluded = q.excluded
          /\ x.answer = [kind |-> "upstream", provider |-> LastTry(q).provider,
                          advice |-> None]
      <4> HIDE DEF x
      <4> QED
        BY <2>1, <3>2 DEF Answered, Locals
    <3> QED
      BY <2>1, <2>5, <3>3
  <2> QED
    BY <1>4, <2>2, <2>3, <2>4, <2>5, TurnFacts
<1>5. CASE UNCHANGED req
  BY <1>2, <1>5
<1> QED
  BY <1>3, <1>4, <1>5, StepShape

\* Nothing is sent to a provider whose breaker is open, through a key that is
\* cooling down or full, or for a request past its deadline, whatever the other
\* requests did since (isAvailable, pickKey, the deadline of route).
THEOREM SendsOnlyWhenAllowed == Spec => SendsWhenAllowed
<1>1. ASSUME RouteInv, [Next]_vars
      PROVE  \A r \in Requests, p \in Providers :
                Dispatched(r, p) =>
                   /\ breaker'[p].state # "open"
                   /\ breaker[p].state = "open" => now >= NextAttempt(breaker[p])
                   /\ LastTry(req'[r]).key \in FreeKeys(ring[p], now)
                   /\ req'[r].deadline >= now
  BY <1>1, SendsStep
<1> QED
  BY <1>1, InitInv, NextInv, PTL DEF Spec, SendsWhenAllowed

\* A provider is struck off a request only when it failed it or has no key left,
\* and no request is told that all providers are exhausted while one it may use
\* could take it (excluded, AllProvidersExhaustedError).
THEOREM GivesUpOnlyForCause == Spec => GivesUpForCause
<1>1. ASSUME RouteInv, [Next]_vars
      PROVE  \A r \in Requests : LET q == req'[r] IN
                /\ \A p \in q.excluded \ req[r].excluded :
                      \/ \E i \in DOMAIN q.tries :
                            q.tries[i].provider = p /\ q.tries[i].outcome = "failed"
                      \/ ~Usable(breaker', ring', p)
                /\ req[r].answer = None /\ q.answer # None /\ q.answer.kind = "exhausted" =>
                      \A p \in Providers :
                         Matches(q.ask, p) /\ p \notin q.excluded =>
                            ~Usable(breaker', ring', p)
  BY <1>1, GivesUpStep
<1> QED
  BY <1>1, InitInv, NextInv, PTL DEF Spec, GivesUpForCause

-----------------------------------------------------------------------------
(* The contract with the clients (RouteContract), without its liveness.    *)

Told(x) == IF x.answer = None THEN None ELSE <<x.answer.kind, x.answer.provider>>

LEMMA SameRefusals ==
    ASSUME NEW a PROVE Contract!Contradictory(a) <=> Refused(a)
BY DEF Contract!Contradictory, Refused

\* What routing may answer to a request it did not refuse fits the contract.
LEMMA AnswersFit ==
    ASSUME NEW a \in Asks
    PROVE  /\ Refused(a) => <<"refused", None>> \in Contract!Fits(a)
           /\ ~Refused(a) =>
                 /\ \A kind \in {"served", "upstream"}, p \in Providers :
                       Matches(a, p) => <<kind, p>> \in Contract!Fits(a)
                 /\ <<"exhausted", None>> \in Contract!Fits(a)
                 /\ ~a.strict => <<"timeout", None>> \in Contract!Fits(a)
BY SameRefusals DEF Contract!Fits, Contract!Allowed, Matches

\* A request that comes in, answered at once or not
LEMMA AcceptStep ==
    ASSUME NEW r \in Requests, req \in [Requests -> Locals], NEW x \in Locals,
           req' = [req EXCEPT ![r] = x], req[r].ask = None, x.ask \in Asks,
           Told(x) = Told(req[r]) \/ Told(x) \in Contract!Fits(x.ask)
    PROVE  Contract!Accept(r)
<1> DEFINE asks    == [s \in Requests |-> req[s].ask]
           answers == [s \in Requests |-> IF req[s].answer = None THEN None
                                           ELSE <<req[s].answer.kind, req[s].answer.provider>>]
<1>1. asks[r] = None /\ asks' = [asks EXCEPT ![r] = x.ask]
  OBVIOUS
<1>2. answers' = [answers EXCEPT ![r] = Told(x)] /\ answers[r] = Told(req[r])
  BY DEF Told
<1>3. answers' = answers \/ \E y \in Contract!Fits(x.ask) : answers' = [answers EXCEPT ![r] = y]
  <2> HIDE DEF Told
  <2> QED
    BY <1>2
<1> QED
  BY <1>1, <1>3 DEF Contract!Accept

\* A request that is answered later
LEMMA ReplyStep ==
    ASSUME NEW r \in Requests, req \in [Requests -> Locals], NEW x \in Locals,
           req' = [req EXCEPT ![r] = x], req[r].ask \in Asks, x.ask = req[r].ask,
           Told(req[r]) = None, Told(x) \in Contract!Fits(x.ask),
           x.ask.strict => Told(x) # <<"exhausted", None>>
    PROVE  Contract!Reply(r)
<1> DEFINE asks    == [s \in Requests |-> req[s].ask]
           answers == [s \in Requests |-> IF req[s].answer = None THEN None
                                           ELSE <<req[s].answer.kind, req[s].answer.provider>>]
<1>1. asks[r] = x.ask /\ asks[r] # None /\ asks' = asks
  BY GatewayAssumption
<1>2. answers' = [answers EXCEPT ![r] = Told(x)] /\ answers[r] = None
  BY DEF Told
<1> QED
  BY <1>1, <1>2 DEF Contract!Reply

LEMMA QuietContract ==
    ASSUME RouteInv, NEW r \in Requests, NEW x, Quiet(r, x)
    PROVE  [Contract!CNext]_(Contract!cvars)
<1>1. /\ req \in [Requests -> Locals] /\ x \in Locals
      /\ req' = [req EXCEPT ![r] = x]
      /\ req[r].ask \in Asks \cup {None}
  BY DEF RouteInv, Quiet, Settled, Locals
<1>2. CASE x.ask = req[r].ask /\ x.answer = req[r].answer
  BY <1>1, <1>2 DEF Contract!cvars
<1>3. CASE /\ req[r].ask = None /\ req[r].answer = None
           /\ x.ask \in Asks /\ Refused(x.ask)
           /\ x.answer = [kind |-> "refused", provider |-> None, advice |-> None]
  <2>1. x.answer \in Answer
    BY <1>3 DEF Answer
  <2>2. Told(x) = <<"refused", None>>
    BY <1>3, <2>1, GatewayAssumption DEF Told
  <2>3. Contract!Accept(r)
    BY <1>1, <1>3, <2>2, AcceptStep, AnswersFit
  <2> QED
    BY <2>3 DEF Contract!CNext
<1>4. ASSUME x.ask = req[r].ask, req[r].answer = None, x.ask \in Asks, ~Refused(x.ask),
             NEW kind \in {"served", "upstream"}, NEW p \in Providers, Matches(x.ask, p),
             x.answer = [kind |-> kind, provider |-> p, advice |-> None]
      PROVE  Contract!CNext
  <2>1. x.answer \in Answer
    BY <1>4 DEF Answer
  <2>2. Told(x) = <<kind, p>> /\ Told(req[r]) = None
    BY <1>4, <2>1, GatewayAssumption DEF Told
  <2>3. Told(x) \in Contract!Fits(x.ask) /\ Told(x) # <<"exhausted", None>>
    BY <1>4, <2>2, AnswersFit
  <2>4. Contract!Reply(r)
    BY <1>1, <1>4, <2>2, <2>3, ReplyStep
  <2> QED
    BY <2>4 DEF Contract!CNext
<1> QED
  BY <1>2, <1>3, <1>4 DEF Quiet

LEMMA TurnContract ==
    ASSUME RouteInv, NEW r \in Requests, NEW q, NEW B, NEW R, NEW S, Turn(r, q, B, R, S)
    PROVE  [Contract!CNext]_(Contract!cvars)
<1>1. /\ req \in [Requests -> Locals] /\ now \in Nat
      /\ q \in Locals /\ q.ask \in Asks /\ Honours(q) /\ ~Refused(q.ask)
      /\ q.answer = None /\ req[r].answer = None
      /\ req[r].ask = IF q.tries = <<>> THEN None ELSE q.ask
      /\ q.tries = <<>> => now <= q.deadline
  BY DEF RouteInv, Turn
<1>2. Told(req[r]) = None /\ q.deadline \in Nat
  BY <1>1 DEF Told, Locals
<1>3. q.tries = <<>> \/ ~q.ask.strict \/ \E p : req'[r] = Answered(q, "upstream", p, None)
  BY <1>1 DEF Turn, Ready
<1>4. ASSUME NEW x \in Locals, req' = [req EXCEPT ![r] = x], x.ask = q.ask,
             \/ x.answer = None /\ q.tries = <<>>
             \/ Told(x) \in Contract!Fits(q.ask),
             q.tries # <<>> /\ q.ask.strict => Told(x) # <<"exhausted", None>>
      PROVE  Contract!CNext
  <2>1. CASE q.tries = <<>>
    <3>1. Contract!Accept(r)
      BY <1>1, <1>2, <1>4, <2>1, AcceptStep DEF Told
    <3> QED
      BY <3>1 DEF Contract!CNext
  <2>2. CASE q.tries # <<>>
    <3>1. Contract!Reply(r)
      BY <1>1, <1>2, <1>4, <2>2, ReplyStep
    <3> QED
      BY <3>1 DEF Contract!CNext
  <2> QED
    BY <2>1, <2>2
<1>5. ASSUME NEW kind \in {"timeout", "exhausted", "upstream"}, NEW p \in Providers \cup {None},
             NEW advice \in Nat \cup {None}
      PROVE  LET x == Answered(q, kind, p, advice)
             IN  x \in Locals /\ x.ask = q.ask /\ Told(x) = <<kind, p>>
  <2> DEFINE a == [kind |-> kind, provider |-> p, advice |-> advice]
  <2>1. a \in Answer /\ a.kind = kind /\ a.provider = p
    BY DEF Answer
  <2>2. a # None
    BY <2>1, GatewayAssumption
  <2> HIDE DEF a
  <2>3. Answered(q, kind, p, advice) = [q EXCEPT !.phase = "done", !.answer = a]
    BY DEF Answered, a
  <2>4. LET x == [q EXCEPT !.phase = "done", !.answer = a]
        IN  x \in Locals /\ x.ask = q.ask /\ x.answer = a
    BY <1>1, <2>1 DEF Locals
  <2> QED
    BY <2>1, <2>2, <2>3, <2>4 DEF Told
<1>6. CASE GaveUp(r, q, B, R)
  <2>1. PICK kind \in {"timeout", "exhausted"}, advice \in Nat \cup {None} :
           /\ req' = [req EXCEPT ![r] = Answered(q, kind, None, advice)]
           /\ kind = "timeout" => now > q.deadline
    BY <1>6 DEF GaveUp
  <2> DEFINE x == Answered(q, kind, None, advice)
  <2>2. x \in Locals /\ x.ask = q.ask /\ Told(x) = <<kind, None>>
    BY <1>5
  <2>3. q.tries = <<>> \/ ~q.ask.strict
    BY <1>1, <1>3, <2>1 DEF Answered, Locals
  <2>4. <<kind, None>> \in Contract!Fits(q.ask)
    BY <1>1, <1>2, <2>1, <2>3, AnswersFit
  <2> HIDE DEF x
  <2>5. req' = [req EXCEPT ![r] = x]
    BY <2>1 DEF x
  <2>6. Contract!CNext
    BY <1>4, <2>2, <2>3, <2>4, <2>5
  <2> QED
    BY <2>6
<1>7. CASE WasSent(r, q, B, R)
  <2>1. PICK p \in Providers, k \in Keys : req' = [req EXCEPT ![r] = Sent(q, p, k)]
    BY <1>7 DEF WasSent, Candidates
  <2> DEFINE x == Sent(q, p, k)
  <2>2. x.ask = q.ask /\ x.answer = None
    BY <1>1, SentFacts
  <2> HIDE DEF x
  <2>3. req' = [req EXCEPT ![r] = x]
    BY <2>1 DEF x
  <2>4. x \in Locals
    BY <1>1, <2>3, TurnKeeps DEF RouteInv
  <2>5. CASE q.tries = <<>>
    BY <1>4, <2>2, <2>3, <2>4, <2>5
  <2>6. CASE q.tries # <<>>
    BY <1>1, <2>2, <2>3, <2>4, <2>6 DEF Contract!cvars
  <2> QED
    BY <2>5, <2>6
<1>8. CASE /\ req' = [req EXCEPT ![r] = Answered(q, "upstream", LastTry(q).provider, None)]
           /\ q.tries # <<>>
  <2> DEFINE p == LastTry(q).provider
             x == Answered(q, "upstream", p, None)
  <2>1. p \in Providers /\ Matches(q.ask, p)
    BY <1>1, <1>8, LocalsFacts DEF Honours, LastTry
  <2>2. x \in Locals /\ x.ask = q.ask /\ Told(x) = <<"upstream", p>>
    BY <1>5, <2>1
  <2>3. Told(x) \in Contract!Fits(q.ask) /\ Told(x) # <<"exhausted", None>>
    BY <1>1, <2>1, <2>2, AnswersFit
  <2> HIDE DEF x
  <2>4. req' = [req EXCEPT ![r] = x]
    BY <1>8 DEF x
  <2>5. Contract!CNext
    BY <1>4, <2>2, <2>3, <2>4
  <2> QED
    BY <2>5
<1> QED
  BY <1>6, <1>7, <1>8, TurnFacts

\* To its clients the gateway is a service that answers each request at most
\* once, with an answer its request allows: what KeepsContract says beyond that
\* is that the answer comes (route, AllProvidersExhaustedError).
THEOREM AnswersKeepContract ==
    Spec => Contract!CInit /\ [][Contract!CNext]_(Contract!cvars)
<1>1. Init => Contract!CInit
  BY DEF Init, Unasked, Contract!CInit
<1>2. ASSUME RouteInv, [Next]_vars PROVE [Contract!CNext]_(Contract!cvars)
  <2>1. CASE UNCHANGED req
    BY <2>1 DEF Contract!cvars
  <2> QED
    BY <1>2, <2>1, QuietContract, TurnContract, StepShape
<1> QED
  BY <1>1, <1>2, InitInv, NextInv, PTL DEF Spec
-----------------------------------------------------------------------------
(* The counters of the status page and the trips of the breakers, against  *)
(* the history of all tries.                                               *)

\* TriesOf for any function of locals
Places(f, p, o) ==
    UNION {{<<r, i>> : i \in {i \in DOMAIN f[r].tries :
                                 /\ f[r].tries[i].provider = p
                                 /\ f[r].tries[i].outcome = o}}
             : r \in Requests}

\* The record s of one provider and its breaker b, against its tries in f: the
\* breaker counts no failure that is not the outcome of a try.
Tallied(f, p, s, b) ==
    /\ \A o \in Outcomes : IsFiniteSet(Places(f, p, o))
    /\ s.success = Cardinality(Places(f, p, "ok"))
    /\ s.failed = Cardinality(Places(f, p, "failed"))
    /\ s.total = s.success + s.failed + Cardinality(Places(f, p, "limited"))
                    + Cardinality(Places(f, p, "client")) + Cardinality(Places(f, p, None))
    /\ s.limited >= Cardinality(Places(f, p, "limited"))
    /\ b.failures <= Cardinality(Places(f, p, "failed"))

AllTallied(f, B, S) == \A p \in Providers \ SelfReporting : Tallied(f, p, S[p], B[p])

\* The last try of a request is open while its answer is awaited, and only the
\* claude providers are heard of in between and afterwards.
Pending(q) ==
    /\ q.phase \in {"waiting", "failing"} => LastTry(q).outcome = None
    /\ q.phase \in {"failing", "streaming"} => LastTry(q).provider \in SelfReporting

\* The inductive invariant
CountInv ==
    /\ RouteInv
    /\ \A r \in Requests : Pending(req[r])
    /\ AllTallied(req, breaker, stats)

LEMMA PlacesFacts ==
    ASSUME NEW f, NEW p, NEW o, NEW e
    PROVE  e \in Places(f, p, o) <=>
              \E r \in Requests : \E i \in DOMAIN f[r].tries :
                 /\ e = <<r, i>>
                 /\ f[r].tries[i].provider = p /\ f[r].tries[i].outcome = o
  BY DEF Places

LEMMA SameTries ==
    ASSUME NEW f, NEW g, \A r \in Requests : g[r].tries = f[r].tries, NEW p, NEW o
    PROVE  Places(g, p, o) = Places(f, p, o)
<1>1. \A e : e \in Places(g, p, o) <=> e \in Places(f, p, o)
  BY PlacesFacts
<1> QED
  BY <1>1

\* The try at place n of request r, of provider q, has outcome new for old.
Changed(f, g, r, n, q, old, new) ==
    /\ n \in DOMAIN f[r].tries /\ DOMAIN g[r].tries = DOMAIN f[r].tries
    /\ \A s \in Requests \ {r} : g[s].tries = f[s].tries
    /\ \A i \in DOMAIN f[r].tries :
          /\ g[r].tries[i].provider = f[r].tries[i].provider
          /\ i # n => g[r].tries[i].outcome = f[r].tries[i].outcome
    /\ f[r].tries[n].provider = q
    /\ f[r].tries[n].outcome = old /\ g[r].tries[n].outcome = new
    /\ old # new

LEMMA OutcomeMoves ==
    ASSUME NEW f, NEW g, NEW r \in Requests, NEW n, NEW q, NEW old, NEW new,
           Changed(f, g, r, n, q, old, new),
           NEW p, NEW o
    PROVE  Places(g, p, o) = IF p = q /\ o = new THEN Places(f, p, o) \cup {<<r, n>>}
                             ELSE IF p = q /\ o = old THEN Places(f, p, o) \ {<<r, n>>}
                             ELSE Places(f, p, o)
<1> USE DEF Changed
<1>1. ASSUME NEW e
      PROVE  e \in Places(g, p, o) <=>
                \/ p = q /\ o = new /\ e = <<r, n>>
                \/ e \in Places(f, p, o) /\ e # <<r, n>>
  <2>1. ASSUME NEW s \in Requests, NEW i, <<s, i>> # <<r, n>>
        PROVE  /\ i \in DOMAIN g[s].tries <=> i \in DOMAIN f[s].tries
               /\ i \in DOMAIN f[s].tries =>
                     /\ g[s].tries[i].provider = f[s].tries[i].provider
                     /\ g[s].tries[i].outcome = f[s].tries[i].outcome
    <3>1. CASE s = r
      BY <2>1, <3>1
    <3>2. CASE s # r
      <4>1. g[s].tries = f[s].tries
        BY <3>2
      <4> QED
        BY <4>1
    <3> QED
      BY <3>1, <3>2
  <2>2. CASE e = <<r, n>>
    <3>1. e \in Places(g, p, o) <=> n \in DOMAIN g[r].tries /\ q = p /\ new = o
      <4>1. g[r].tries[n].provider = q /\ n \in DOMAIN g[r].tries
        OBVIOUS
      <4> QED
        BY <2>2, <4>1, PlacesFacts
    <3> QED
      BY <2>2, <3>1
  <2>3. CASE e # <<r, n>>
    BY <2>1, <2>3, PlacesFacts
  <2> QED
    BY <2>2, <2>3
<1>2. <<r, n>> \in Places(f, p, o) <=> p = q /\ o = old
  BY PlacesFacts
<1> QED
  BY <1>1, <1>2

\* A try is added to request r.
LEMMA TryAdded ==
    ASSUME NEW f, NEW g, NEW r \in Requests, NEW n,
           \A s \in Requests \ {r} : g[s].tries = f[s].tries,
           n \notin DOMAIN f[r].tries,
           DOMAIN g[r].tries = DOMAIN f[r].tries \cup {n},
           \A i \in DOMAIN f[r].tries : g[r].tries[i] = f[r].tries[i],
           NEW p, NEW o
    PROVE  /\ <<r, n>> \notin Places(f, p, o)
           /\ Places(g, p, o) = IF /\ g[r].tries[n].provider = p
                                   /\ g[r].tries[n].outcome = o
                                THEN Places(f, p, o) \cup {<<r, n>>}
                                ELSE Places(f, p, o)
<1>1. ASSUME NEW e
      PROVE  e \in Places(g, p, o) <=>
                \/ /\ g[r].tries[n].provider = p /\ g[r].tries[n].outcome = o
                   /\ e = <<r, n>>
                \/ e \in Places(f, p, o)
  BY PlacesFacts
<1>2. <<r, n>> \notin Places(f, p, o)
  BY PlacesFacts
<1> QED
  BY <1>1, <1>2

\* What the methods of a breaker do to the failures it counts.
LEMMA FailuresFacts ==
    ASSUME NEW b \in Breaker, NEW t \in Int
    PROVE  /\ GetState(b, t).failures = b.failures
           /\ BreakerSuccess(b, t).failures <= b.failures
           /\ BreakerFailure(b, t).failures <= b.failures + 1
           /\ b.state = "closed" => GetState(b, t).state = "closed"
           /\ b.state = "closed" => BreakerSuccess(b, t).state = "closed"
           /\ b.state = "closed" /\ BreakerFailure(b, t).state # "closed" =>
                 b.failures + 1 >= FailureThreshold
<1> USE BreakerAssumption, NoneAssumption DEF Breaker, BreakerState
<1> DEFINE g == GetState(b, t)
<1>1. /\ g.failures = b.failures
      /\ b.state = "closed" => g.state = "closed"
      /\ g \in Breaker
  BY MethodsTyped DEF GetState
<1>2. /\ BreakerSuccess(b, t).failures <= b.failures
      /\ b.state = "closed" => BreakerSuccess(b, t).state = "closed"
  <2>1. CASE b.state = "closed"
    <3>1. g = b
      BY <2>1 DEF GetState
    <3> QED
      BY <2>1, <3>1 DEF BreakerSuccess
  <2>2. CASE b.state # "closed"
    BY <1>1, <2>2 DEF BreakerSuccess, ResetBreaker, NewBreaker
  <2> QED
    BY <2>1, <2>2
<1>3. /\ BreakerFailure(b, t).failures <= b.failures + 1
      /\ b.state = "closed" /\ BreakerFailure(b, t).state # "closed" =>
            b.failures + 1 >= FailureThreshold
  <2>1. CASE b.state = "closed"
    <3>1. g = b
      BY <2>1 DEF GetState
    <3> QED
      BY <2>1, <3>1 DEF BreakerFailure, Trip
  <2>2. CASE b.state # "closed"
    BY <1>1, <2>2 DEF BreakerFailure, Trip
  <2> QED
    BY <2>1, <2>2
<1> QED
  BY <1>1, <1>2, <1>3

\* The counts of a provider are natural numbers.
LEMMA TallyTyped ==
    ASSUME NEW f, NEW p, NEW s, NEW b, Tallied(f, p, s, b), NEW o \in Outcomes
    PROVE  Cardinality(Places(f, p, o)) \in Nat
  BY FS_CardinalityType DEF Tallied

\* Nothing a provider is tallied by has changed.
LEMMA TallySame ==
    ASSUME NEW f, NEW g, NEW p, NEW s, NEW b, NEW c, Tallied(f, p, s, b),
           b.failures \in Nat, c.failures \in Nat, c.failures <= b.failures,
           \A o \in Outcomes : Places(g, p, o) = Places(f, p, o)
    PROVE  Tallied(g, p, s, c)
<1>1. {"ok", "failed", "limited", "client", None} \subseteq Outcomes
  BY DEF Outcomes, Endings
<1>2. Cardinality(Places(f, p, "failed")) \in Nat
  BY <1>1, TallyTyped
<1> QED
  BY <1>1, <1>2 DEF Tallied

\* A try that was open has ended with outcome o, and is counted for it.
LEMMA TallyMoves ==
    ASSUME NEW f, NEW g, NEW p, NEW s, NEW b, NEW u, NEW c, NEW e, NEW o \in Endings,
           Tallied(f, p, s, b),
           s \in [total : Nat, success : Nat, failed : Nat, limited : Nat],
           u \in [total : Nat, success : Nat, failed : Nat, limited : Nat],
           b.failures \in Nat, c.failures \in Nat,
           e \in Places(f, p, None), e \notin Places(f, p, o),
           o \in {"ok", "limited", "client", "failed"},
           Places(g, p, o) = Places(f, p, o) \cup {e},
           Places(g, p, None) = Places(f, p, None) \ {e},
           \A x \in Outcomes \ {o, None} : Places(g, p, x) = Places(f, p, x),
           u.total = s.total,
           u.success = s.success + (IF o = "ok" THEN 1 ELSE 0),
           u.failed = s.failed + (IF o = "failed" THEN 1 ELSE 0),
           u.limited >= s.limited + (IF o = "limited" THEN 1 ELSE 0),
           c.failures <= b.failures + (IF o = "failed" THEN 1 ELSE 0)
    PROVE  Tallied(g, p, u, c)
<1> DEFINE N(x) == Cardinality(Places(f, p, x))
           M(x) == Cardinality(Places(g, p, x))
<1>1. /\ {"ok", "failed", "limited", "client", None} \subseteq Outcomes
      /\ o \in Outcomes /\ o # None
  BY GatewayAssumption DEF Outcomes, Endings
<1>2. \A x \in Outcomes : IsFiniteSet(Places(f, p, x)) /\ N(x) \in Nat
  BY FS_CardinalityType DEF Tallied
<1>3. IsFiniteSet(Places(g, p, o)) /\ M(o) = N(o) + 1
  BY <1>1, <1>2, FS_AddElement
<1>4. IsFiniteSet(Places(g, p, None)) /\ M(None) = N(None) - 1
  <2>1. IsFiniteSet(Places(f, p, None)) /\ e \in Places(f, p, None)
    BY <1>1, <1>2
  <2>2. /\ IsFiniteSet(Places(f, p, None) \ {e})
        /\ Cardinality(Places(f, p, None) \ {e}) = Cardinality(Places(f, p, None)) - 1
    BY <2>1, FS_RemoveElement
  <2> QED
    BY <2>2
<1>5. \A x \in Outcomes \ {o, None} : IsFiniteSet(Places(g, p, x)) /\ M(x) = N(x)
  BY <1>2
<1>6. \A x \in Outcomes : IsFiniteSet(Places(g, p, x))
  BY <1>3, <1>4, <1>5
<1>7. /\ s.success = N("ok") /\ s.failed = N("failed")
      /\ s.total = s.success + s.failed + N("limited") + N("client") + N(None)
      /\ s.limited >= N("limited") /\ b.failures <= N("failed")
  BY DEF Tallied
<1>8. /\ "ok" # None /\ "failed" # None /\ "limited" # None /\ "client" # None
  BY GatewayAssumption DEF Endings
<1> SUFFICES /\ u.success = M("ok") /\ u.failed = M("failed")
             /\ u.total = u.success + u.failed + M("limited") + M("client") + M(None)
             /\ u.limited >= M("limited") /\ c.failures <= M("failed")
  BY <1>6 DEF Tallied
<1> HIDE DEF N, M
<1>9. N("ok") \in Nat /\ N("failed") \in Nat /\ N("limited") \in Nat /\ N("client") \in Nat
  BY <1>1, <1>2
<1>10. N(None) \in Nat
  BY <1>1, <1>2
<1>11. CASE o = "ok"
  <2>1. /\ M("ok") = N("ok") + 1 /\ M("failed") = N("failed")
        /\ M("limited") = N("limited") /\ M("client") = N("client")
    BY <1>1, <1>3, <1>5, <1>8, <1>11
  <2>2. /\ u.success = s.success + 1 /\ u.failed = s.failed
        /\ u.limited >= s.limited /\ c.failures <= b.failures
    BY <1>11
  <2> QED
    BY <1>4, <1>7, <1>9, <1>10, <2>1, <2>2
<1>12. CASE o = "failed"
  <2>1. /\ M("ok") = N("ok") /\ M("failed") = N("failed") + 1
        /\ M("limited") = N("limited") /\ M("client") = N("client")
    BY <1>1, <1>3, <1>5, <1>8, <1>12
  <2>2. /\ u.success = s.success /\ u.failed = s.failed + 1
        /\ u.limited >= s.limited /\ c.failures <= b.failures + 1
    BY <1>12
  <2> QED
    BY <1>4, <1>7, <1>9, <1>10, <2>1, <2>2
<1>13. CASE o = "limited"
  <2>1. /\ M("ok") = N("ok") /\ M("failed") = N("failed")
        /\ M("limited") = N("limited") + 1 /\ M("client") = N("client")
    BY <1>1, <1>3, <1>5, <1>8, <1>13
  <2>2. /\ u.success = s.success /\ u.failed = s.failed
        /\ u.limited >= s.limited + 1 /\ c.failures <= b.failures
    BY <1>13
  <2> QED
    BY <1>4, <1>7, <1>9, <1>10, <2>1, <2>2
<1>14. CASE o = "client"
  <2>1. /\ M("ok") = N("ok") /\ M("failed") = N("failed")
        /\ M("limited") = N("limited") /\ M("client") = N("client") + 1
    BY <1>1, <1>3, <1>5, <1>8, <1>14
  <2>2. /\ u.success = s.success /\ u.failed = s.failed
        /\ u.limited >= s.limited /\ c.failures <= b.failures
    BY <1>14
  <2> QED
    BY <1>4, <1>7, <1>9, <1>10, <2>1, <2>2
<1> QED
  BY <1>11, <1>12, <1>13, <1>14

\* A try was sent, and is counted in the total.
LEMMA TallyAdds ==
    ASSUME NEW f, NEW g, NEW p, NEW s, NEW b, NEW u, NEW c, NEW e,
           Tallied(f, p, s, b),
           s \in [total : Nat, success : Nat, failed : Nat, limited : Nat],
           u = [s EXCEPT !.total = @ + 1],
           b.failures \in Nat, c.failures = b.failures,
           e \notin Places(f, p, None),
           Places(g, p, None) = Places(f, p, None) \cup {e},
           \A x \in Endings : Places(g, p, x) = Places(f, p, x)
    PROVE  Tallied(g, p, u, c)
<1> DEFINE N(x) == Cardinality(Places(f, p, x))
           M(x) == Cardinality(Places(g, p, x))
<1>1. /\ {"ok", "failed", "limited", "client"} \subseteq Endings
      /\ Outcomes = Endings \cup {None}
  BY DEF Outcomes, Endings
<1>2. \A x \in Outcomes : IsFiniteSet(Places(f, p, x)) /\ N(x) \in Nat
  BY FS_CardinalityType DEF Tallied
<1>3. IsFiniteSet(Places(g, p, None)) /\ M(None) = N(None) + 1
  BY <1>1, <1>2, FS_AddElement
<1>4. \A x \in Endings : IsFiniteSet(Places(g, p, x)) /\ M(x) = N(x)
  BY <1>1, <1>2
<1>5. \A x \in Outcomes : IsFiniteSet(Places(g, p, x))
  BY <1>1, <1>3, <1>4
<1>6. /\ s.success = N("ok") /\ s.failed = N("failed")
      /\ s.total = s.success + s.failed + N("limited") + N("client") + N(None)
      /\ s.limited >= N("limited") /\ b.failures <= N("failed")
  BY DEF Tallied
<1>7. /\ u.success = s.success /\ u.failed = s.failed /\ u.limited = s.limited
      /\ u.total = s.total + 1
  OBVIOUS
<1> SUFFICES /\ u.success = M("ok") /\ u.failed = M("failed")
             /\ u.total = u.success + u.failed + M("limited") + M("client") + M(None)
             /\ u.limited >= M("limited") /\ c.failures <= M("failed")
  BY <1>5 DEF Tallied
<1> HIDE DEF N, M
<1> QED
  BY <1>1, <1>2, <1>3, <1>4, <1>6, <1>7

\* One pass of the loop keeps the tally, and a breaker is only read by it.
LEMMA PassTallied ==
    ASSUME RouteInv, NEW r \in Requests, NEW q \in Locals, NEW B \in Breakers,
           NEW R \in Rings, NEW S \in Stats, Proceed(r, q, B, R, S),
           AllTallied([req EXCEPT ![r] = q], B, S)
    PROVE  /\ AllTallied(req', breaker', stats')
           /\ Pending(req'[r])
           /\ \A s \in Requests \ {r} : req'[s] = req[s]
           /\ \A p \in Providers : breaker'[p] = GetState(B[p], now)
           /\ \A p \in Providers : stats'[p].failed = S[p].failed
<1> DEFINE f == [req EXCEPT ![r] = q]
           polledB == PolledBreakers(B, Providers)
           polledR == PolledRings(B, R, Providers)
<1>1. now \in Nat /\ now \in Int /\ req \in [Requests -> Locals]
  BY DEF RouteInv
<1>2. /\ \A p \in Providers : polledB[p] = GetState(B[p], now) /\ polledB[p] \in Breaker
      /\ polledB \in Breakers
  BY <1>1, MethodsTyped DEF PolledBreakers, Breakers
<1>3. \A p \in Providers : /\ B[p] \in Breaker /\ B[p].failures \in Nat
                           /\ GetState(B[p], now) \in Breaker
                           /\ GetState(B[p], now).failures = B[p].failures
                           /\ GetState(polledB[p], now) = GetState(B[p], now)
  <2>1. \A p \in Providers : B[p] \in Breaker
    BY DEF Breakers
  <2>2. \A p \in Providers : /\ GetState(B[p], now) \in Breaker
                             /\ GetState(B[p], now).failures = B[p].failures
                             /\ GetState(GetState(B[p], now), now) = GetState(B[p], now)
    BY <1>1, <2>1, MethodsTyped, FailuresFacts, ReadTwice
  <2>3. \A p \in Providers : B[p].failures \in Nat
    BY <2>1 DEF Breaker
  <2> HIDE DEF polledB
  <2> QED
    BY <1>2, <2>1, <2>2, <2>3
<1>4. f \in [Requests -> Locals] /\ f[r] = q /\ \A s \in Requests \ {r} : f[s] = req[s]
  BY <1>1
<1>5. /\ q.tries \in Seq(Try) /\ DOMAIN q.tries = 1 .. Len(q.tries) /\ Len(q.tries) \in Nat
  BY LocalsFacts
<1> HIDE DEF f, polledB, polledR
<1>6. ASSUME NEW B2 \in {B, polledB}, NEW R2, NEW kind, GiveUp(r, q, kind, B2, R2, S)
      PROVE  /\ AllTallied(req', breaker', stats')
             /\ Pending(req'[r])
             /\ \A s \in Requests \ {r} : req'[s] = req[s]
             /\ \A p \in Providers : breaker'[p] = GetState(B[p], now)
             /\ \A p \in Providers : stats'[p].failed = S[p].failed
  <2>1. /\ req'[r] = Answered(q, kind, None, RetryAdvice(R2))
        /\ \A s \in Requests \ {r} : req'[s] = req[s]
        /\ breaker' = PolledBreakers(B2, Providers) /\ stats' = S
    BY <1>1, <1>6 DEF GiveUp
  <2>2. req'[r].tries = q.tries /\ req'[r].phase = "done"
    BY <2>1 DEF Answered, Locals
  <2>3. \A p \in Providers : breaker'[p] = GetState(B[p], now)
    BY <1>3, <2>1 DEF PolledBreakers, polledB
  <2>4. \A s \in Requests : req'[s].tries = f[s].tries
    BY <1>4, <2>1, <2>2
  <2>5. ASSUME NEW p \in Providers \ SelfReporting
        PROVE  Tallied(req', p, stats'[p], breaker'[p])
    <3>1. Tallied(f, p, S[p], B[p])
      BY DEF AllTallied, f
    <3>2. \A o \in Outcomes : Places(req', p, o) = Places(f, p, o)
      BY <2>4, SameTries
    <3>3. breaker'[p].failures = B[p].failures
      BY <1>3, <2>3
    <3> QED
      BY <1>3, <2>1, <3>1, <3>2, <3>3, TallySame
  <2> QED
    BY <2>1, <2>2, <2>3, <2>5 DEF AllTallied, Pending
<1>7. ASSUME NEW p \in Providers, Dispatch(r, q, p, polledB, polledR, S)
      PROVE  /\ AllTallied(req', breaker', stats')
             /\ Pending(req'[r])
             /\ \A s \in Requests \ {r} : req'[s] = req[s]
             /\ \A o \in Providers : breaker'[o] = GetState(B[o], now)
             /\ \A o \in Providers : stats'[o].failed = S[o].failed
  <2>1. PICK k \in Keys :
           /\ breaker' = polledB
           /\ stats' = [S EXCEPT ![p].total = @ + 1]
           /\ req' = [req EXCEPT ![r] = Sent(q, p, k)]
    BY <1>7 DEF Dispatch, Sent
  <2> DEFINE n == Len(q.tries) + 1
             new == [provider |-> p, key |-> k, outcome |-> None]
  <2>2. /\ req'[r] = Sent(q, p, k) /\ \A s \in Requests \ {r} : req'[s] = req[s]
    BY <1>1, <2>1
  <2>3. /\ req'[r].phase = "waiting" /\ req'[r].tries = Append(q.tries, new)
    BY <2>2 DEF Sent, Locals
  <2>4. new \in Try /\ new.provider = p /\ new.outcome = None
    BY DEF Try, Outcomes
  <2> HIDE DEF new
  <2>5. /\ DOMAIN req'[r].tries = DOMAIN q.tries \cup {n} /\ n \notin DOMAIN q.tries
        /\ req'[r].tries[n] = new
        /\ \A i \in DOMAIN q.tries : req'[r].tries[i] = q.tries[i]
        /\ LastTry(req'[r]) = new
    BY <1>5, <2>3, <2>4 DEF LastTry
  <2>6. ASSUME NEW o \in Providers \ SelfReporting
        PROVE  Tallied(req', o, stats'[o], breaker'[o])
    <3>1. Tallied(f, o, S[o], B[o]) /\ breaker'[o].failures = B[o].failures
      BY <1>2, <1>3, <2>1 DEF AllTallied, f
    <3>2. ASSUME NEW x
          PROVE  /\ <<r, n>> \notin Places(f, o, x)
                 /\ Places(req', o, x) = IF p = o /\ None = x
                                         THEN Places(f, o, x) \cup {<<r, n>>}
                                         ELSE Places(f, o, x)
      <4>1. /\ f[r].tries = q.tries
            /\ \A s \in Requests \ {r} : req'[s].tries = f[s].tries
        BY <1>4, <2>2
      <4>2. /\ n \notin DOMAIN f[r].tries
            /\ DOMAIN req'[r].tries = DOMAIN f[r].tries \cup {n}
            /\ \A i \in DOMAIN f[r].tries : req'[r].tries[i] = f[r].tries[i]
        BY <2>5, <4>1
      <4>3. req'[r].tries[n].provider = p /\ req'[r].tries[n].outcome = None
        BY <2>4, <2>5
      <4> DEFINE h == req'
      <4> HIDE DEF n, h
      <4>4. /\ <<r, n>> \notin Places(f, o, x)
            /\ Places(h, o, x) = IF /\ h[r].tries[n].provider = o
                                    /\ h[r].tries[n].outcome = x
                                 THEN Places(f, o, x) \cup {<<r, n>>}
                                 ELSE Places(f, o, x)
        BY <4>1, <4>2, TryAdded DEF h
      <4> QED
        BY <4>3, <4>4 DEF h
    <3>3. CASE o = p
      <4>1. stats'[o] = [S[o] EXCEPT !.total = @ + 1]
        BY <2>1, <3>3 DEF Stats
      <4>2. \A x \in Endings : x # None
        BY GatewayAssumption
      <4>3. S[o] \in [total : Nat, success : Nat, failed : Nat, limited : Nat]
        BY DEF Stats
      <4>4. B[o].failures \in Nat
        BY <1>3
      <4>5. /\ <<r, n>> \notin Places(f, o, None)
            /\ Places(req', o, None) = Places(f, o, None) \cup {<<r, n>>}
            /\ \A x \in Endings : Places(req', o, x) = Places(f, o, x)
        BY <3>2, <3>3, <4>2
      <4> DEFINE g == req'
                 u == stats'[o]
                 c == breaker'[o]
                 e == <<r, n>>
      <4> HIDE DEF f, g, u, c, e, n
      <4>6. /\ Tallied(f, o, S[o], B[o]) /\ c.failures = B[o].failures
            /\ u = [S[o] EXCEPT !.total = @ + 1]
        BY <3>1, <4>1 DEF c, u
      <4>7. /\ e \notin Places(f, o, None)
            /\ Places(g, o, None) = Places(f, o, None) \cup {e}
            /\ \A x \in Endings : Places(g, o, x) = Places(f, o, x)
        BY <4>5 DEF e, g
      <4>8. Tallied(g, o, u, c)
        BY <4>3, <4>4, <4>6, <4>7, TallyAdds
      <4> QED
        BY <4>8 DEF g, u, c
    <3>4. CASE o # p
      <4>1. stats'[o] = S[o]
        BY <2>1, <3>4 DEF Stats
      <4>2. \A x \in Outcomes : Places(req', o, x) = Places(f, o, x)
        BY <3>2, <3>4
      <4> QED
        BY <1>3, <3>1, <4>1, <4>2, TallySame
    <3> QED
      BY <3>3, <3>4
  <2>7. Pending(req'[r])
    BY <2>3, <2>4, <2>5 DEF Pending
  <2>8. \A o \in Providers : stats'[o].failed = S[o].failed
    BY <2>1 DEF Stats
  <2> QED
    BY <1>2, <2>1, <2>2, <2>6, <2>7, <2>8 DEF AllTallied
<1> QED
  BY <1>6, <1>7 DEF Proceed, polledB, polledR

\* How a breaker may look after a turn that recorded d failures of a try.
Moved(p, b, d) ==
    /\ b \in Breaker
    /\ b.failures <= breaker[p].failures + d
    /\ breaker[p].state = "closed" /\ b.state # "closed" =>
          d = 1 /\ breaker[p].failures + 1 >= FailureThreshold

\* What the turn that ends the last try of r with outcome o records with each
\* provider that leaves the reporting to the router.
Records(r, o, B, S) ==
    \A p \in Providers \ SelfReporting :
       LET d(x) == IF p = LastTry(req[r]).provider /\ o = x THEN 1 ELSE 0
       IN  /\ S[p].total = stats[p].total
           /\ S[p].success = stats[p].success + d("ok")
           /\ S[p].failed = stats[p].failed + d("failed")
           /\ S[p].limited >= stats[p].limited + d("limited")
           /\ Moved(p, B[p], d("failed"))

\* No breaker of such a provider opened before enough of its tries had failed.
Trips(B, S) ==
    \A p \in Providers \ SelfReporting :
       breaker[p].state = "closed" /\ B[p].state # "closed" =>
          S[p].failed >= FailureThreshold

LEMMA EndedTally ==
    ASSUME CountInv, NEW r \in Requests, req[r].phase \in {"waiting", "failing"},
           NEW o \in {"ok", "limited", "client", "failed"},
           NEW B, NEW S \in Stats, Records(r, o, B, S),
           NEW f, \A s \in Requests \ {r} : f[s].tries = req[s].tries,
           f[r].tries = Ended(r, o).tries
    PROVE  AllTallied(f, B, S) /\ Trips(B, S)
<1> DEFINE n == Len(req[r].tries)
           P == LastTry(req[r]).provider
<1>1. /\ req \in [Requests -> Locals] /\ Settled(req[r]) /\ req[r].tries # <<>>
      /\ LastTry(req[r]).outcome = None /\ stats \in Stats /\ breaker \in Breakers
  BY PendingFacts DEF CountInv, RouteInv, Pending
<1>2. o \in Endings /\ o \in Outcomes /\ o # None
  BY GatewayAssumption DEF Outcomes, Endings
<1>3. /\ n \in DOMAIN req[r].tries /\ DOMAIN Ended(r, o).tries = DOMAIN req[r].tries
      /\ Ended(r, o).tries[n].outcome = o
      /\ \A i \in DOMAIN req[r].tries :
            /\ Ended(r, o).tries[i].provider = req[r].tries[i].provider
            /\ i # n => Ended(r, o).tries[i].outcome = req[r].tries[i].outcome
  <2>1. /\ Ended(r, o) \in Locals /\ Len(Ended(r, o).tries) = n
        /\ LastTry(Ended(r, o)).outcome = o
        /\ \A i \in DOMAIN req[r].tries :
              /\ Ended(r, o).tries[i].provider = req[r].tries[i].provider
              /\ i # n => Ended(r, o).tries[i].outcome = req[r].tries[i].outcome
    BY <1>1, <1>2, EndedFacts
  <2>2. /\ n \in DOMAIN req[r].tries
        /\ DOMAIN Ended(r, o).tries = DOMAIN req[r].tries
    BY <1>1, <2>1, LocalsFacts
  <2> QED
    BY <2>1, <2>2 DEF LastTry
<1>4. req[r].tries[n].provider = P /\ req[r].tries[n].outcome = None
  BY <1>1 DEF LastTry
<1> DEFINE e == <<r, n>>
<1>5. ASSUME NEW p, NEW x
      PROVE  Places(f, p, x) = IF p = P /\ x = o THEN Places(req, p, x) \cup {e}
                               ELSE IF p = P /\ x = None THEN Places(req, p, x) \ {e}
                               ELSE Places(req, p, x)
  <2> HIDE DEF n, P
  <2>1. Changed(req, f, r, n, P, None, o)
    BY <1>2, <1>3, <1>4 DEF Changed
  <2> QED
    BY <2>1, OutcomeMoves
<1>6. e \in Places(req, P, None) /\ e \notin Places(req, P, o)
  <2>1. ASSUME e \in Places(req, P, o) PROVE FALSE
    <3>1. PICK s \in Requests : \E i \in DOMAIN req[s].tries :
             e = <<s, i>> /\ req[s].tries[i].outcome = o
      BY <2>1, PlacesFacts
    <3> QED
      BY <1>2, <1>4, <3>1
  <2>2. e \in Places(req, P, None)
    BY <1>3, <1>4, PlacesFacts
  <2> QED
    BY <2>1, <2>2
<1> HIDE DEF n, P, e
<1>7. ASSUME NEW p \in Providers \ SelfReporting
      PROVE  /\ Tallied(f, p, S[p], B[p])
             /\ breaker[p].state = "closed" /\ B[p].state # "closed" =>
                   S[p].failed >= FailureThreshold
  <2>1. /\ Tallied(req, p, stats[p], breaker[p])
        /\ breaker[p].failures \in Nat
        /\ stats[p] \in [total : Nat, success : Nat, failed : Nat, limited : Nat]
        /\ S[p] \in [total : Nat, success : Nat, failed : Nat, limited : Nat]
    BY <1>1 DEF CountInv, AllTallied, Breakers, Breaker, Stats
  <2>2. stats[p].failed = Cardinality(Places(req, p, "failed"))
        /\ breaker[p].failures <= Cardinality(Places(req, p, "failed"))
    BY <2>1 DEF Tallied
  <2>3. CASE p = P
    <3>1. /\ S[p].total = stats[p].total
          /\ S[p].success = stats[p].success + (IF o = "ok" THEN 1 ELSE 0)
          /\ S[p].failed = stats[p].failed + (IF o = "failed" THEN 1 ELSE 0)
          /\ S[p].limited >= stats[p].limited + (IF o = "limited" THEN 1 ELSE 0)
          /\ Moved(p, B[p], IF o = "failed" THEN 1 ELSE 0)
      BY <2>3 DEF Records, P
    <3>2. /\ B[p].failures \in Nat
          /\ B[p].failures <= breaker[p].failures + (IF o = "failed" THEN 1 ELSE 0)
      BY <3>1 DEF Moved, Breaker
    <3>3. /\ e \in Places(req, p, None) /\ e \notin Places(req, p, o)
          /\ Places(f, p, o) = Places(req, p, o) \cup {e}
          /\ Places(f, p, None) = Places(req, p, None) \ {e}
          /\ \A x \in Outcomes \ {o, None} : Places(f, p, x) = Places(req, p, x)
      BY <1>2, <1>5, <1>6, <2>3
    <3>4. Tallied(f, p, S[p], B[p])
      <4> DEFINE h == req
                 u == S[p]
                 t == stats[p]
                 c == B[p]
                 b == breaker[p]
      <4> HIDE DEF h, u, t, c, b
      <4>1. Tallied(f, p, u, c)
        BY <1>2, <2>1, <3>1, <3>2, <3>3, TallyMoves DEF h, u, t, c, b
      <4> QED
        BY <4>1 DEF u, c
    <3>5. ASSUME breaker[p].state = "closed", B[p].state # "closed"
          PROVE  S[p].failed >= FailureThreshold
      <4>1. o = "failed" /\ breaker[p].failures + 1 >= FailureThreshold
        BY <3>1, <3>5 DEF Moved
      <4>2. S[p].failed = stats[p].failed + 1 /\ stats[p].failed \in Nat
        BY <2>1, <3>1, <4>1
      <4> QED
        BY <2>1, <2>2, <4>1, <4>2, BreakerAssumption
    <3> QED
      BY <3>4, <3>5
  <2>4. CASE p # P
    <3>1. /\ S[p].total = stats[p].total /\ S[p].success = stats[p].success
          /\ S[p].failed = stats[p].failed /\ S[p].limited >= stats[p].limited
          /\ Moved(p, B[p], 0)
      BY <2>1, <2>4 DEF Records, P
    <3>2. /\ B[p].failures \in Nat /\ B[p].failures <= breaker[p].failures
          /\ ~(breaker[p].state = "closed" /\ B[p].state # "closed")
      BY <2>1, <3>1 DEF Moved, Breaker
    <3>3. \A x \in Outcomes : Places(f, p, x) = Places(req, p, x)
      BY <1>5, <2>4
    <3>4. Tallied(f, p, stats[p], B[p])
      <4> DEFINE h == req
                 t == stats[p]
                 c == B[p]
                 b == breaker[p]
      <4> HIDE DEF h, t, c, b
      <4>1. Tallied(f, p, t, c)
        BY <2>1, <3>2, <3>3, TallySame DEF h, t, c, b
      <4> QED
        BY <4>1 DEF t, c
    <3>5. Cardinality(Places(f, p, "limited")) \in Nat
      BY <3>4, TallyTyped DEF Outcomes, Endings
    <3> QED
      BY <2>1, <3>1, <3>2, <3>4, <3>5 DEF Tallied
  <2> QED
    BY <2>3, <2>4
<1> QED
  BY <1>7 DEF AllTallied, Trips

LEMMA CountPrimed ==
    ASSUME RouteInv', \A r \in Requests : Pending(req'[r]),
           AllTallied(req', breaker', stats')
    PROVE  CountInv'
  BY DEF CountInv, AllTallied, Tallied, Places, Pending, LastTry

\* Only request r has moved.
LEMMA OneCounted ==
    ASSUME CountInv, RouteInv', NEW r \in Requests,
           \A s \in Requests \ {r} : req'[s] = req[s],
           Pending(req'[r]), AllTallied(req', breaker', stats')
    PROVE  CountInv'
<1>1. \A s \in Requests : Pending(req'[s])
  BY DEF CountInv
<1> QED
  BY <1>1, CountPrimed

\* A breaker that was only read, heard of a success or was reset has not counted
\* a failure, and one that is closed stays closed.
LEMMA MovedFacts ==
    ASSUME CountInv, NEW p \in Providers
    PROVE  /\ Moved(p, breaker[p], 0)
           /\ Moved(p, GetState(breaker[p], now), 0)
           /\ Moved(p, BreakerSuccess(breaker[p], now), 0)
           /\ Moved(p, ResetBreaker, 0)
           /\ Moved(p, BreakerFailure(breaker[p], now), 1)
<1>1. breaker[p] \in Breaker /\ now \in Int /\ breaker[p].failures \in Nat
  BY DEF CountInv, RouteInv, Breakers, Breaker
<1>2. /\ GetState(breaker[p], now) \in Breaker
      /\ ResetBreaker \in Breaker
      /\ BreakerSuccess(breaker[p], now) \in Breaker
      /\ BreakerFailure(breaker[p], now) \in Breaker
  BY <1>1, MethodsTyped
<1>3. ResetBreaker.failures = 0 /\ ResetBreaker.state = "closed"
  BY DEF ResetBreaker, NewBreaker
<1> HIDE DEF Moved
<1> QED
  BY <1>1, <1>2, <1>3, FailuresFacts DEF Moved

\* Breakers that have not counted a failure keep the tally of tries that are the
\* same for every provider that leaves the reporting to the router.
LEMMA StillTallied ==
    ASSUME CountInv, NEW B, NEW S, NEW f,
           \A p \in Providers \ SelfReporting :
              /\ Moved(p, B[p], 0) /\ S[p] = stats[p]
              /\ \A o \in Outcomes : Places(f, p, o) = Places(req, p, o)
    PROVE  AllTallied(f, B, S) /\ Trips(B, S)
<1>1. ASSUME NEW p \in Providers \ SelfReporting
      PROVE  /\ Tallied(f, p, S[p], B[p])
             /\ ~(breaker[p].state = "closed" /\ B[p].state # "closed")
  <2>1. /\ Tallied(req, p, stats[p], breaker[p]) /\ breaker[p].failures \in Nat
    BY DEF CountInv, AllTallied, RouteInv, Breakers, Breaker
  <2>2. /\ B[p].failures \in Nat /\ B[p].failures <= breaker[p].failures
        /\ ~(breaker[p].state = "closed" /\ B[p].state # "closed")
    BY <2>1 DEF Moved, Breaker
  <2> DEFINE h == req
             t == stats[p]
             c == B[p]
             b == breaker[p]
  <2>3. /\ Tallied(h, p, t, b) /\ S[p] = t
        /\ b.failures \in Nat /\ c.failures \in Nat /\ c.failures <= b.failures
        /\ \A o \in Outcomes : Places(f, p, o) = Places(h, p, o)
    BY <2>1, <2>2
  <2> HIDE DEF h, t, c, b
  <2>4. Tallied(f, p, t, c)
    BY <2>3, TallySame
  <2> QED
    BY <2>2, <2>3, <2>4 DEF c
<1> QED
  BY <1>1 DEF AllTallied, Trips

\* A pass of the loop, after a handler whose books are in order.
LEMMA TurnCounted ==
    ASSUME CountInv, NEW r \in Requests, NEW q, NEW B, NEW R, NEW S, Turn(r, q, B, R, S),
           AllTallied([req EXCEPT ![r] = q], B, S), Trips(B, S)
    PROVE  CountInv' /\ Trips(breaker', stats')
<1>1. /\ RouteInv /\ RouteInv' /\ req \in [Requests -> Locals] /\ now \in Int
  BY TurnKeeps DEF CountInv, RouteInv
<1>2. /\ q \in Locals /\ B \in Breakers /\ R \in Rings /\ S \in Stats
  BY DEF Turn
<1>3. CASE Proceed(r, q, B, R, S)
  <2>1. /\ AllTallied(req', breaker', stats')
        /\ Pending(req'[r])
        /\ \A s \in Requests \ {r} : req'[s] = req[s]
        /\ \A p \in Providers : breaker'[p] = GetState(B[p], now)
        /\ \A p \in Providers : stats'[p].failed = S[p].failed
    BY <1>1, <1>2, <1>3, PassTallied
  <2>2. \A p \in Providers : breaker'[p].state # "closed" => B[p].state # "closed"
    BY <1>1, <1>2, <2>1, FailuresFacts DEF Breakers
  <2> QED
    BY <1>1, <2>1, <2>2, OneCounted DEF Trips
<1>4. CASE /\ req' = [req EXCEPT ![r] = Answered(q, "upstream", LastTry(q).provider, None)]
           /\ breaker' = B /\ stats' = S
  <2> DEFINE f == [req EXCEPT ![r] = q]
  <2>1. /\ req'[r] = Answered(q, "upstream", LastTry(q).provider, None)
        /\ \A s \in Requests \ {r} : req'[s] = req[s]
    BY <1>1, <1>4
  <2>2. req'[r].phase = "done" /\ req'[r].tries = q.tries
    BY <1>2, <2>1 DEF Answered, Locals
  <2>3. \A s \in Requests : req'[s].tries = f[s].tries
    BY <1>1, <2>1, <2>2
  <2>4. AllTallied(f, B, S)
    OBVIOUS
  <2> HIDE DEF f
  <2>5. \A p, o : Places(req', p, o) = Places(f, p, o)
    BY <2>3, SameTries
  <2>6. AllTallied(req', B, S)
    BY <2>4, <2>5 DEF AllTallied, Tallied
  <2>7. Pending(req'[r])
    BY <2>2 DEF Pending
  <2> QED
    BY <1>1, <1>4, <2>1, <2>6, <2>7, OneCounted
<1> QED
  BY <1>3, <1>4 DEF Turn

LEMMA StartCounted ==
    ASSUME CountInv, NEW r \in Requests, Start(r)
    PROVE  CountInv' /\ Trips(breaker', stats')
<1>1. PICK a \in Asks :
         LET q == [Unasked EXCEPT !.ask = a, !.deadline = now + RouteTimeout]
         IN  \/ /\ req' = [req EXCEPT ![r] = Answered(q, "refused", None, None)]
                /\ UNCHANGED <<providerVars, rr>>
             \/ Proceed(r, q, breaker, ring, stats)
  BY DEF Start
<1> DEFINE q == [Unasked EXCEPT !.ask = a, !.deadline = now + RouteTimeout]
           f == [req EXCEPT ![r] = q]
<1>2. /\ RouteInv /\ req \in [Requests -> Locals] /\ req[r].tries = <<>> /\ now \in Int
      /\ breaker \in Breakers /\ ring \in Rings /\ stats \in Stats
  BY DEF CountInv, RouteInv, Start, Settled
<1>3. RouteInv'
  BY <1>2, NextInv DEF Next
<1>4. q \in Locals /\ q.tries = <<>>
  <2>1. now + RouteTimeout \in Nat
    BY GatewayAssumption DEF CountInv, RouteInv
  <2>2. Unasked \in Locals /\ Unasked.tries = <<>>
    BY DEF Unasked, Locals
  <2> QED
    BY <2>1, <2>2 DEF Locals
<1> HIDE DEF q
<1>5. \A s \in Requests : f[s].tries = req[s].tries
  BY <1>2, <1>4
<1> HIDE DEF f
<1>6. AllTallied(f, breaker, stats)
  <2>1. \A p, o : Places(f, p, o) = Places(req, p, o)
    BY <1>5, SameTries
  <2>2. \A p \in Providers : Moved(p, breaker[p], 0)
    BY MovedFacts
  <2> QED
    BY <2>1, <2>2, StillTallied
<1>7. CASE Proceed(r, q, breaker, ring, stats)
  <2>1. /\ AllTallied(req', breaker', stats')
        /\ Pending(req'[r])
        /\ \A s \in Requests \ {r} : req'[s] = req[s]
        /\ \A p \in Providers : breaker'[p] = GetState(breaker[p], now)
    BY <1>2, <1>4, <1>6, <1>7, PassTallied DEF f
  <2>2. \A p \in Providers : breaker'[p].state # "closed" => breaker[p].state # "closed"
    BY <1>2, <2>1, FailuresFacts DEF Breakers
  <2> QED
    BY <1>3, <2>1, <2>2, OneCounted DEF Trips
<1>8. CASE /\ req' = [req EXCEPT ![r] = Answered(q, "refused", None, None)]
           /\ UNCHANGED <<providerVars, rr>>
  <2>1. /\ req'[r] = Answered(q, "refused", None, None)
        /\ \A s \in Requests \ {r} : req'[s] = req[s]
        /\ breaker' = breaker /\ stats' = stats
    BY <1>2, <1>8 DEF providerVars
  <2>2. req'[r].phase = "done" /\ req'[r].tries = <<>>
    BY <1>4, <2>1 DEF Answered, Locals
  <2>3. \A s \in Requests : req'[s].tries = req[s].tries
    BY <1>2, <2>1, <2>2
  <2>4. \A p, o : Places(req', p, o) = Places(req, p, o)
    BY <2>3, SameTries
  <2>5. \A p \in Providers : Moved(p, breaker'[p], 0)
    BY <2>1, MovedFacts
  <2>6. AllTallied(req', breaker', stats') /\ Trips(breaker', stats')
    BY <2>1, <2>4, <2>5, StillTallied
  <2>7. Pending(req'[r])
    BY <2>2 DEF Pending
  <2> QED
    BY <1>3, <2>1, <2>6, <2>7, OneCounted
<1> QED
  BY <1>1, <1>7, <1>8 DEF q

LEMMA AnswerCounted ==
    ASSUME CountInv, NEW r \in Requests, Succeed(r) \/ ClientError(r)
    PROVE  CountInv' /\ Trips(breaker', stats')
<1> DEFINE P == LastTry(req[r]).provider
           o == IF Succeed(r) THEN "ok" ELSE "client"
<1>1. /\ RouteInv /\ req \in [Requests -> Locals] /\ Settled(req[r])
      /\ req[r].phase = "waiting" /\ req[r].tries # <<>>
      /\ P \in Providers /\ breaker \in Breakers /\ stats \in Stats
  BY PendingFacts DEF CountInv, RouteInv, Succeed, ClientError
<1>2. RouteInv'
  BY <1>1, NextInv DEF Next, Respond
<1>3. /\ Ended(r, o) \in Locals
      /\ LastTry(Ended(r, o)).provider = P
      /\ o \in {"ok", "limited", "client", "failed"}
  BY <1>1, EndedFacts DEF Outcomes, Endings
<1>4. /\ \A s \in Requests \ {r} : req'[s] = req[s]
      /\ req'[r].tries = Ended(r, o).tries
      /\ req'[r].phase \in {"done", "streaming"}
      /\ req'[r].phase = "streaming" => P \in SelfReporting
  <2> DEFINE e == Ended(r, o)
             q == [e EXCEPT !.phase = "done",
                            !.answer = [kind |-> IF Succeed(r) THEN "served" ELSE "upstream",
                                        provider |-> P, advice |-> None]]
  <2>1. \/ req' = [req EXCEPT ![r] = q]
        \/ /\ req' = [req EXCEPT ![r] = [q EXCEPT !.phase = "streaming"]]
           /\ P \in SelfReporting
    <3>1. CASE Succeed(r)
      BY <3>1 DEF Succeed, Answered
    <3>2. CASE ~Succeed(r)
      BY <3>2 DEF ClientError, Answered
    <3> QED
      BY <3>1, <3>2
  <2>2. e \in Locals
    BY <1>3
  <2> HIDE DEF e, P
  <2>3. q.tries = e.tries /\ q.phase = "done" /\ DOMAIN q = DOMAIN e
    BY <2>2 DEF Locals
  <2>4. [q EXCEPT !.phase = "streaming"].tries = e.tries
        /\ [q EXCEPT !.phase = "streaming"].phase = "streaming"
    BY <2>2 DEF Locals
  <2> HIDE DEF q
  <2> QED
    BY <1>1, <2>1, <2>3, <2>4 DEF e
<1>5. Pending(req'[r])
  <2>1. LastTry(req'[r]) = LastTry(Ended(r, o))
    BY <1>4 DEF LastTry
  <2> QED
    BY <1>3, <1>4, <2>1 DEF Pending
<1>6. Records(r, o, breaker', stats')
  <2> SUFFICES ASSUME NEW p \in Providers \ SelfReporting
               PROVE  LET d(x) == IF p = P /\ o = x THEN 1 ELSE 0
                      IN  /\ stats'[p].total = stats[p].total
                          /\ stats'[p].success = stats[p].success + d("ok")
                          /\ stats'[p].failed = stats[p].failed + d("failed")
                          /\ stats'[p].limited >= stats[p].limited + d("limited")
                          /\ Moved(p, breaker'[p], d("failed"))
    BY DEF Records
  <2>1. /\ Moved(p, breaker[p], 0) /\ Moved(p, BreakerSuccess(breaker[p], now), 0)
    BY MovedFacts
  <2>2. stats[p] \in [total : Nat, success : Nat, failed : Nat, limited : Nat]
    BY <1>1 DEF Stats
  <2> HIDE DEF P
  <2>3. CASE Succeed(r)
    <3>1. /\ breaker' = [breaker EXCEPT ![P] = BreakerSuccess(@, now)]
          /\ P = p => stats' = [stats EXCEPT ![P].success = @ + 1]
          /\ \E n \in {1, 2} : stats' = [stats EXCEPT ![P].success = @ + n]
      BY <2>3 DEF Succeed, P, SelfReporting
    <3>2. CASE p = P
      BY <1>1, <2>1, <2>2, <2>3, <3>1, <3>2 DEF Breakers, Stats
    <3>3. CASE p # P
      BY <1>1, <2>1, <2>2, <3>1, <3>3 DEF Breakers, Stats
    <3> QED
      BY <3>2, <3>3
  <2>4. CASE ~Succeed(r)
    <3>1. breaker' = breaker /\ stats' = stats
      BY <2>4 DEF ClientError, providerVars
    <3> QED
      BY <2>1, <2>2, <2>4, <3>1
  <2> QED
    BY <2>3, <2>4
<1>7. stats' \in Stats
  BY <1>2 DEF RouteInv, Stats
<1>8. \A s \in Requests \ {r} : req'[s].tries = req[s].tries
  BY <1>4
<1>9. AllTallied(req', breaker', stats') /\ Trips(breaker', stats')
  <2> HIDE DEF o
  <2> DEFINE f == req'
             B == breaker'
             S == stats'
  <2>1. /\ Records(r, o, B, S) /\ S \in Stats
        /\ \A s \in Requests \ {r} : f[s].tries = req[s].tries
        /\ f[r].tries = Ended(r, o).tries
    BY <1>4, <1>6, <1>7, <1>8
  <2> HIDE DEF f, B, S
  <2>2. AllTallied(f, B, S) /\ Trips(B, S)
    BY <1>1, <1>3, <2>1, EndedTally
  <2> QED
    BY <2>2 DEF f, B, S
<1> QED
  BY <1>2, <1>4, <1>5, <1>9, OneCounted

\* The handlers of a 429 and of a failure record what they heard, before the next
\* pass of the loop.
LEMMA HandlerCounted ==
    ASSUME CountInv, NEW r \in Requests, req[r].phase \in {"waiting", "failing"},
           NEW o \in {"limited", "failed"},
           NEW q, NEW B, NEW R, NEW S, Turn(r, q, B, R, S), Records(r, o, B, S),
           q.tries = Ended(r, o).tries
    PROVE  CountInv' /\ Trips(breaker', stats')
<1> DEFINE f == [req EXCEPT ![r] = q]
<1>1. req \in [Requests -> Locals] /\ S \in Stats
  BY DEF CountInv, RouteInv, Turn
<1>2. f[r].tries = Ended(r, o).tries /\ \A s \in Requests \ {r} : f[s].tries = req[s].tries
  BY <1>1
<1> HIDE DEF f
<1>3. AllTallied(f, B, S) /\ Trips(B, S)
  BY <1>1, <1>2, EndedTally
<1> QED
  BY <1>3, TurnCounted DEF f

LEMMA RateLimitedCounted ==
    ASSUME CountInv, NEW r \in Requests, NEW ra \in RetryAfters \cup {None},
           RateLimited(r, ra)
    PROVE  CountInv' /\ Trips(breaker', stats')
<1> DEFINE P == LastTry(req[r]).provider
<1>1. PICK q, B, R, S : Turn(r, q, B, R, S) /\ AfterLimit(r, q, B, S)
  BY RateLimitedTurn DEF CountInv
<1>2. /\ req[r].phase = "waiting" /\ P \in Providers
      /\ breaker \in Breakers /\ stats \in Stats
  BY PendingFacts DEF CountInv, RouteInv, RateLimited
<1>3. /\ q.tries = Ended(r, "limited").tries
      /\ B = PolledBreakers(breaker, {P})
      /\ S = [stats EXCEPT ![P].limited = @ + (IF P \in OAuth THEN 2 ELSE 1)]
  BY <1>1 DEF AfterLimit
<1>4. Records(r, "limited", B, S)
  <2> SUFFICES ASSUME NEW p \in Providers \ SelfReporting
               PROVE  /\ S[p].total = stats[p].total
                      /\ S[p].success = stats[p].success
                      /\ S[p].failed = stats[p].failed
                      /\ S[p].limited >= stats[p].limited + (IF p = P THEN 1 ELSE 0)
                      /\ Moved(p, B[p], 0)
    <3>1. /\ ("limited" = "ok") = FALSE /\ ("limited" = "failed") = FALSE
      OBVIOUS
    <3>2. \A p \in Providers \ SelfReporting :
             stats[p].success \in Nat /\ stats[p].failed \in Nat
      BY <1>2 DEF Stats
    <3> QED
      BY <3>1, <3>2 DEF Records
  <2>1. Moved(p, breaker[p], 0) /\ Moved(p, GetState(breaker[p], now), 0)
    BY MovedFacts
  <2>2. stats[p] \in [total : Nat, success : Nat, failed : Nat, limited : Nat]
    BY <1>2 DEF Stats
  <2>3. Moved(p, B[p], 0)
    BY <1>3, <2>1 DEF PolledBreakers
  <2> HIDE DEF P
  <2>4. S[p] \in {stats[p], [stats[p] EXCEPT !.limited = @ + 1], [stats[p] EXCEPT !.limited = @ + 2]}
        /\ (p = P => S[p] # stats[p])
    BY <1>2, <1>3, <2>2 DEF Stats
  <2> QED
    BY <2>2, <2>3, <2>4
<1> QED
  BY <1>1, <1>2, <1>3, <1>4, HandlerCounted

LEMMA FailCounted ==
    ASSUME CountInv, NEW r \in Requests, NEW ra \in RetryAfters \cup {None},
           NEW own \in BOOLEAN, Fail(r, ra, own)
    PROVE  CountInv' /\ Trips(breaker', stats')
<1> DEFINE P == LastTry(req[r]).provider
           b == IF own THEN BreakerFailure(breaker[P], now) ELSE breaker[P]
<1>1. PICK q, B, R, S : Turn(r, q, B, R, S) /\ AfterFailure(r, own, ra, q, B, S)
  BY FailTurn DEF CountInv
<1>2. /\ req[r].phase \in {"waiting", "failing"} /\ P \in Providers
      /\ breaker \in Breakers /\ stats \in Stats
      /\ own => P \in SelfReporting
  BY PendingFacts DEF CountInv, RouteInv, Fail
<1>3. /\ q.tries = Ended(r, "failed").tries
      /\ B = [breaker EXCEPT ![P] = BreakerFailure(b, now)]
      /\ S = [stats EXCEPT ![P].failed = @ + (IF own THEN 2 ELSE 1),
                          ![P].limited = @ + (IF ra = None THEN 0 ELSE 1)]
  BY <1>1 DEF AfterFailure
<1>4. Records(r, "failed", B, S)
  <2> SUFFICES ASSUME NEW p \in Providers \ SelfReporting
               PROVE  /\ S[p].total = stats[p].total
                      /\ S[p].success = stats[p].success
                      /\ S[p].failed = stats[p].failed + (IF p = P THEN 1 ELSE 0)
                      /\ S[p].limited >= stats[p].limited
                      /\ Moved(p, B[p], IF p = P THEN 1 ELSE 0)
    <3>1. /\ ("failed" = "ok") = FALSE /\ ("failed" = "limited") = FALSE
      OBVIOUS
    <3>2. \A p \in Providers \ SelfReporting :
             stats[p].success \in Nat /\ stats[p].limited \in Nat
      BY <1>2 DEF Stats
    <3> QED
      BY <3>1, <3>2 DEF Records
  <2>1. Moved(p, breaker[p], 0) /\ Moved(p, BreakerFailure(breaker[p], now), 1)
    BY MovedFacts
  <2>2. stats[p] \in [total : Nat, success : Nat, failed : Nat, limited : Nat]
    BY <1>2 DEF Stats
  <2>3. CASE p = P
    <3>1. own = FALSE /\ B[p] = BreakerFailure(breaker[p], now)
      BY <1>2, <1>3, <2>3 DEF Breakers
    <3> HIDE DEF P
    <3>2. \E m \in {0, 1} :
             S[p] = [stats[p] EXCEPT !.failed = @ + 1, !.limited = @ + m]
      BY <1>2, <1>3, <2>2, <2>3, <3>1 DEF Stats
    <3> QED
      BY <2>1, <2>2, <2>3, <3>1, <3>2
  <2>4. CASE p # P
    <3> HIDE DEF P
    <3>1. B[p] = breaker[p] /\ S[p] = stats[p]
      BY <1>2, <1>3, <2>4 DEF Breakers, Stats
    <3> QED
      BY <2>1, <2>2, <2>4, <3>1
  <2> QED
    BY <2>3, <2>4
<1> QED
  BY <1>1, <1>2, <1>3, <1>4, HandlerCounted

\* Nothing but outcomes of tries of provider q differ, and only those of request r.
OnlyOf(f, g, r, q) ==
    /\ \A s \in Requests \ {r} : g[s].tries = f[s].tries
    /\ DOMAIN g[r].tries = DOMAIN f[r].tries
    /\ \A i \in DOMAIN f[r].tries :
          /\ g[r].tries[i].provider = f[r].tries[i].provider
          /\ f[r].tries[i].provider # q => g[r].tries[i].outcome = f[r].tries[i].outcome

LEMMA OthersSame ==
    ASSUME NEW f, NEW g, NEW r \in Requests, NEW q, OnlyOf(f, g, r, q),
           NEW p, p # q, NEW o
    PROVE  Places(g, p, o) = Places(f, p, o)
<1> USE DEF OnlyOf
<1>1. ASSUME NEW s \in Requests, NEW i
      PROVE  /\ i \in DOMAIN g[s].tries <=> i \in DOMAIN f[s].tries
             /\ i \in DOMAIN f[s].tries =>
                   /\ g[s].tries[i].provider = f[s].tries[i].provider
                   /\ f[s].tries[i].provider = p =>
                         g[s].tries[i].outcome = f[s].tries[i].outcome
  <2>1. CASE s = r
    BY <2>1
  <2>2. CASE s # r
    <3>1. g[s].tries = f[s].tries
      BY <2>2
    <3> QED
      BY <3>1
  <2> QED
    BY <2>1, <2>2
<1>2. \A e : e \in Places(g, p, o) <=> e \in Places(f, p, o)
  BY <1>1, PlacesFacts
<1> QED
  BY <1>2

\* What a claude provider reports itself is counted for that provider alone.
LEMMA OwnReportCounted ==
    ASSUME CountInv, NEW r \in Requests,
           SelfReport(r) \/ StreamEnds(r) \/ StreamError(r) \/ StreamFails(r)
    PROVE  CountInv' /\ Trips(breaker', stats')
<1> DEFINE P == LastTry(req[r]).provider
           n == Len(req[r].tries)
<1>1. /\ RouteInv /\ req \in [Requests -> Locals] /\ Settled(req[r])
      /\ req[r].tries # <<>> /\ req[r].tries[n].provider = P
      /\ P \in Providers /\ breaker \in Breakers /\ stats \in Stats
  BY PendingFacts DEF CountInv, RouteInv, SelfReport, StreamEnds, StreamError, StreamFails,
     LastTry
<1>2. RouteInv'
  BY <1>1, NextInv DEF Next
<1>3. P \in SelfReporting
  BY DEF CountInv, Pending, SelfReport, StreamEnds, StreamError, StreamFails, SelfReporting
<1>4. req[r] \in Locals /\ n \in DOMAIN req[r].tries
  BY <1>1, LocalsFacts
<1>5. /\ Ended(r, "broken") \in Locals
      /\ Ended(r, "broken").phase = req[r].phase
      /\ DOMAIN Ended(r, "broken").tries = DOMAIN req[r].tries
      /\ LastTry(Ended(r, "broken")).provider = P
      /\ \A i \in DOMAIN req[r].tries :
            /\ Ended(r, "broken").tries[i].provider = req[r].tries[i].provider
            /\ i # n => Ended(r, "broken").tries[i].outcome = req[r].tries[i].outcome
  <2>1. "broken" \in Outcomes
    BY DEF Outcomes, Endings
  <2>2. /\ Ended(r, "broken") \in Locals /\ Len(Ended(r, "broken").tries) = n
        /\ Ended(r, "broken").phase = req[r].phase
        /\ LastTry(Ended(r, "broken")).provider = P
        /\ \A i \in DOMAIN req[r].tries :
              /\ Ended(r, "broken").tries[i].provider = req[r].tries[i].provider
              /\ i # n => Ended(r, "broken").tries[i].outcome = req[r].tries[i].outcome
    BY <1>1, <2>1, EndedFacts
  <2> QED
    BY <1>1, <2>2, LocalsFacts
<1>6. \A s \in Requests \ {r} : req'[s] = req[s]
  BY <1>1 DEF SelfReport, StreamEnds, StreamError, StreamFails
<1>7. /\ \/ req'[r].tries = req[r].tries
         \/ req'[r].tries = Ended(r, "broken").tries
      /\ \/ req'[r].phase = "done"
         \/ req'[r].phase = "failing" /\ req'[r].tries = req[r].tries
              /\ LastTry(req[r]).outcome = None
         \/ req'[r].phase = "streaming"
  <2>1. CASE SelfReport(r)
    <3>1. req'[r] = [req[r] EXCEPT !.phase = "failing"] /\ req[r].phase = "waiting"
      BY <1>1, <2>1 DEF SelfReport
    <3>2. LastTry(req[r]).outcome = None
      BY <3>1 DEF CountInv, Pending
    <3> QED
      BY <1>4, <3>1, <3>2 DEF Locals
  <2>2. CASE StreamEnds(r)
    <3>1. req'[r] = [req[r] EXCEPT !.phase = "done"]
      BY <1>1, <2>2 DEF StreamEnds
    <3> QED
      BY <1>4, <3>1 DEF Locals
  <2>3. CASE StreamError(r)
    <3>1. req'[r] = Ended(r, "broken") /\ req[r].phase = "streaming"
      BY <1>1, <2>3 DEF StreamError
    <3> QED
      BY <1>5, <3>1
  <2>4. CASE StreamFails(r)
    <3>1. req'[r] = [Ended(r, "broken") EXCEPT !.phase = "done"]
      BY <1>1, <2>4 DEF StreamFails
    <3> QED
      BY <1>5, <3>1 DEF Locals
  <2> QED
    BY <2>1, <2>2, <2>3, <2>4
<1>8. LastTry(req'[r]).provider = P /\
      (req'[r].phase \in {"waiting", "failing"} => LastTry(req'[r]).outcome = None)
  <2>1. \/ LastTry(req'[r]) = LastTry(req[r])
        \/ LastTry(req'[r]) = LastTry(Ended(r, "broken"))
    BY <1>7 DEF LastTry
  <2>2. LastTry(req'[r]).provider = P
    BY <1>5, <2>1
  <2>3. ASSUME req'[r].phase \in {"waiting", "failing"}
        PROVE  LastTry(req'[r]).outcome = None
    <3>1. req'[r].tries = req[r].tries /\ LastTry(req[r]).outcome = None
      BY <1>7, <2>3
    <3> QED
      BY <3>1 DEF LastTry
  <2> QED
    BY <2>2, <2>3
<1>9. Pending(req'[r])
  BY <1>3, <1>8 DEF Pending
<1>10. ASSUME NEW p \in Providers \ SelfReporting
       PROVE  /\ Moved(p, breaker'[p], 0) /\ stats'[p] = stats[p]
              /\ \A o \in Outcomes : Places(req', p, o) = Places(req, p, o)
  <2>1. p # P
    BY <1>3
  <2>2. breaker'[p] = breaker[p] /\ stats'[p] = stats[p]
    <3>1. OnError(P) \/ UNCHANGED providerVars
      BY DEF SelfReport, StreamEnds, StreamError, StreamFails
    <3> HIDE DEF P
    <3> QED
      BY <1>1, <2>1, <3>1 DEF OnError, providerVars, Breakers, Stats
  <2>3. Moved(p, breaker'[p], 0)
    BY <2>2, MovedFacts
  <2>4. OnlyOf(req, req', r, P)
    BY <1>1, <1>5, <1>6, <1>7 DEF OnlyOf
  <2> DEFINE g == req'
  <2>5. OnlyOf(req, g, r, P)
    BY <2>4
  <2> HIDE DEF g, P
  <2>6. \A o : Places(g, p, o) = Places(req, p, o)
    BY <2>1, <2>5, OthersSame
  <2> QED
    BY <2>2, <2>3, <2>6 DEF g
<1>11. AllTallied(req', breaker', stats') /\ Trips(breaker', stats')
  <2> DEFINE f == req'
             B == breaker'
             S == stats'
  <2>1. \A p \in Providers \ SelfReporting :
           /\ Moved(p, B[p], 0) /\ S[p] = stats[p]
           /\ \A o \in Outcomes : Places(f, p, o) = Places(req, p, o)
    BY <1>10
  <2> HIDE DEF f, B, S
  <2>2. AllTallied(f, B, S) /\ Trips(B, S)
    BY <2>1, StillTallied
  <2> QED
    BY <2>2 DEF f, B, S
<1> QED
  BY <1>2, <1>6, <1>9, <1>11, OneCounted

LEMMA OperatorCounted ==
    ASSUME CountInv,
           \/ Status \/ \E s \in Strategies : SetStrategy(s)
           \/ \E p \in Providers : AdminReset(p)
           \/ Tick \/ UNCHANGED vars
    PROVE  CountInv' /\ Trips(breaker', stats')
<1>1. RouteInv'
  BY NextInv DEF CountInv, Next
<1>2. req' = req /\ stats' = stats
  BY DEF Status, SetStrategy, AdminReset, Tick, vars
<1>3. ASSUME NEW p \in Providers PROVE Moved(p, breaker'[p], 0)
  <2>1. breaker'[p] \in {breaker[p], GetState(breaker[p], now), ResetBreaker}
    BY DEF Status, SetStrategy, AdminReset, Tick, vars, PolledBreakers, CountInv, RouteInv,
       Breakers
  <2> QED
    BY <2>1, MovedFacts
<1>4. AllTallied(req, breaker', stats') /\ Trips(breaker', stats')
  <2> DEFINE B == breaker'
             S == stats'
  <2>1. \A p \in Providers \ SelfReporting : Moved(p, B[p], 0) /\ S[p] = stats[p]
    BY <1>2, <1>3
  <2> HIDE DEF B, S
  <2>2. AllTallied(req, B, S) /\ Trips(B, S)
    BY <2>1, StillTallied
  <2> QED
    BY <2>2 DEF B, S
<1>5. \A r \in Requests : Pending(req'[r])
  BY <1>2 DEF CountInv
<1> QED
  BY <1>1, <1>2, <1>4, <1>5, CountPrimed

LEMMA CountStep ==
    ASSUME CountInv, [Next]_vars PROVE CountInv' /\ Trips(breaker', stats')
<1>1. ASSUME NEW r \in Requests, Respond(r) PROVE CountInv' /\ Trips(breaker', stats')
  BY <1>1, AnswerCounted, RateLimitedCounted, FailCounted DEF Respond
<1> QED
  BY <1>1, StartCounted, OwnReportCounted, OperatorCounted DEF Next

LEMMA CountInit == Init => CountInv
<1> SUFFICES ASSUME Init PROVE CountInv
  OBVIOUS
<1>1. \A r \in Requests : req[r] = Unasked
  BY DEF Init
<1>2. Unasked.tries = <<>> /\ Unasked.phase = "idle"
  BY DEF Unasked
<1>3. \A p, o : Places(req, p, o) = {}
  <2>1. DOMAIN Unasked.tries = {}
    BY <1>2
  <2> QED
    BY <1>1, <2>1 DEF Places
<1>4. ASSUME NEW p \in Providers PROVE Tallied(req, p, stats[p], breaker[p])
  <2>1. stats[p] = NewStats /\ breaker[p] = NewBreaker
    BY DEF Init
  <2>2. Cardinality({}) = 0 /\ IsFiniteSet({})
    BY FS_EmptySet
  <2> QED
    BY <1>3, <2>1, <2>2 DEF Tallied, NewStats, NewBreaker
<1>5. \A r \in Requests : Pending(req[r])
  BY <1>1, <1>2 DEF Pending
<1> QED
  BY <1>4, <1>5, InitInv DEF CountInv, AllTallied

LEMMA CountImplies == CountInv => GatewayInv
<1> SUFFICES ASSUME CountInv PROVE GatewayInv
  OBVIOUS
<1>1. TypeOK
  BY InvariantImplies DEF CountInv
<1>2. \A p, o : TriesOf(p, o) = Places(req, p, o)
  BY DEF TriesOf, Places
<1>3. StatsAgree
  BY <1>2 DEF CountInv, AllTallied, Tallied, StatsAgree
<1> QED
  BY <1>1, <1>3 DEF GatewayInv

TriesFinite ==
    \A p \in Providers \ SelfReporting, o \in Outcomes : IsFiniteSet(TriesOf(p, o))

LEMMA CountFinite == CountInv => TriesFinite
  BY DEF CountInv, AllTallied, Tallied, TriesOf, Places, TriesFinite

\* The counters of the status page agree with what the requests saw, however many
\* requests were in flight, for every provider that leaves the reporting to the
\* router: each try is counted once in the total and once by its outcome (stats,
\* onSuccess, onError, onRateLimit).
THEOREM CountersAgree == Spec => []GatewayInv
<1>1. CountInv /\ [Next]_vars => CountInv'
  BY CountStep
<1> QED
  BY <1>1, CountInit, CountImplies, PTL DEF Spec

\* The breaker of such a provider opens only when as many of its tries have failed
\* as the threshold asks for, whatever the claude providers do beside it.
THEOREM RoutedTripsNeedFailures ==
    Spec => [][\A p \in Providers \ SelfReporting :
                  breaker[p].state = "closed" /\ breaker'[p].state = "open" =>
                     Cardinality(TriesOf(p, "failed")') >= FailureThreshold]_vars
<1> DEFINE A == \A p \in Providers \ SelfReporting :
                   breaker[p].state = "closed" /\ breaker'[p].state = "open" =>
                      Cardinality(TriesOf(p, "failed")') >= FailureThreshold
<1>1. CountInv /\ [Next]_vars => CountInv' /\ A
  <2> SUFFICES ASSUME CountInv, [Next]_vars PROVE CountInv' /\ A
    OBVIOUS
  <2>1. CountInv' /\ Trips(breaker', stats')
    BY CountStep
  <2>2. StatsAgree'
    BY <2>1, CountImplies, PTL DEF GatewayInv
  <2>3. \A p \in Providers \ SelfReporting :
           stats'[p].failed = Cardinality(TriesOf(p, "failed")')
    BY <2>2 DEF StatsAgree
  <2> QED
    BY <2>1, <2>3 DEF Trips
<1>2. CountInv /\ [Next]_vars => [A]_vars
  BY <1>1
<1> QED
  BY <1>1, <1>2, CountInit, PTL DEF Spec

\* Where no provider reports failures itself, no breaker opens before
\* CB_FAILURE_THRESHOLD tries of its provider have failed.  With claude-code-api,
\* which also reports what the router counts, it is not so.
THEOREM TripsNeedFailures ==
    ASSUME SelfReporting = {}
    PROVE  Spec => TripsOnEnoughFailures
<1> DEFINE A == \A p \in Providers :
                   breaker[p].state = "closed" /\ breaker'[p].state = "open" =>
                      Cardinality(TriesOf(p, "failed")') + Cardinality(TriesOf(p, "broken")')
                         >= FailureThreshold
<1>1. CountInv /\ [Next]_vars => CountInv' /\ A
  <2> SUFFICES ASSUME CountInv, [Next]_vars, NEW p \in Providers,
                      CountInv',
                      breaker[p].state = "closed" /\ breaker'[p].state = "open"
               PROVE  Cardinality(TriesOf(p, "failed")') + Cardinality(TriesOf(p, "broken")')
                         >= FailureThreshold
    BY CountStep
  <2> DEFINE N(o) == Cardinality(TriesOf(p, o)')
  <2>1. N("failed") >= FailureThreshold
    <3>1. Trips(breaker', stats') /\ p \in Providers \ SelfReporting
      BY CountStep
    <3>2. StatsAgree'
      BY CountImplies, PTL DEF GatewayInv
    <3>3. stats'[p].failed = N("failed")
      BY <3>1, <3>2 DEF StatsAgree
    <3> QED
      BY <3>1, <3>3 DEF Trips
  <2>2. N("broken") \in Nat /\ N("failed") \in Nat
    <3>1. {"broken", "failed"} \subseteq Outcomes
      BY DEF Outcomes, Endings
    <3>2. TriesFinite'
      BY CountFinite, PTL
    <3>3. \A o \in Outcomes : IsFiniteSet(TriesOf(p, o)')
      BY <3>2 DEF TriesFinite
    <3> QED
      BY <3>1, <3>3, FS_CardinalityType
  <2> HIDE DEF N
  <2>3. N("failed") + N("broken") >= FailureThreshold
    BY <2>1, <2>2, BreakerAssumption
  <2> QED
    BY <2>3 DEF N
<1>2. CountInv /\ [Next]_vars => [A]_vars
  BY <1>1
<1>3. [][A]_vars => TripsOnEnoughFailures
  BY DEF TripsOnEnoughFailures
<1> QED
  BY <1>1, <1>2, <1>3, CountInit, PTL DEF Spec
=============================================================================
