--------------------------- MODULE KeyPoolProofs ---------------------------
(***************************************************************************)
(* Proofs about the keys of one provider, for any number of keys and calls *)
(* in flight, any window and any limit.                                    *)
(***************************************************************************)
EXTENDS KeyPool, FiniteSetTheorems, TLAPS

\* Every stamp of a history belongs to the past and stamps of one instant are
\* numbered without gaps, so no two dispatches share a stamp.
Numbered(L, t) ==
    /\ IsFiniteSet(L)
    /\ \A s \in L : s[1] <= t
    /\ \A u \in Nat : {s \in L : s[1] = u}
                        = {<<u, i>> : i \in 0 .. Cardinality({s \in L : s[1] = u}) - 1}

\* The inductive invariant: what the limiter still remembers of the current
\* window is exactly what was sent in it.
PoolInv ==
    /\ TypeOK
    /\ \A k \in Keys :
          /\ Numbered(log[k], now)
          /\ Fresh(ring[k].window, now) = Fresh(log[k], now)
    /\ Quota

\* A key that was asked to wait has its cooldown until then.
WaitsOut == \A k \in Keys : penalty[k] # None =>
               \/ ring[k].blockedUntil # None /\ ring[k].blockedUntil >= penalty[k]
               \/ now >= penalty[k]

-----------------------------------------------------------------------------
(* The limiters and the ring.                                              *)

\* Dropping the old stamps once is enough, and later ones only drop more.
LEMMA FreshFacts ==
    ASSUME NEW W \in SUBSET (Nat \X Nat), NEW t \in Nat
    PROVE  /\ Fresh(W, t) \subseteq W
           /\ Fresh(Fresh(W, t), t) = Fresh(W, t)
           /\ Fresh(Fresh(W, t), t + 1) = Fresh(W, t + 1)
           /\ Fresh(W, t + 1) \subseteq Fresh(W, t)
  BY LimiterAssumption, NoneAssumption DEF Fresh

\* Checking a limiter never changes what it will answer at that time.
LEMMA CheckedFacts ==
    ASSUME NEW l \in Limiter, NEW t \in Nat
    PROVE  /\ Checked(l, t) \in Limiter
           /\ Fresh(Checked(l, t).window, t) = Fresh(l.window, t)
           /\ InCooldown(Checked(l, t), t) <=> InCooldown(l, t)
           /\ Checked(l, t).blockedUntil \in {l.blockedUntil, None}
           /\ InCooldown(l, t) => Checked(l, t).blockedUntil = l.blockedUntil
           /\ Checked(l, t).window \subseteq l.window
<1>1. CASE InCooldown(l, t)
  BY <1>1 DEF Checked, Limiter
<1>2. CASE ~InCooldown(l, t)
  <2>1. Checked(l, t) = [blockedUntil |-> None, window |-> Fresh(l.window, t)]
    BY <1>2 DEF Checked
  <2>2. /\ l.window \in SUBSET (Nat \X Nat)
        /\ Fresh(l.window, t) \subseteq l.window
        /\ Fresh(Fresh(l.window, t), t) = Fresh(l.window, t)
    BY FreshFacts DEF Limiter
  <2>3. QED
    BY <1>2, <2>1, <2>2 DEF InCooldown, Limiter
<1> QED
  BY <1>1, <1>2

\* Scanning keys never changes which of them are free at that time.
LEMMA ScanFacts ==
    ASSUME NEW r \in [Keys -> Limiter], NEW S, NEW t \in Nat
    PROVE  /\ Scan(r, S, t) \in [Keys -> Limiter]
           /\ \A k \in Keys :
                 /\ Fresh(Scan(r, S, t)[k].window, t) = Fresh(r[k].window, t)
                 /\ IsRateLimited(Scan(r, S, t)[k], t) <=> IsRateLimited(r[k], t)
                 /\ Scan(r, S, t)[k].blockedUntil \in {r[k].blockedUntil, None}
                 /\ InCooldown(r[k], t) => Scan(r, S, t)[k].blockedUntil = r[k].blockedUntil
                 /\ Scan(r, S, t)[k].window \subseteq r[k].window
<1>1. ASSUME NEW k \in Keys
      PROVE  /\ Scan(r, S, t)[k] \in Limiter
             /\ Fresh(Scan(r, S, t)[k].window, t) = Fresh(r[k].window, t)
             /\ IsRateLimited(Scan(r, S, t)[k], t) <=> IsRateLimited(r[k], t)
             /\ Scan(r, S, t)[k].blockedUntil \in {r[k].blockedUntil, None}
             /\ InCooldown(r[k], t) => Scan(r, S, t)[k].blockedUntil = r[k].blockedUntil
             /\ Scan(r, S, t)[k].window \subseteq r[k].window
  <2>1. Scan(r, S, t)[k] \in {Checked(r[k], t), r[k]}
    BY DEF Scan
  <2>2. r[k] \in Limiter
    OBVIOUS
  <2>3. QED
    BY <2>1, <2>2, CheckedFacts DEF IsRateLimited, IsWindowFull
<1>2. QED
  BY <1>1 DEF Scan

\* A cooldown starts and ends without touching the window.
LEMMA LimiterFacts ==
    ASSUME NEW l \in Limiter, NEW t \in Nat, NEW ra \in Nat \cup {None}
    PROVE  /\ ClearRateLimit(l) \in Limiter
           /\ ClearRateLimit(l).window = l.window
           /\ ClearRateLimit(l).blockedUntil = None
           /\ MarkRateLimited(l, t, ra) \in Limiter
           /\ MarkRateLimited(l, t, ra).window = l.window
<1>1. t + (IF ra = None THEN DefaultCooldown ELSE ra) \in Nat
  BY LimiterAssumption, NoneAssumption
<1>2. QED
  BY <1>1 DEF ClearRateLimit, MarkRateLimited, Limiter

\* The operator's reset ends every cooldown and keeps every window.
LEMMA ClearedFacts ==
    ASSUME NEW r \in [Keys -> Limiter]
    PROVE  /\ Cleared(r) \in [Keys -> Limiter]
           /\ \A k \in Keys : /\ Cleared(r)[k].window = r[k].window
                             /\ Cleared(r)[k].blockedUntil = None
<1>1. \A k \in Keys : /\ ClearRateLimit(r[k]) \in Limiter
                      /\ ClearRateLimit(r[k]).window = r[k].window
                      /\ ClearRateLimit(r[k]).blockedUntil = None
  BY LimiterFacts, LimiterAssumption, NoneAssumption
<1> QED
  BY <1>1 DEF Cleared

-----------------------------------------------------------------------------
LEMMA IntervalStep ==
    ASSUME NEW m \in Nat
    PROVE  0 .. (m + 1) - 1 = (0 .. m - 1) \cup {m}
  OBVIOUS
\* A dispatch at t adds one stamp, a new one, to a well-numbered history.
LEMMA StampFacts ==
    ASSUME NEW L \in SUBSET (Nat \X Nat), NEW t \in Nat, Numbered(L, t)
    PROVE  /\ Stamp(Fresh(L, t), t) \in Nat \X Nat
           /\ Stamp(Fresh(L, t), t)[1] = t
           /\ Stamp(Fresh(L, t), t) \notin L
           /\ Numbered(L \cup {Stamp(Fresh(L, t), t)}, t)
           /\ Cardinality(L \cup {Stamp(Fresh(L, t), t)}) = Cardinality(L) + 1
<1> DEFINE A(u) == {x \in L : x[1] = u}
           n == Cardinality(A(t))
           s == Stamp(Fresh(L, t), t)
<1>1. {x \in Fresh(L, t) : x[1] = t} = A(t)
  BY LimiterAssumption, NoneAssumption DEF Fresh
<1>2. s = <<t, n>>
  BY <1>1 DEF Stamp
<1> HIDE DEF s
<1>3. \A u \in Nat : IsFiniteSet(A(u)) /\ Cardinality(A(u)) \in Nat
  <2>1. ASSUME NEW u \in Nat PROVE IsFiniteSet(A(u))
    BY FS_Subset DEF Numbered
  <2>2. QED
    BY <2>1, FS_CardinalityType
<1>4. s \notin L
  <2>1. A(t) = {<<t, i>> : i \in 0 .. n - 1}
    BY DEF Numbered
  <2>2. n \notin 0 .. n - 1
    BY <1>3
  <2>3. <<t, n>> \notin A(t)
    BY <2>1, <2>2
  <2> QED
    BY <1>2, <2>3
<1>5. Cardinality(L \cup {s}) = Cardinality(L) + 1 /\ IsFiniteSet(L \cup {s})
  BY <1>4, FS_AddElement DEF Numbered
<1>6. ASSUME NEW u \in Nat
      PROVE  {x \in L \cup {s} : x[1] = u}
               = {<<u, i>> : i \in 0 .. Cardinality({x \in L \cup {s} : x[1] = u}) - 1}
  <2>1. CASE u = t
    <3>1. {x \in L \cup {s} : x[1] = u} = A(t) \cup {s}
      BY <1>2, <2>1
    <3>2. Cardinality(A(t) \cup {s}) = n + 1
      BY <1>3, <1>4, FS_AddElement
    <3>3. A(t) = {<<t, i>> : i \in 0 .. n - 1}
      BY DEF Numbered
    <3>4. 0 .. (n + 1) - 1 = (0 .. n - 1) \cup {n}
      BY <1>3, IntervalStep
    <3>5. A(t) \cup {s} = {<<t, i>> : i \in 0 .. (n + 1) - 1}
      BY <1>2, <3>3, <3>4
    <3>6. Cardinality({x \in L \cup {s} : x[1] = u}) = n + 1
      BY <3>1, <3>2
    <3> QED
      BY <2>1, <3>1, <3>5, <3>6
  <2>2. CASE u # t
    <3>1. {x \in L \cup {s} : x[1] = u} = A(u)
      BY <1>2, <2>2
    <3> QED
      BY <3>1 DEF Numbered
  <2> QED
    BY <2>1, <2>2
<1>7. n \in Nat
  BY <1>3
<1>8. s \in Nat \X Nat /\ s[1] = t
  BY <1>2, <1>7
<1>9. \A x \in L \cup {s} : x[1] <= t
  BY <1>8 DEF Numbered
<1>10. Numbered(L \cup {s}, t)
  BY <1>5, <1>6, <1>9 DEF Numbered
<1> QED
  BY <1>4, <1>5, <1>8, <1>10 DEF s

\* What one dispatch does, from which everything else follows.
LEMMA DispatchFacts ==
    ASSUME PoolInv, NEW c \in Calls, Dispatch(c)
    PROVE  \E k \in Keys :
              LET s == Stamp(Fresh(log[k], now), now) IN
              /\ sentWith[c] = None
              /\ k \in FreeKeys(ring, now)
              /\ \A j \in FreeKeys(ring, now) : Distance(rotation, k) <= Distance(rotation, j)
              /\ ring' \in [Keys -> Limiter]
              /\ \A j \in Keys : ring'[j].blockedUntil \in {ring[j].blockedUntil, None}
              /\ \A j \in Keys : InCooldown(ring[j], now) =>
                                  ring'[j].blockedUntil = ring[j].blockedUntil
              /\ \A j \in Keys \ {k} :
                    Fresh(ring'[j].window, now) = Fresh(ring[j].window, now)
              /\ Fresh(ring'[k].window, now) = Fresh(ring[k].window, now) \cup {s}
              /\ rotation' = NextKey(k)
              /\ sentWith' = [sentWith EXCEPT ![c] = k]
              /\ log' = [log EXCEPT ![k] = @ \cup {s}]
              /\ smooth' = (smooth /\ FreeKeys(ring, now) = Keys)
              /\ now' = now /\ penalty' = penalty
<1> DEFINE seen   == ScanAvailable(ring, now)
           picked == ScanPick(seen, rotation, now)
<1>1. /\ ring \in [Keys -> Limiter] /\ now \in Nat
      /\ log \in [Keys -> SUBSET (Nat \X Nat)]
  BY DEF PoolInv, TypeOK
<1>2. /\ seen \in [Keys -> Limiter]
      /\ \A k \in Keys :
            /\ Fresh(seen[k].window, now) = Fresh(ring[k].window, now)
            /\ IsRateLimited(seen[k], now) <=> IsRateLimited(ring[k], now)
            /\ seen[k].blockedUntil \in {ring[k].blockedUntil, None}
            /\ InCooldown(ring[k], now) => seen[k].blockedUntil = ring[k].blockedUntil
  BY <1>1, ScanFacts DEF ScanAvailable
<1> HIDE DEF seen
<1>3. /\ picked \in [Keys -> Limiter]
      /\ \A k \in Keys :
            /\ Fresh(picked[k].window, now) = Fresh(seen[k].window, now)
            /\ picked[k].blockedUntil \in {seen[k].blockedUntil, None}
            /\ InCooldown(seen[k], now) => picked[k].blockedUntil = seen[k].blockedUntil
  BY <1>1, <1>2, ScanFacts DEF ScanPick
<1>4. FreeKeys(seen, now) = FreeKeys(ring, now)
  BY <1>2 DEF FreeKeys
<1>5. PICK k \in Keys :
         /\ PickKey(seen, rotation, now, k)
         /\ ring' = [picked EXCEPT ![k] = RecordRequest(@, now)]
         /\ rotation' = NextKey(k)
         /\ sentWith' = [sentWith EXCEPT ![c] = k]
         /\ log' = [log EXCEPT ![k] =
                       @ \cup {Stamp(Fresh(picked[k].window, now), now)}]
  BY DEF Dispatch, seen
<1> HIDE DEF picked
<1> DEFINE s == Stamp(Fresh(log[k], now), now)
<1>6. Fresh(picked[k].window, now) = Fresh(log[k], now)
  BY <1>2, <1>3 DEF PoolInv
<1>7. RecordRequest(picked[k], now)
         = [picked[k] EXCEPT !.window = Fresh(log[k], now) \cup {s}]
  BY <1>6 DEF RecordRequest
<1>8. /\ s \in Nat \X Nat
      /\ s[1] = now
  <2>1. log[k] \in SUBSET (Nat \X Nat) /\ Numbered(log[k], now)
    BY <1>1 DEF PoolInv
  <2> QED
    BY <1>1, <2>1, StampFacts
<1> HIDE DEF s
<1>9. /\ RecordRequest(picked[k], now) \in Limiter
      /\ RecordRequest(picked[k], now).window = Fresh(log[k], now) \cup {s}
      /\ RecordRequest(picked[k], now).blockedUntil = picked[k].blockedUntil
  <2>1. Fresh(log[k], now) \cup {s} \in SUBSET (Nat \X Nat)
    BY <1>1, <1>8, FreshFacts
  <2>2. picked[k] \in Limiter
    BY <1>3
  <2> QED
    BY <1>7, <2>1, <2>2 DEF Limiter
<1>10. Fresh(Fresh(log[k], now) \cup {s}, now) = Fresh(ring[k].window, now) \cup {s}
  <2>1. Fresh(Fresh(log[k], now) \cup {s}, now) = Fresh(log[k], now) \cup {s}
    BY <1>1, <1>8, LimiterAssumption, NoneAssumption DEF Fresh
  <2> QED
    BY <2>1 DEF PoolInv
<1>11. /\ ring' \in [Keys -> Limiter]
       /\ ring'[k] = RecordRequest(picked[k], now)
       /\ \A j \in Keys \ {k} : ring'[j] = picked[j]
  BY <1>3, <1>5, <1>9
<1>12. \A j \in Keys : ring'[j].blockedUntil \in {ring[j].blockedUntil, None}
  BY <1>2, <1>3, <1>9, <1>11
<1>13. \A j \in Keys : InCooldown(ring[j], now) => ring'[j].blockedUntil = ring[j].blockedUntil
  BY <1>2, <1>3, <1>9, <1>11 DEF InCooldown
<1>14. \A j \in Keys \ {k} : Fresh(ring'[j].window, now) = Fresh(ring[j].window, now)
  BY <1>2, <1>3, <1>11
<1>15. Fresh(ring'[k].window, now) = Fresh(ring[k].window, now) \cup {s}
  BY <1>9, <1>10, <1>11
<1>16. /\ k \in FreeKeys(ring, now)
       /\ \A j \in FreeKeys(ring, now) : Distance(rotation, k) <= Distance(rotation, j)
  BY <1>4, <1>5 DEF PickKey
<1>17. log' = [log EXCEPT ![k] = @ \cup {s}]
  BY <1>5, <1>6 DEF s
<1>18. /\ sentWith[c] = None
       /\ smooth' = (smooth /\ FreeKeys(ring, now) = Keys)
       /\ now' = now /\ penalty' = penalty
  BY DEF Dispatch
<1> QED
  BY <1>5, <1>11, <1>12, <1>14, <1>15, <1>16, <1>17, <1>18, <1>13 DEF s

\* Steps that leave the clock, the history and the fresh part of every window
\* alone keep the invariant.
LEMMA QuietStep ==
    ASSUME PoolInv, TypeOK', now' = now, log' = log,
           \A k \in Keys : Fresh(ring'[k].window, now) = Fresh(ring[k].window, now)
    PROVE  PoolInv'
  BY DEF PoolInv, Quota, SentBy

\* A parsed Retry-After is a positive number of ticks, and no shorter than asked.
LEMMA ParsedFacts ==
    ASSUME NEW header \in Headers \cup {None}, NEW t \in Nat
    PROVE  /\ ParseRetryAfter(header, t) \in Nat \cup {None}
           /\ AskedUntil(header, t) \in Int \cup {None}
           /\ header = None => AskedUntil(header, t) = None
           /\ header # None => /\ ParseRetryAfter(header, t) \in Nat
                              /\ t + ParseRetryAfter(header, t) >= AskedUntil(header, t)
<1>1. CASE header = None
  BY <1>1 DEF ParseRetryAfter, AskedUntil
<1>2. CASE header # None
  <2>1. header.date \in BOOLEAN /\ header.value \in Int
    BY <1>2, PoolAssumption
  <2> QED
    BY <1>2, <2>1, PoolAssumption DEF ParseRetryAfter, AskedUntil
<1> QED
  BY <1>1, <1>2
LEMMA InitInv == Init => PoolInv
<1> SUFFICES ASSUME Init PROVE PoolInv
  OBVIOUS
<1>1. TypeOK
  BY KeyAssumption DEF Init, TypeOK, Keys, NewLimiter, Limiter
<1>2. ASSUME NEW k \in Keys
      PROVE  /\ Numbered(log[k], now)
             /\ Fresh(ring[k].window, now) = Fresh(log[k], now)
  <2>1. log[k] = {} /\ ring[k].window = {}
    BY DEF Init, NewLimiter
  <2>2. \A u \in Nat : {s \in {} : s[1] = u} = {} /\ 0 .. 0 - 1 = {}
    OBVIOUS
  <2>3. Cardinality({}) = 0 /\ IsFiniteSet({})
    BY FS_EmptySet
  <2>4. \A u \in Nat : {s \in {} : s[1] = u}
            = {<<u, i>> : i \in 0 .. Cardinality({s \in {} : s[1] = u}) - 1}
    BY <2>2, <2>3
  <2> QED
    BY <2>1, <2>3, <2>4 DEF Numbered
<1>3. Quota
  <2>1. \A k \in Keys, t \in 0 .. now : SentBy(k, t) = {}
    BY DEF Init, SentBy
  <2> QED
    BY <2>1, FS_EmptySet, LimiterAssumption, NoneAssumption DEF Quota
<1> QED
  BY <1>1, <1>2, <1>3 DEF PoolInv

LEMMA NextInv == PoolInv /\ [Next]_vars => PoolInv'
<1> SUFFICES ASSUME PoolInv, [Next]_vars PROVE PoolInv'
  OBVIOUS
<1>1. /\ TypeOK
      /\ ring \in [Keys -> Limiter] /\ now \in Nat
      /\ log \in [Keys -> SUBSET (Nat \X Nat)]
      /\ sentWith \in [Calls -> Keys \cup {None}]
  BY DEF PoolInv, TypeOK
<1>2. ASSUME NEW c \in Calls, Dispatch(c) PROVE PoolInv'
  <2>1. PICK k \in Keys :
          LET s == Stamp(Fresh(log[k], now), now) IN
            /\ k \in FreeKeys(ring, now)
            /\ ring' \in [Keys -> Limiter]
            /\ \A j \in Keys \ {k} :
                  Fresh(ring'[j].window, now) = Fresh(ring[j].window, now)
            /\ Fresh(ring'[k].window, now) = Fresh(ring[k].window, now) \cup {s}
            /\ rotation' = NextKey(k)
            /\ sentWith' = [sentWith EXCEPT ![c] = k]
            /\ log' = [log EXCEPT ![k] = @ \cup {s}]
            /\ smooth' = (smooth /\ FreeKeys(ring, now) = Keys)
            /\ now' = now /\ penalty' = penalty
    BY <1>2, DispatchFacts
  <2> DEFINE s == Stamp(Fresh(log[k], now), now)
  <2>2. /\ log[k] \in SUBSET (Nat \X Nat)
        /\ Numbered(log[k], now)
        /\ Fresh(ring[k].window, now) = Fresh(log[k], now)
    BY <1>1 DEF PoolInv
  <2>3. /\ s \in Nat \X Nat
        /\ s[1] = now
        /\ s \notin log[k]
        /\ Numbered(log[k] \cup {s}, now)
    BY <1>1, <2>2, StampFacts
  <2>4. /\ log' = [log EXCEPT ![k] = @ \cup {s}]
        /\ Fresh(ring'[k].window, now) = Fresh(ring[k].window, now) \cup {s}
    BY <2>1
  <2> HIDE DEF s
  <2>5. /\ log' \in [Keys -> SUBSET (Nat \X Nat)]
        /\ log'[k] = log[k] \cup {s}
        /\ \A j \in Keys \ {k} : log'[j] = log[j]
    BY <1>1, <2>3, <2>4
  <2>6. TypeOK'
    <3>1. rotation' \in Keys
      BY <2>1, KeyAssumption DEF NextKey, Keys
    <3>2. smooth' \in BOOLEAN
      BY <2>1
    <3>3. sentWith' \in [Calls -> Keys \cup {None}]
      BY <1>1, <2>1
    <3> QED
      BY <1>1, <2>1, <2>5, <3>1, <3>2, <3>3 DEF TypeOK
  <2>7. ASSUME NEW j \in Keys
        PROVE  /\ Numbered(log'[j], now)
               /\ Fresh(ring'[j].window, now) = Fresh(log'[j], now)
    <3>1. CASE j = k
      <4>1. Fresh(log[k] \cup {s}, now) = Fresh(log[k], now) \cup {s}
        BY <1>1, <2>3, LimiterAssumption, NoneAssumption DEF Fresh
      <4> QED
        BY <2>2, <2>3, <2>4, <2>5, <3>1, <4>1
    <3>2. CASE j # k
      BY <2>1, <2>5, <3>2 DEF PoolInv
    <3> QED
      BY <3>1, <3>2
  <2>8. ASSUME NEW j \in Keys, NEW t \in 0 .. now
        PROVE  Cardinality(SentBy(j, t)') <= MaxRequests
    <3>1. CASE j # k \/ t # now
      <4>1. SentBy(j, t)' = SentBy(j, t)
        BY <1>1, <2>3, <2>5, <3>1 DEF SentBy
      <4> QED
        BY <4>1 DEF PoolInv, Quota
    <3>2. CASE j = k /\ t = now
      <4>1. SentBy(j, t) = Fresh(log[k], now)
        BY <1>1, <2>2, <3>2 DEF SentBy, Fresh, Numbered
      <4>2. SentBy(j, t)' = SentBy(j, t) \cup {s}
        BY <1>1, <2>3, <2>5, <3>2, LimiterAssumption, NoneAssumption DEF SentBy
      <4>3. IsFiniteSet(SentBy(j, t))
        BY <2>2, <3>2, FS_Subset DEF SentBy, Numbered
      <4>4. s \notin SentBy(j, t)
        BY <2>3, <3>2 DEF SentBy
      <4>5. Cardinality(SentBy(j, t) \cup {s}) = Cardinality(SentBy(j, t)) + 1
        BY <4>3, <4>4, FS_AddElement
      <4>6. Cardinality(SentBy(j, t)) < MaxRequests
        <5>1. ~(Cardinality(Fresh(ring[k].window, now)) >= MaxRequests)
          BY <2>1 DEF FreeKeys, IsRateLimited, IsWindowFull
        <5>2. Cardinality(SentBy(j, t)) \in Nat
          BY <4>3, FS_CardinalityType
        <5> QED
          BY <2>2, <4>1, <5>1, <5>2, LimiterAssumption, NoneAssumption
      <4>7. Cardinality(SentBy(j, t)) \in Nat
        BY <4>3, FS_CardinalityType
      <4> QED
        BY <4>2, <4>5, <4>6, <4>7, LimiterAssumption, NoneAssumption
    <3> QED
      BY <3>1, <3>2
  <2>9. now' = now
    BY <2>1
  <2> QED
    BY <2>6, <2>7, <2>8, <2>9 DEF PoolInv, Quota, SentBy
<1>3. ASSUME NEW c \in Calls, AnswerOk(c) PROVE PoolInv'
  <2>1. sentWith[c] \in Keys
    BY <1>1, <1>3 DEF AnswerOk
  <2>2. ring' = [ring EXCEPT ![sentWith[c]] = ClearRateLimit(@)]
    BY <1>3 DEF AnswerOk
  <2>3. ring[sentWith[c]] \in Limiter
    BY <1>1, <2>1
  <2>4. /\ ring' \in [Keys -> Limiter]
        /\ \A k \in Keys : ring'[k].window = ring[k].window
    BY <1>1, <2>1, <2>2, <2>3, LimiterFacts
  <2>5. TypeOK'
    BY <1>1, <1>3, <2>1, <2>4 DEF AnswerOk, TypeOK
  <2> QED
    BY <1>3, <2>4, <2>5, QuietStep DEF AnswerOk
<1>4. ASSUME NEW c \in Calls, NEW header \in Headers \cup {None}, AnswerLimited(c, header)
      PROVE  PoolInv'
  <2>1. sentWith[c] \in Keys
    BY <1>1, <1>4 DEF AnswerLimited
  <2> DEFINE ra == ParseRetryAfter(header, now)
  <2>2. ring' = [ring EXCEPT ![sentWith[c]] = MarkRateLimited(@, now, ra)]
    BY <1>4 DEF AnswerLimited
  <2>3. ring[sentWith[c]] \in Limiter /\ ra \in Nat \cup {None}
    BY <1>1, <2>1, ParsedFacts
  <2>4. /\ ring' \in [Keys -> Limiter]
        /\ \A k \in Keys : ring'[k].window = ring[k].window
    <3> HIDE DEF ra
    <3>1. /\ MarkRateLimited(ring[sentWith[c]], now, ra) \in Limiter
          /\ MarkRateLimited(ring[sentWith[c]], now, ra).window
               = ring[sentWith[c]].window
      BY <1>1, <2>3, LimiterFacts
    <3> QED
      BY <1>1, <2>1, <2>2, <3>1
  <2>5. penalty' \in [Keys -> Int \cup {None}]
    <3>1. AskedUntil(header, now) \in Int \cup {None}
      BY <1>1, ParsedFacts
    <3> QED
      BY <1>1, <1>4, <3>1 DEF AnswerLimited, TypeOK
  <2>6. TypeOK'
    BY <1>1, <1>4, <2>4, <2>5 DEF AnswerLimited, TypeOK
  <2> QED
    BY <1>4, <2>4, <2>6, QuietStep DEF AnswerLimited
<1>5. ASSUME NEW c \in Calls, AnswerOther(c) PROVE PoolInv'
  <2>1. TypeOK'
    BY <1>1, <1>5 DEF AnswerOther, TypeOK
  <2> QED
    BY <1>5, <2>1, QuietStep DEF AnswerOther
<1>6. CASE Poll \/ Status
  <2>1. PICK S : ring' = Scan(ring, S, now)
    BY <1>6 DEF Poll, Status, ScanAvailable
  <2>2. /\ ring' \in [Keys -> Limiter]
        /\ \A k \in Keys : Fresh(ring'[k].window, now) = Fresh(ring[k].window, now)
    BY <1>1, <2>1, ScanFacts
  <2>3. TypeOK'
    BY <1>1, <1>6, <2>2 DEF Poll, Status, TypeOK
  <2> QED
    BY <1>6, <2>2, <2>3, QuietStep DEF Poll, Status
<1>7. CASE AdminReset
  <2>1. ring' = Scan(Cleared(ring), Keys, now)
    BY <1>7 DEF AdminReset
  <2>2. /\ ring' \in [Keys -> Limiter]
        /\ \A k \in Keys : Fresh(ring'[k].window, now) = Fresh(ring[k].window, now)
    BY <1>1, <2>1, ClearedFacts, ScanFacts
  <2>3. TypeOK'
    BY <1>1, <1>7, <2>2 DEF AdminReset, TypeOK
  <2> QED
    BY <1>7, <2>2, <2>3, QuietStep DEF AdminReset
<1>8. CASE Tick
  <2>1. now' = now + 1 /\ ring' = ring /\ log' = log
    BY <1>8 DEF Tick
  <2>2. TypeOK'
    BY <1>1, <1>8 DEF Tick, TypeOK
  <2>3. ASSUME NEW k \in Keys
        PROVE  /\ Numbered(log[k], now + 1)
               /\ Fresh(ring[k].window, now + 1) = Fresh(log[k], now + 1)
    <3>1. /\ Numbered(log[k], now)
          /\ Fresh(ring[k].window, now) = Fresh(log[k], now)
      BY DEF PoolInv
    <3>2. \A x \in log[k] : x[1] <= now + 1
      BY <1>1, <3>1 DEF Numbered
    <3>3. ring[k].window \in SUBSET (Nat \X Nat) /\ log[k] \in SUBSET (Nat \X Nat)
      BY <1>1 DEF Limiter
    <3>4. Numbered(log[k], now + 1)
      BY <3>1, <3>2 DEF Numbered
    <3>5. /\ Fresh(Fresh(ring[k].window, now), now + 1) = Fresh(ring[k].window, now + 1)
          /\ Fresh(Fresh(log[k], now), now + 1) = Fresh(log[k], now + 1)
      BY <1>1, <3>3, FreshFacts
    <3> QED
      BY <3>1, <3>4, <3>5
  <2>4. ASSUME NEW k \in Keys, NEW t \in 0 .. now + 1
        PROVE  Cardinality(SentBy(k, t)) <= MaxRequests
    <3>1. CASE t \in 0 .. now
      BY <3>1 DEF PoolInv, Quota
    <3>2. CASE t = now + 1
      <4>1. log[k] \in SUBSET (Nat \X Nat) /\ Numbered(log[k], now)
        BY <1>1 DEF PoolInv
      <4>2. SentBy(k, t) \subseteq SentBy(k, now)
        <5>1. \A x \in log[k] : x[1] \in Nat /\ x[1] <= now
          BY <4>1 DEF Numbered
        <5>2. \A x \in SentBy(k, t) : x \in log[k] /\ t - x[1] < Window
          BY Zenon DEF SentBy
        <5>3. \A x \in SentBy(k, t) : now - x[1] < Window
          <6>1. ASSUME NEW x \in SentBy(k, t) PROVE now - x[1] < Window
            <7>1. x[1] \in Nat /\ t - x[1] < Window
              BY <5>1, <5>2
            <7> QED
              BY <1>1, <3>2, <7>1, LimiterAssumption, NoneAssumption
          <6> QED
            BY <6>1
        <5> QED
          BY <5>1, <5>2, <5>3 DEF SentBy
      <4>3. IsFiniteSet(SentBy(k, now))
        BY <4>1, FS_Subset DEF SentBy, Numbered
      <4>4. Cardinality(SentBy(k, t)) <= Cardinality(SentBy(k, now))
        BY <4>2, <4>3, FS_Subset
      <4>5. Cardinality(SentBy(k, now)) <= MaxRequests
        BY <1>1 DEF PoolInv, Quota
      <4>6. /\ Cardinality(SentBy(k, t)) \in Nat
            /\ Cardinality(SentBy(k, now)) \in Nat
        BY <4>2, <4>3, FS_Subset, FS_CardinalityType
      <4> QED
        BY <4>4, <4>5, <4>6, LimiterAssumption, NoneAssumption
    <3> QED
      BY <1>1, <3>1, <3>2
  <2> QED
    BY <2>1, <2>2, <2>3, <2>4 DEF PoolInv, Quota, SentBy
<1>9. CASE UNCHANGED vars
  BY <1>9 DEF vars, PoolInv, TypeOK, Quota, SentBy
<1> QED
  BY <1>2, <1>3, <1>4, <1>5, <1>6, <1>7, <1>8, <1>9 DEF Next

LEMMA PoolInvariant == Spec => []PoolInv
  BY InitInv, NextInv, PTL DEF Spec

\* No key exceeds its limit in any window, for every limit, window, number of
\* keys and number of concurrent requests, and the pool is always well-formed.
THEOREM KeyQuota == Spec => []KeysInv
  BY PoolInvariant, PTL DEF PoolInv, KeysInv

\* A cooldown starts only on a key whose own call ends in that step, whatever
\* the interleaving of the calls in flight (responseKeyMap).
THEOREM CooldownIsOwn == Spec => CooldownOfOwnKey
<1> DEFINE Own(k) == ring'[k].blockedUntil \notin {ring[k].blockedUntil, None} =>
                        \E c \in Calls : sentWith[c] = k /\ sentWith'[c] = None
<1>1. PoolInv /\ [Next]_vars => [\A k \in Keys : Own(k)]_vars
  <2> SUFFICES ASSUME PoolInv, Next, NEW k \in Keys PROVE Own(k)
    BY Zenon
  <2>1. /\ ring \in [Keys -> Limiter] /\ now \in Nat
        /\ sentWith \in [Calls -> Keys \cup {None}]
    BY DEF PoolInv, TypeOK
  <2>2. ASSUME NEW c \in Calls, Dispatch(c) PROVE Own(k)
    <3>1. \A j \in Keys : ring'[j].blockedUntil \in {ring[j].blockedUntil, None}
      BY <2>2, DispatchFacts
    <3> QED
      BY <3>1
  <2>3. ASSUME NEW c \in Calls, AnswerOk(c) PROVE Own(k)
    <3>1. ring[k] \in Limiter /\ ClearRateLimit(ring[k]).blockedUntil = None
      BY <2>1, LimiterFacts
    <3>2. ring' = [ring EXCEPT ![sentWith[c]] = ClearRateLimit(@)]
      BY <2>3 DEF AnswerOk
    <3>3. ring'[k] \in {ring[k], ClearRateLimit(ring[k])}
      BY <2>1, <3>2
    <3> QED
      BY <3>1, <3>3
  <2>4. ASSUME NEW c \in Calls, NEW header \in Headers \cup {None}, AnswerLimited(c, header)
        PROVE  Own(k)
    <3>1. /\ ring' = [ring EXCEPT ![sentWith[c]] =
                         MarkRateLimited(@, now, ParseRetryAfter(header, now))]
          /\ sentWith' = [sentWith EXCEPT ![c] = None]
      BY <2>4 DEF AnswerLimited
    <3>2. CASE sentWith[c] = k
      BY <2>1, <3>1, <3>2
    <3>3. CASE sentWith[c] # k
      <4>1. ring'[k] = ring[k]
        BY <2>1, <3>1, <3>3
      <4> QED
        BY <4>1
    <3> QED
      BY <3>2, <3>3
  <2>5. CASE Poll \/ Status
    <3>1. PICK S : ring' = Scan(ring, S, now)
      BY <2>5 DEF Poll, Status, ScanAvailable
    <3>2. ring'[k].blockedUntil \in {ring[k].blockedUntil, None}
      BY <2>1, <3>1, ScanFacts
    <3> QED
      BY <3>2
  <2>6. CASE AdminReset
    <3>1. Cleared(ring) \in [Keys -> Limiter] /\ Cleared(ring)[k].blockedUntil = None
      BY <2>1, ClearedFacts
    <3>2. ring'[k].blockedUntil \in {Cleared(ring)[k].blockedUntil, None}
      BY <2>1, <2>6, <3>1, ScanFacts DEF AdminReset
    <3> QED
      BY <3>1, <3>2
  <2>7. ASSUME NEW c \in Calls, AnswerOther(c) PROVE Own(k)
    BY <2>7 DEF AnswerOther
  <2>8. CASE Tick
    BY <2>8 DEF Tick
  <2> QED
    BY <2>2, <2>3, <2>4, <2>5, <2>6, <2>7, <2>8 DEF Next
<1> QED
  BY <1>1, PoolInvariant, PTL DEF Spec, CooldownOfOwnKey

\* Whoever reads a limiter leaves a running cooldown alone.
LEMMA KeepsWaiting ==
    ASSUME PoolInv, WaitsOut, penalty' = penalty, now' = now,
           \A k \in Keys : InCooldown(ring[k], now) => ring'[k].blockedUntil = ring[k].blockedUntil
    PROVE  WaitsOut'
<1> SUFFICES ASSUME NEW k \in Keys, penalty[k] # None
             PROVE  \/ ring'[k].blockedUntil # None /\ ring'[k].blockedUntil >= penalty[k]
                    \/ now >= penalty[k]
  BY DEF WaitsOut
<1>1. now \in Nat /\ penalty[k] \in Int /\ ring[k].blockedUntil \in Nat \cup {None}
  BY DEF PoolInv, TypeOK, Limiter
<1>2. \/ ring[k].blockedUntil # None /\ ring[k].blockedUntil >= penalty[k]
      \/ now >= penalty[k]
  BY DEF WaitsOut
<1>3. CASE ring[k].blockedUntil # None /\ ring[k].blockedUntil >= penalty[k] /\ now < penalty[k]
  BY <1>1, <1>3 DEF InCooldown
<1> QED
  BY <1>1, <1>2, <1>3

LEMMA WaitsStep == PoolInv /\ WaitsOut /\ [Next]_vars => WaitsOut'
<1> SUFFICES ASSUME PoolInv, WaitsOut, [Next]_vars PROVE WaitsOut'
  OBVIOUS
<1>1. /\ ring \in [Keys -> Limiter] /\ now \in Nat
      /\ sentWith \in [Calls -> Keys \cup {None}] /\ penalty \in [Keys -> Int \cup {None}]
  BY DEF PoolInv, TypeOK
<1>2. ASSUME NEW c \in Calls, Dispatch(c) PROVE WaitsOut'
  <2>1. /\ now' = now /\ penalty' = penalty
        /\ \A j \in Keys : InCooldown(ring[j], now) => ring'[j].blockedUntil = ring[j].blockedUntil
    BY <1>2, DispatchFacts
  <2> QED
    BY <2>1, KeepsWaiting
<1>3. ASSUME NEW c \in Calls, AnswerOk(c) PROVE WaitsOut'
  <2>1. \A k \in Keys \ {sentWith[c]} : ring'[k] = ring[k] /\ penalty'[k] = penalty[k]
    BY <1>1, <1>3 DEF AnswerOk
  <2>2. sentWith[c] \in Keys /\ penalty'[sentWith[c]] = None /\ now' = now
    BY <1>1, <1>3 DEF AnswerOk
  <2> QED
    BY <2>1, <2>2 DEF WaitsOut
<1>4. ASSUME NEW c \in Calls, NEW header \in Headers \cup {None}, AnswerLimited(c, header)
      PROVE  WaitsOut'
  <2>1. \A k \in Keys \ {sentWith[c]} : ring'[k] = ring[k] /\ penalty'[k] = penalty[k]
    BY <1>1, <1>4 DEF AnswerLimited
  <2>2. /\ sentWith[c] \in Keys /\ now' = now
        /\ penalty'[sentWith[c]] = AskedUntil(header, now)
        /\ ring'[sentWith[c]] = MarkRateLimited(ring[sentWith[c]], now, ParseRetryAfter(header, now))
    BY <1>1, <1>4 DEF AnswerLimited
  <2>3. ring[sentWith[c]] \in Limiter
    BY <1>1, <2>2
  <2>4. CASE header # None
    <3>1. ring'[sentWith[c]].blockedUntil = now + ParseRetryAfter(header, now)
      BY <2>2, <2>3, <2>4, ParsedFacts, <1>1, NoneAssumption DEF MarkRateLimited, Limiter
    <3>2. /\ ring'[sentWith[c]].blockedUntil # None
          /\ ring'[sentWith[c]].blockedUntil >= penalty'[sentWith[c]]
      BY <1>1, <2>2, <2>4, <3>1, ParsedFacts, NoneAssumption
    <3> QED
      BY <2>1, <2>2, <3>2 DEF WaitsOut
  <2>5. CASE header = None
    <3>1. penalty'[sentWith[c]] = None
      BY <1>1, <2>2, <2>5, ParsedFacts
    <3> QED
      BY <2>1, <2>2, <3>1 DEF WaitsOut
  <2> QED
    BY <2>4, <2>5
<1>5. ASSUME NEW c \in Calls, AnswerOther(c) PROVE WaitsOut'
  BY <1>5 DEF AnswerOther, WaitsOut
<1>6. CASE Poll \/ Status
  <2>1. PICK S : ring' = Scan(ring, S, now)
    BY <1>6 DEF Poll, Status, ScanAvailable
  <2>2. /\ now' = now /\ penalty' = penalty
        /\ \A j \in Keys : InCooldown(ring[j], now) => ring'[j].blockedUntil = ring[j].blockedUntil
    BY <1>1, <1>6, <2>1, ScanFacts DEF Poll, Status
  <2> QED
    BY <2>2, KeepsWaiting
<1>7. CASE AdminReset
  BY <1>7 DEF AdminReset, WaitsOut
<1>8. CASE Tick
  BY <1>1, <1>8 DEF Tick, WaitsOut
<1>9. CASE UNCHANGED vars
  BY <1>9 DEF vars, WaitsOut
<1> QED
  BY <1>2, <1>3, <1>4, <1>5, <1>6, <1>7, <1>8, <1>9 DEF Next

\* A key is not used before the time it was asked to wait until, in any
\* interleaving of polls, dispatches and answers on any number of keys, unless it
\* was let off (isRateLimited, markRateLimited, pickKey).
THEOREM RetryAfterHonoured == Spec => HonoursRetryAfter
<1> DEFINE Honours(c, k) == sentWith[c] = None /\ sentWith'[c] = k /\ penalty[k] # None =>
                               now >= penalty[k]
<1>1. Init => WaitsOut
  BY DEF Init, WaitsOut
<1>2. PoolInv /\ WaitsOut /\ [Next]_vars => [\A c \in Calls, k \in Keys : Honours(c, k)]_vars
  <2> SUFFICES ASSUME PoolInv, WaitsOut, Next, NEW c \in Calls, NEW k \in Keys,
                      sentWith[c] = None, sentWith'[c] = k, penalty[k] # None
               PROVE  now >= penalty[k]
    BY Zenon
  <2>1. /\ ring \in [Keys -> Limiter] /\ now \in Nat /\ k # None
        /\ sentWith \in [Calls -> Keys \cup {None}] /\ penalty[k] \in Int
    BY NoneAssumption, KeyAssumption DEF PoolInv, TypeOK, Keys
  <2>2. PICK d \in Calls : Dispatch(d)
    <3>1. \A d \in Calls : AnswerOk(d) => sentWith'[c] \in {sentWith[c], None}
      BY <2>1 DEF AnswerOk
    <3>2. \A d \in Calls, header \in Headers \cup {None} :
             AnswerLimited(d, header) => sentWith'[c] \in {sentWith[c], None}
      BY <2>1 DEF AnswerLimited
    <3>3. \A d \in Calls : AnswerOther(d) => sentWith'[c] \in {sentWith[c], None}
      BY <2>1 DEF AnswerOther
    <3>4. Poll \/ Status \/ AdminReset \/ Tick => sentWith' = sentWith
      BY DEF Poll, Status, AdminReset, Tick
    <3> QED
      BY <2>1, <3>1, <3>2, <3>3, <3>4 DEF Next
  <2>3. PICK j \in FreeKeys(ring, now) : sentWith' = [sentWith EXCEPT ![d] = j]
    BY <2>2, DispatchFacts
  <2>4. j = k
    BY <2>1, <2>3
  <2>5. ~InCooldown(ring[k], now)
    BY <2>3, <2>4 DEF FreeKeys, IsRateLimited
  <2>6. /\ ring[k].blockedUntil \in Nat \cup {None}
        /\ \/ ring[k].blockedUntil # None /\ ring[k].blockedUntil >= penalty[k]
           \/ now >= penalty[k]
    BY <2>1 DEF WaitsOut, Limiter
  <2> QED
    BY <2>1, <2>5, <2>6, NoneAssumption DEF InCooldown
<1> QED
  BY <1>1, <1>2, WaitsStep, PoolInvariant, PTL DEF Spec, HonoursRetryAfter
-----------------------------------------------------------------------------
\* While every key is usable the requests go round: each key had n of them, those
\* that the rotation has passed in this lap one more.
GoesRound ==
    smooth => \E n \in Nat : \A k \in Keys :
                 Cardinality(log[k]) = n + (IF k < rotation THEN 1 ELSE 0)

LEMMA RoundStep == PoolInv /\ GoesRound /\ [Next]_vars => GoesRound'
<1> SUFFICES ASSUME PoolInv, GoesRound, [Next]_vars PROVE GoesRound'
  OBVIOUS
<1>1. /\ now \in Nat /\ rotation \in Keys /\ smooth \in BOOLEAN
      /\ log \in [Keys -> SUBSET (Nat \X Nat)]
  BY DEF PoolInv, TypeOK
<1>2. ASSUME NEW c \in Calls, Dispatch(c), smooth' PROVE GoesRound'
  <2> DEFINE s(k) == Stamp(Fresh(log[k], now), now)
  <2>1. PICK k \in Keys :
           /\ \A j \in FreeKeys(ring, now) : Distance(rotation, k) <= Distance(rotation, j)
           /\ rotation' = NextKey(k)
           /\ log' = [log EXCEPT ![k] = @ \cup {s(k)}]
           /\ smooth' = (smooth /\ FreeKeys(ring, now) = Keys)
    BY <1>2, DispatchFacts
  <2> HIDE DEF s
  <2>2. smooth /\ FreeKeys(ring, now) = Keys
    BY <1>2, <2>1
  <2>3. k = rotation
    <3>1. Distance(rotation, k) <= Distance(rotation, rotation)
      BY <1>1, <2>1, <2>2
    <3> QED
      BY <1>1, <3>1, KeyAssumption DEF Distance, Keys
  <2>4. /\ Cardinality(log'[k]) = Cardinality(log[k]) + 1
        /\ \A j \in Keys \ {k} : log'[j] = log[j]
    <3>1. log[k] \in SUBSET (Nat \X Nat) /\ Numbered(log[k], now)
      BY <1>1 DEF PoolInv
    <3>2. Cardinality(log[k] \cup {s(k)}) = Cardinality(log[k]) + 1
      BY <1>1, <3>1, StampFacts DEF s
    <3> QED
      BY <1>1, <2>1, <3>2
  <2>5. PICK n \in Nat : \A j \in Keys :
           Cardinality(log[j]) = n + (IF j < rotation THEN 1 ELSE 0)
    BY <2>2 DEF GoesRound
  <2>6. Cardinality(log'[k]) = n + 1
    BY <1>1, <2>3, <2>4, <2>5, KeyAssumption DEF Keys
  <2>7. \A j \in Keys \ {k} : Cardinality(log'[j]) = n + (IF j < k THEN 1 ELSE 0)
    BY <2>3, <2>4, <2>5
  <2>8. CASE k + 1 = KeyCount
    <3>1. rotation' = 0 /\ \A j \in Keys \ {k} : j < k
      BY <2>1, <2>8, KeyAssumption DEF Keys, NextKey
    <3>2. \A j \in Keys : ~(j < rotation')
      BY <3>1, KeyAssumption DEF Keys
    <3>3. \A j \in Keys : Cardinality(log'[j]) = n + 1 /\ ~(j < rotation')
      BY <2>6, <2>7, <3>1, <3>2
    <3>4. n + 1 \in Nat /\ \A j \in Keys :
             Cardinality(log'[j]) = (n + 1) + (IF j < rotation' THEN 1 ELSE 0)
      BY <3>3
    <3> QED
      BY <3>4 DEF GoesRound
  <2>9. CASE k + 1 # KeyCount
    <3>1. k < rotation' /\ \A j \in Keys \ {k} : j < rotation' <=> j < k
      BY <2>1, <2>9, KeyAssumption DEF Keys, NextKey
    <3>2. \A j \in Keys : Cardinality(log'[j]) = n + (IF j < rotation' THEN 1 ELSE 0)
      BY <2>6, <2>7, <3>1
    <3> QED
      BY <3>2 DEF GoesRound
  <2> QED
    BY <2>8, <2>9
<1>3. CASE UNCHANGED <<log, rotation, smooth>>
  BY <1>3 DEF GoesRound
<1> QED
  BY <1>2, <1>3 DEF Next, AnswerOk, AnswerLimited, AnswerOther, Poll, Status, AdminReset, Tick,
                    vars, GoesRound

\* As long as no key was ever unusable none of them is a request behind another, for
\* any number of keys and of calls in flight (keyRotationIndex, pickKey).
THEOREM SpreadsEvenly == Spec => []EvenSpread
<1>1. Init => GoesRound
  <2> SUFFICES ASSUME Init PROVE \A k \in Keys : Cardinality(log[k]) = 0 + (IF k < rotation THEN 1 ELSE 0)
    BY DEF GoesRound
  <2> QED
    BY FS_EmptySet, KeyAssumption DEF Init, Keys
<1>2. GoesRound => EvenSpread
  BY DEF GoesRound, EvenSpread
<1> QED
  BY <1>1, <1>2, PoolInvariant, RoundStep, PTL DEF Spec
=============================================================================
