-------------------------- MODULE IdentifierLimiter --------------------------
(***************************************************************************)
(* The rate limit per X-FreeLLM-Identifier (gateway/identifier-limiter.ts, *)
(* middleware/identifier-limit.ts): a bucket of request times for each     *)
(* identifier, in a Map of bounded size.  checkAndRecord() has no await,   *)
(* so a request is one step.                                               *)
(***************************************************************************)
EXTENDS Integers, Sequences, FiniteSets

CONSTANTS Identifiers,  \* the identifiers clients send
          Limit,        \* config.max
          WindowTicks,  \* config.windowMs, in ticks
          MaxBuckets,   \* config.maxBuckets
          MaxRequests,  \* bound: requests in all
          MaxTime       \* bound: the clock stops here

ASSUME IdentifierAssumption ==
    /\ Limit \in Nat \ {0}
    /\ WindowTicks \in Nat \ {0}
    /\ MaxBuckets \in Nat \ {0}
    /\ MaxRequests \in Nat /\ MaxTime \in Nat

VARIABLES now,      \* Date.now(), in ticks
          buckets,  \* the Map: a function on the identifiers that have a bucket
          history,  \* history: every request and what it was told
          evicted   \* history: identifiers that lost their bucket to another

vars == <<now, buckets, history, evicted>>

\* A time with the number of the request it is of, which tells apart requests of
\* one instant, and orders the buckets as the Map does: by their last use.
Stamp == [at : Nat, nr : Nat]
Bucket == [times : SUBSET Stamp, seen : Stamp]

NoBuckets == [id \in {} |-> {}]

Init == now = 0 /\ buckets = NoBuckets /\ history = <<>> /\ evicted = {}

Tracked(B) == DOMAIN B

Only(B, ids) == [id \in ids |-> B[id]]

\* Mutant: a bucket is idle as soon as its window has passed once more.
DropsRecent(B) == Only(B, {id \in Tracked(B) : B[id].seen.at >= now})

\* pruneIdleBuckets()
NotIdle(B) == Only(B, {id \in Tracked(B) : B[id].seen.at >= now - 2 * WindowTicks})

\* evictStalest(), when the identifier needs a new bucket and there is no room.
WithRoom(B, id) ==
    IF id \notin Tracked(B) /\ Cardinality(Tracked(B)) >= MaxBuckets
    THEN Only(B, {i \in Tracked(B) : \E j \in Tracked(B) : B[j].seen.nr < B[i].seen.nr})
    ELSE B

TimesOf(B, id) == IF id \in Tracked(B) THEN B[id].times ELSE {}

\* Mutant: the times are never pruned.
AllTimes(times) == times

FreshTimes(times) == {s \in times : s.at > now - WindowTicks}

\* The bucket of id, seen now, moves to the end of the Map.
Bumped(B, id, times, stamp) ==
    [i \in Tracked(B) \cup {id} |->
        IF i = id THEN [times |-> times, seen |-> stamp] ELSE B[i]]

Oldest(times) == CHOOSE s \in times : \A u \in times : s.at <= u.at

\* Mutant: the promise is a tick short.
ResetTooSoon(times) == Oldest(times).at + WindowTicks - now - 1

\* resetAfterMs of a rejection
ResetAfter(times) == Oldest(times).at + WindowTicks - now

\* checkAndRecord()
CheckAndRecord(id) ==
    LET kept  == NotIdle(buckets)
        room  == WithRoom(kept, id)
        fresh == FreshTimes(TimesOf(room, id))
        stamp == [at |-> now, nr |-> Len(history) + 1]
        Told(allowed, reset) ==
            history' = Append(history, [id |-> id, at |-> now, allowed |-> allowed,
                                        retryAt |-> now + reset])
    IN  /\ Len(history) < MaxRequests
        /\ \/ /\ Cardinality(fresh) >= Limit
              /\ buckets' = Bumped(room, id, fresh, stamp)
              /\ Told(FALSE, ResetAfter(fresh))
           \/ /\ Cardinality(fresh) < Limit
              /\ buckets' = Bumped(room, id, fresh \cup {stamp}, stamp)
              /\ Told(TRUE, WindowTicks)
        /\ evicted' = evicted \cup (Tracked(kept) \ Tracked(room))
        /\ UNCHANGED now

Tick == /\ now < MaxTime
        /\ now' = now + 1
        /\ UNCHANGED <<buckets, history, evicted>>

Next == (\E id \in Identifiers : CheckAndRecord(id)) \/ Tick

Spec == Init /\ [][Next]_vars
-----------------------------------------------------------------------------
Request == [id : Identifiers, at : Nat, allowed : BOOLEAN, retryAt : Int]

\* The Map never outgrows its ceiling, and no two buckets were seen last by one
\* request: the stalest is unique.
TypeOK ==
    /\ now \in Nat
    /\ evicted \subseteq Identifiers
    /\ Tracked(buckets) \subseteq Identifiers
    /\ buckets \in [Tracked(buckets) -> Bucket]
    /\ history \in Seq(Request)
    /\ IsFiniteSet(Tracked(buckets)) /\ Cardinality(Tracked(buckets)) <= MaxBuckets
    /\ \A i, j \in Tracked(buckets) : i # j => buckets[i].seen.nr # buckets[j].seen.nr

StampOf(i) == [at |-> history[i].at, nr |-> i]

Granted(id, t) ==
    {StampOf(i) : i \in {j \in DOMAIN history :
        /\ history[j].id = id
        /\ history[j].allowed
        /\ history[j].at <= t /\ t - history[j].at < WindowTicks}}

\* An identifier whose bucket was never evicted gets at most Limit requests in
\* any window, although its bucket is dropped when it idles and its times are
\* pruned whenever it is seen (pruneIdleBuckets, checkAndRecord).
IdentifierQuota ==
    \A id \in Identifiers \ evicted, t \in 0 .. now : Cardinality(Granted(id, t)) <= Limit

\* The type invariant with the quota.
LimiterInv == TypeOK /\ IdentifierQuota

\* An identifier is rejected only for what it was granted itself: others never
\* eat its quota, and being rejected does not prolong the wait (buckets).
RejectedForCause ==
    \A i \in DOMAIN history :
       ~history[i].allowed =>
          Cardinality({s \in Granted(history[i].id, history[i].at) : s.nr < i}) >= Limit

\* An identifier that waits as long as X-FreeLLM-Identifier-Reset says, and sent
\* nothing else meanwhile, is let through (resetAfterMs).
ResetIsHonest ==
    \A i, j \in DOMAIN history :
       /\ i < j
       /\ history[i].id = history[j].id
       /\ ~history[i].allowed
       /\ history[j].at >= history[i].retryAt
       /\ \A k \in i + 1 .. j - 1 : history[k].id # history[i].id
       => history[j].allowed
=============================================================================
