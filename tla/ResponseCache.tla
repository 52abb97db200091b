--------------------------- MODULE ResponseCache ---------------------------
(***************************************************************************)
(* The response cache (gateway/cache.ts) as operators on the sequence of   *)
(* its entries, in the insertion order of the Map that holds them.  The    *)
(* hash of a request is the request's content itself.                      *)
(***************************************************************************)
EXTENDS JavaScript, SequencesExt

CONSTANTS Ttl,         \* CACHE_TTL_MS, in ticks
          MaxEntries   \* CACHE_MAX_ENTRIES

ASSUME CacheAssumption == Ttl \in Nat /\ MaxEntries \in Nat \ {0}

Stored(cache) == {cache[i].key : i \in DOMAIN cache}

\* A Map holds a key once.
PlaceOf(cache, key) == CHOOSE i \in DOMAIN cache : cache[i].key = key

Entry(cache, key) == cache[PlaceOf(cache, key)]

Without(cache, key) ==
    IF key \in Stored(cache) THEN RemoveAt(cache, PlaceOf(cache, key)) ELSE cache

\* Mutant: never expires.
HitForever(cache, key, t) == key \in Stored(cache)

\* get() finds a live entry.
Hit(cache, key, t) == key \in Stored(cache) /\ t <= Entry(cache, key).expiresAt

\* What get() leaves behind: a hit moves to the end, an expired entry goes.
AfterGet(cache, key, t) ==
    IF Hit(cache, key, t) THEN Append(Without(cache, key), Entry(cache, key))
    ELSE Without(cache, key)

\* Mutant: an entry that exists is kept.
KeepsFirst(cache, key, value, t) ==
    LET entry == [key |-> key, value |-> value, expiresAt |-> t + Ttl]
    IN  IF key \in Stored(cache) THEN cache
        ELSE Append(IF Len(cache) >= MaxEntries THEN Tail(cache) ELSE cache, entry)

\* set(): an entry that exists keeps its place in the Map; a new one may push
\* out the first.
AfterSet(cache, key, value, t) ==
    LET entry == [key |-> key, value |-> value, expiresAt |-> t + Ttl]
    IN  IF key \in Stored(cache)
        THEN [i \in DOMAIN cache |-> IF cache[i].key = key THEN entry ELSE cache[i]]
        ELSE Append(IF Len(cache) >= MaxEntries THEN Tail(cache) ELSE cache, entry)
=============================================================================
