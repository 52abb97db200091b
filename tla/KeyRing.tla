------------------------------ MODULE KeyRing ------------------------------
(***************************************************************************)
(* The API keys of one provider as BaseProvider sees them                  *)
(* (gateway/providers/base.ts): a limiter per key and a rotation index,    *)
(* as operators on the function of limiters.                               *)
(***************************************************************************)
EXTENDS RateLimiter

CONSTANT KeyCount   \* getApiKeys().length

ASSUME KeyAssumption == KeyCount \in Nat \ {0}

Keys == 0 .. KeyCount - 1

FreeKeys(ring, t) == {k \in Keys : ~IsRateLimited(ring[k], t)}

\* (idx + 1) % keys.length, for an index of a key.
NextKey(k) == IF k + 1 = KeyCount THEN 0 ELSE k + 1

\* How many keys pickKey() looks at before k when the rotation index is rot.
Distance(rot, k) == IF k >= rot THEN k - rot ELSE k - rot + KeyCount

\* Mutant: always searches from the first key.
PickFirst(ring, rot, t, k) ==
    /\ k \in FreeKeys(ring, t)
    /\ \A j \in FreeKeys(ring, t) : k <= j

\* pickKey() returns k: the first usable key in rotation order.
PickKey(ring, rot, t, k) ==
    /\ k \in FreeKeys(ring, t)
    /\ \A j \in FreeKeys(ring, t) : Distance(rot, k) <= Distance(rot, j)

\* The ring after isRateLimited() was called on the keys in S.
Scan(ring, S, t) ==
    [k \in Keys |-> IF k \in S THEN Checked(ring[k], t) ELSE ring[k]]

\* isAvailable() looks at the keys in order up to the first usable one.
ScanAvailable(ring, t) ==
    Scan(ring, {k \in Keys : \A j \in FreeKeys(ring, t) : k <= j}, t)

\* pickKey() looks at them in rotation order up to the one it picks.
ScanPick(ring, rot, t) ==
    Scan(ring, {k \in Keys : \A j \in FreeKeys(ring, t) :
                                Distance(rot, k) <= Distance(rot, j)}, t)

\* resetCircuitBreaker() on the ring.
Cleared(ring) == [k \in Keys |-> ClearRateLimit(ring[k])]
=============================================================================
