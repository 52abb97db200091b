---------------------------- MODULE AccessProofs ----------------------------
(***************************************************************************)
(* Proofs about the limiter per identifier, for any limit, window, ceiling *)
(* of the Map and number of identifiers, and over them about credentials,  *)
(* for any environments, requests, lifetimes and any number of restarts.   *)
(***************************************************************************)
EXTENDS Access, SequenceTheorems, FiniteSetTheorems, TLAPS

(* The limiter by itself.                                                  *)

\* Requests of the past, each bucket seen last when its identifier came last.
PastRequests ==
    /\ \A j \in DOMAIN history : history[j].at <= now
    /\ \A id \in Tracked(buckets) :
          /\ buckets[id].seen.nr <= Len(history)
          /\ \A j \in DOMAIN history :
                history[j].id = id => history[j].at <= buckets[id].seen.at

\* What a bucket holds was granted to its identifier, Limit times at most.
OnlyOwnTimes ==
    \A id \in Tracked(buckets) :
       /\ IsFiniteSet(buckets[id].times) /\ Cardinality(buckets[id].times) <= Limit
       /\ \A s \in buckets[id].times :
             /\ s.nr \in DOMAIN history /\ StampOf(s.nr) = s
             /\ history[s.nr].id = id /\ history[s.nr].allowed

\* Nothing an identifier was granted in the current window is forgotten, unless
\* its bucket was evicted.
RemembersWindow ==
    \A id \in Identifiers \ evicted : Granted(id, now) \subseteq TimesOf(buckets, id)

\* The last request of id, if it was rejected.
LastRejected(i, id) ==
    /\ history[i].id = id /\ ~history[i].allowed
    /\ \A k \in DOMAIN history : k > i => history[k].id # id

\* Who was rejected last has a time in its bucket that is out of the window when
\* the promised reset comes.
ResetFreesSlot ==
    \A id \in Tracked(buckets), i \in DOMAIN history :
       LastRejected(i, id) =>
          \E s \in buckets[id].times : s.at + WindowTicks <= history[i].retryAt

\* The inductive invariant
LimiterIInv ==
    /\ TypeOK /\ PastRequests /\ OnlyOwnTimes /\ RemembersWindow /\ ResetFreesSlot
    /\ IdentifierQuota /\ RejectedForCause /\ ResetIsHonest

-----------------------------------------------------------------------------
\* A finite set has an element that is least in any numbering.
LEMMA LeastExists ==
    ASSUME NEW S, IsFiniteSet(S), S # {}, NEW f \in [S -> Nat]
    PROVE  \E s \in S : \A u \in S : f[s] <= f[u]
<1> DEFINE Below(s) == {u \in S : f[u] < f[s]}
           T == {Below(s) : s \in S}
<1>1. IsWellFoundedOn(StrictSubsetOrdering(S), FiniteSubsetsOf(S))
  BY FS_StrictSubsetOrderingWellFounded
<1>2. T \subseteq FiniteSubsetsOf(S) /\ T # {}
  <2>1. FiniteSubsetsOf(S) = SUBSET S
    BY FS_FiniteSubsetsOfFinite
  <2>2. \A x \in T : x \in SUBSET S
    OBVIOUS
  <2>3. PICK s : s \in S
    OBVIOUS
  <2>4. Below(s) \in T
    BY <2>3
  <2> QED
    BY <2>1, <2>2, <2>4
<1>3. \E x \in T : \A y \in T : ~ (<<y, x>> \in StrictSubsetOrdering(S))
  <2> HIDE DEF T
  <2> QED
    BY <1>1, <1>2, WFMin
<1>4. PICK s \in S : \A u \in S : ~ (<<Below(u), Below(s)>> \in StrictSubsetOrdering(S))
  BY <1>3
<1>5. ASSUME NEW u \in S, f[u] < f[s] PROVE FALSE
  <2>1. /\ Below(u) \subseteq Below(s)
        /\ u \in Below(s) /\ u \notin Below(u)
    BY <1>5
  <2>2. <<Below(u), Below(s)>> \in StrictSubsetOrdering(S)
    BY <2>1 DEF StrictSubsetOrdering
  <2> QED
    BY <1>4, <2>2
<1> QED
  BY <1>5

LEMMA OldestFacts ==
    ASSUME NEW times \in SUBSET Stamp, IsFiniteSet(times), times # {}
    PROVE  Oldest(times) \in times
<1> DEFINE f == [s \in times |-> s.at]
<1>1. f \in [times -> Nat]
  BY DEF Stamp
<1>2. PICK s \in times : \A u \in times : f[s] <= f[u]
  <2> HIDE DEF f
  <2> QED
    BY <1>1, LeastExists
<1> QED
  BY <1>2 DEF Oldest

LEMMA HistoryFacts ==
    ASSUME TypeOK
    PROVE  /\ DOMAIN history = 1 .. Len(history) /\ Len(history) \in Nat
           /\ \A j \in DOMAIN history :
                 /\ history[j].id \in Identifiers /\ history[j].at \in Nat
                 /\ history[j].allowed \in BOOLEAN /\ history[j].retryAt \in Int
<1>1. history \in Seq(Request)
  BY DEF TypeOK
<1>2. \A j \in DOMAIN history : history[j] \in Request
  BY <1>1
<1> QED
  BY <1>1, <1>2 DEF Request

LEMMA AddOne ==
    ASSUME NEW S, IsFiniteSet(S), NEW x
    PROVE  /\ IsFiniteSet(S \cup {x}) /\ Cardinality(S \cup {x}) \in Nat
           /\ Cardinality(S \cup {x}) <= Cardinality(S) + 1
<1>1. Cardinality(S) \in Nat
  BY FS_CardinalityType
<1>2. /\ IsFiniteSet(S \cup {x})
      /\ Cardinality(S \cup {x}) = IF x \in S THEN Cardinality(S) ELSE Cardinality(S) + 1
  BY FS_AddElement
<1> QED
  BY <1>1, <1>2

\* Making room takes one bucket at least.
LEMMA RoomFacts ==
    ASSUME NEW D, NEW B \in [D -> Bucket], IsFiniteSet(D), Cardinality(D) <= MaxBuckets, NEW id
    PROVE  LET R == WithRoom(B, id)
           IN  /\ R \in [Tracked(R) -> Bucket] /\ Tracked(R) \subseteq D
               /\ \A i \in Tracked(R) : R[i] = B[i]
               /\ id \in D => R = B
               /\ IsFiniteSet(Tracked(R) \cup {id})
               /\ Cardinality(Tracked(R) \cup {id}) <= MaxBuckets
<1> DEFINE Kept == {i \in D : \E j \in D : B[j].seen.nr < B[i].seen.nr}
           R == WithRoom(B, id)
<1>1. Cardinality(D) \in Nat
  BY FS_CardinalityType
<1>2. CASE id \notin D /\ Cardinality(D) >= MaxBuckets
  <2>1. R = [i \in Kept |-> B[i]]
    BY <1>2 DEF WithRoom, Tracked, Only
  <2>2. D # {}
    BY <1>2, FS_EmptySet, IdentifierAssumption
  <2>3. PICK s \in D : s \notin Kept
    <3> DEFINE f == [i \in D |-> B[i].seen.nr]
    <3>1. f \in [D -> Nat]
      BY DEF Bucket, Stamp
    <3>2. PICK s \in D : \A u \in D : f[s] <= f[u]
      <4> HIDE DEF f
      <4> QED
        BY <2>2, <3>1, LeastExists
    <3>3. \A u \in D : ~(f[u] < f[s])
      BY <3>1, <3>2
    <3> QED
      BY <3>3
  <2>4. IsFiniteSet(D \ {s}) /\ Cardinality(D \ {s}) = Cardinality(D) - 1
    BY <2>3, FS_RemoveElement
  <2>5. /\ IsFiniteSet(Kept) /\ Cardinality(Kept) \in Nat
        /\ Cardinality(Kept) <= Cardinality(D) - 1
    BY <2>3, <2>4, FS_Subset, FS_CardinalityType
  <2>6. /\ IsFiniteSet(Kept \cup {id})
        /\ Cardinality(Kept \cup {id}) <= Cardinality(Kept) + 1
    BY <2>5, AddOne
  <2>7. Tracked(R) = Kept
    BY <2>1 DEF Tracked
  <2>8. Cardinality(Kept \cup {id}) <= MaxBuckets
    BY <1>1, <2>5, <2>6, FS_CardinalityType, IdentifierAssumption
  <2> QED
    BY <1>2, <2>1, <2>6, <2>7, <2>8
<1>3. CASE ~(id \notin D /\ Cardinality(D) >= MaxBuckets)
  <2>1. R = B /\ Tracked(R) = D
    BY <1>3 DEF WithRoom, Tracked
  <2>2. IsFiniteSet(D \cup {id}) /\ Cardinality(D \cup {id}) <= MaxBuckets
    BY <1>1, <1>3, FS_AddElement, IdentifierAssumption
  <2> QED
    BY <2>1, <2>2
<1> QED
  BY <1>2, <1>3

\* The buckets and times checkAndRecord() decides by.
Kept == NotIdle(buckets)
Room(id) == WithRoom(Kept, id)
Fresh(id) == FreshTimes(TimesOf(Room(id), id))

LEMMA KeptFacts ==
    ASSUME TypeOK
    PROVE  /\ Kept \in [Tracked(Kept) -> Bucket]
           /\ Tracked(Kept) \subseteq Tracked(buckets)
           /\ \A i \in Tracked(Kept) : Kept[i] = buckets[i]
           /\ \A i \in Tracked(buckets) \ Tracked(Kept) : buckets[i].seen.at < now - 2 * WindowTicks
           /\ IsFiniteSet(Tracked(Kept)) /\ Cardinality(Tracked(Kept)) <= MaxBuckets
<1> DEFINE D == {i \in Tracked(buckets) : buckets[i].seen.at >= now - 2 * WindowTicks}
<1>1. Kept = [i \in D |-> buckets[i]] /\ Tracked(Kept) = D
  BY DEF Kept, NotIdle, Only, Tracked
<1>2. IsFiniteSet(D) /\ Cardinality(D) <= Cardinality(Tracked(buckets)) /\ Cardinality(D) \in Nat
  BY FS_Subset, FS_CardinalityType DEF TypeOK
<1>3. Cardinality(D) <= MaxBuckets
  BY <1>2, FS_CardinalityType, IdentifierAssumption DEF TypeOK
<1>4. D \subseteq Tracked(buckets)
  OBVIOUS
<1>5. [i \in D |-> buckets[i]] \in [D -> Bucket]
  BY <1>4 DEF TypeOK
<1>6. \A i \in Tracked(buckets) \ D : buckets[i].seen.at < now - 2 * WindowTicks
  BY IdentifierAssumption DEF TypeOK, Bucket, Stamp
<1> QED
  BY <1>1, <1>2, <1>3, <1>4, <1>5, <1>6

\* The room is made of old buckets; the identifier's own is in it if it was kept.
LEMMA RoomIsOld ==
    ASSUME TypeOK, NEW id \in Identifiers
    PROVE  /\ Room(id) \in [Tracked(Room(id)) -> Bucket]
           /\ Tracked(Room(id)) \subseteq Tracked(Kept)
           /\ \A i \in Tracked(Room(id)) : i \in Tracked(buckets) /\ Room(id)[i] = buckets[i]
           /\ id \in Tracked(Kept) => Room(id) = Kept
           /\ IsFiniteSet(Tracked(Room(id)) \cup {id})
           /\ Cardinality(Tracked(Room(id)) \cup {id}) <= MaxBuckets
<1> HIDE DEF Kept
<1>1. LET R == WithRoom(Kept, id)
      IN  /\ R \in [Tracked(R) -> Bucket] /\ Tracked(R) \subseteq Tracked(Kept)
          /\ \A i \in Tracked(R) : R[i] = Kept[i]
          /\ id \in Tracked(Kept) => R = Kept
          /\ IsFiniteSet(Tracked(R) \cup {id})
          /\ Cardinality(Tracked(R) \cup {id}) <= MaxBuckets
  BY KeptFacts, RoomFacts
<1> QED
  BY <1>1, KeptFacts DEF Room

\* What is counted against the limit is what the identifier was granted in the
\* window, all of it unless its bucket was evicted.
LEMMA FreshFacts ==
    ASSUME TypeOK, PastRequests, OnlyOwnTimes, RemembersWindow, NEW id \in Identifiers
    PROVE  /\ Fresh(id) \in SUBSET Stamp
           /\ IsFiniteSet(Fresh(id)) /\ Cardinality(Fresh(id)) <= Limit
           /\ Cardinality(Fresh(id)) \in Nat
           /\ Fresh(id) \subseteq Granted(id, now)
           /\ id \notin evicted => Fresh(id) = Granted(id, now)
           /\ \A s \in Fresh(id) : s.nr \in DOMAIN history /\ StampOf(s.nr) = s
                                  /\ history[s.nr].id = id /\ history[s.nr].allowed
           /\ \A s \in Fresh(id) : s.at > now - WindowTicks
           /\ Fresh(id) # {} => id \in Tracked(buckets) /\ Fresh(id) \subseteq buckets[id].times
<1> DEFINE T == TimesOf(Room(id), id)
<1>1. /\ Fresh(id) = {s \in T : s.at > now - WindowTicks}
      /\ Fresh(id) \subseteq T
  BY DEF Fresh, FreshTimes
<1>2. T # {} => id \in Tracked(buckets) /\ T = buckets[id].times
  BY RoomIsOld DEF TimesOf
<1>3. /\ T \in SUBSET Stamp /\ IsFiniteSet(T) /\ Cardinality(T) <= Limit
  <2>1. CASE T = {}
    BY <2>1, FS_EmptySet, IdentifierAssumption
  <2>2. CASE T # {}
    BY <2>2, <1>2 DEF OnlyOwnTimes, TypeOK, Bucket
  <2> QED
    BY <2>1, <2>2
<1>4. /\ IsFiniteSet(Fresh(id)) /\ Cardinality(Fresh(id)) \in Nat
      /\ Cardinality(Fresh(id)) <= Cardinality(T)
  BY <1>1, <1>3, FS_Subset, FS_CardinalityType
<1>5. Cardinality(T) \in Nat
  BY <1>3, FS_CardinalityType
<1>6. \A s \in Fresh(id) : /\ s.nr \in DOMAIN history /\ StampOf(s.nr) = s
                           /\ history[s.nr].id = id /\ history[s.nr].allowed
  BY <1>1, <1>2 DEF OnlyOwnTimes
<1>7. Fresh(id) \subseteq Granted(id, now)
  <2> SUFFICES ASSUME NEW s \in Fresh(id) PROVE s \in Granted(id, now)
    OBVIOUS
  <2>1. s.at > now - WindowTicks /\ s.at \in Nat /\ s.nr \in DOMAIN history
    BY <1>1, <1>3, <1>6 DEF Stamp
  <2>2. history[s.nr].at = s.at
    BY <1>6 DEF StampOf
  <2>3. history[s.nr].at <= now /\ now - history[s.nr].at < WindowTicks
    BY <2>1, <2>2, IdentifierAssumption DEF PastRequests, TypeOK
  <2>4. StampOf(s.nr) \in Granted(id, now)
    BY <1>6, <2>3 DEF Granted
  <2> QED
    BY <1>6, <2>4
<1>8. ASSUME id \notin evicted PROVE Granted(id, now) \subseteq Fresh(id)
  <2> SUFFICES ASSUME NEW j \in DOMAIN history, history[j].id = id, history[j].allowed,
                      history[j].at <= now, now - history[j].at < WindowTicks
               PROVE  StampOf(j) \in Fresh(id)
    BY DEF Granted
  <2>1. StampOf(j) \in Granted(id, now)
    BY DEF Granted
  <2>2. StampOf(j) \in TimesOf(buckets, id)
    BY <1>8, <2>1 DEF RemembersWindow
  <2>3. id \in Tracked(buckets) /\ StampOf(j) \in buckets[id].times
    BY <2>2 DEF TimesOf
  <2>4. history[j].at <= buckets[id].seen.at
    BY <2>3 DEF PastRequests
  <2>5. history[j].at \in Nat /\ StampOf(j).at = history[j].at
    BY HistoryFacts DEF StampOf
  <2>6. buckets[id].seen.at \in Nat
    BY <2>3 DEF TypeOK, Bucket, Stamp
  <2>7. id \in Tracked(Kept)
    BY <2>3, <2>4, <2>5, <2>6, KeptFacts, IdentifierAssumption DEF TypeOK
  <2>8. T = buckets[id].times
    BY <2>7, RoomIsOld, KeptFacts DEF TimesOf
  <2> QED
    BY <1>1, <2>3, <2>5, <2>8, IdentifierAssumption DEF TypeOK
<1> QED
  BY <1>1, <1>2, <1>3, <1>4, <1>5, <1>6, <1>7, <1>8, IdentifierAssumption

\* What checkAndRecord() did: its bucket, the answer and the record of it.
LEMMA CheckFacts ==
    ASSUME TypeOK, PastRequests, OnlyOwnTimes, RemembersWindow,
           NEW id \in Identifiers, CheckAndRecord(id)
    PROVE  \E allowed \in BOOLEAN, retryAt \in Int :
             LET n     == Len(history) + 1
                 stamp == [at |-> now, nr |-> n]
                 times == IF allowed THEN Fresh(id) \cup {stamp} ELSE Fresh(id)
             IN  /\ allowed <=> Cardinality(Fresh(id)) < Limit
                 /\ ~allowed => \E s \in Fresh(id) : s.at + WindowTicks <= retryAt
                 /\ buckets' = Bumped(Room(id), id, times, stamp)
                 /\ history' = Append(history, [id |-> id, at |-> now, allowed |-> allowed,
                                               retryAt |-> retryAt])
                 /\ evicted' = evicted \cup (Tracked(Kept) \ Tracked(Room(id)))
                 /\ now' = now
<1>1. /\ Cardinality(Fresh(id)) \in Nat /\ Fresh(id) \in SUBSET Stamp
      /\ IsFiniteSet(Fresh(id))
  BY FreshFacts
<1>2. CASE Cardinality(Fresh(id)) >= Limit
  <2>1. Fresh(id) # {}
    BY <1>2, FS_EmptySet, IdentifierAssumption
  <2>2. Oldest(Fresh(id)) \in Fresh(id)
    BY <1>1, <2>1, OldestFacts
  <2> DEFINE retryAt == now + ResetAfter(Fresh(id))
  <2>3. retryAt \in Int /\ Oldest(Fresh(id)).at + WindowTicks <= retryAt
    BY <1>1, <2>2, IdentifierAssumption DEF ResetAfter, TypeOK, Stamp
  <2>4. /\ buckets' = Bumped(Room(id), id, Fresh(id), [at |-> now, nr |-> Len(history) + 1])
        /\ history' = Append(history, [id |-> id, at |-> now, allowed |-> FALSE,
                                      retryAt |-> retryAt])
        /\ evicted' = evicted \cup (Tracked(Kept) \ Tracked(Room(id)))
        /\ now' = now
    BY <1>1, <1>2, IdentifierAssumption DEF CheckAndRecord, Fresh, Room, Kept
  <2>5. ~(Cardinality(Fresh(id)) < Limit)
    BY <1>1, <1>2, IdentifierAssumption
  <2> QED
    BY <2>2, <2>3, <2>4, <2>5
<1>3. CASE Cardinality(Fresh(id)) < Limit
  <2>1. now + WindowTicks \in Int
    BY IdentifierAssumption DEF TypeOK
  <2>2. /\ buckets' = Bumped(Room(id), id, Fresh(id) \cup {[at |-> now, nr |-> Len(history) + 1]},
                            [at |-> now, nr |-> Len(history) + 1])
        /\ history' = Append(history, [id |-> id, at |-> now, allowed |-> TRUE,
                                      retryAt |-> now + WindowTicks])
        /\ evicted' = evicted \cup (Tracked(Kept) \ Tracked(Room(id)))
        /\ now' = now
    BY <1>1, <1>3, IdentifierAssumption DEF CheckAndRecord, Fresh, Room, Kept
  <2> QED
    BY <1>3, <2>1, <2>2
<1>4. Cardinality(Fresh(id)) >= Limit \/ Cardinality(Fresh(id)) < Limit
  BY <1>1, IdentifierAssumption
<1> QED
  BY <1>2, <1>3, <1>4

LEMMA GrantedFinite ==
    ASSUME TypeOK, NEW id, NEW t
    PROVE  IsFiniteSet(Granted(id, t))
<1> DEFINE J == {j \in DOMAIN history : /\ history[j].id = id
                                        /\ history[j].allowed
                                        /\ history[j].at <= t /\ t - history[j].at < WindowTicks}
           f == [j \in J |-> StampOf(j)]
<1>1. IsFiniteSet(DOMAIN history)
  BY HistoryFacts, FS_Interval
<1>2. IsFiniteSet(J)
  BY <1>1, FS_Subset
<1>3. f \in Surjection(J, Granted(id, t))
  BY DEF Surjection, Granted
<1> QED
  BY <1>2, <1>3, FS_Surjection

\* The step of the invariant, also for a module that composes the limiter.
LEMMA CheckKeepsInv ==
    ASSUME LimiterIInv, NEW id \in Identifiers, CheckAndRecord(id)
    PROVE  LimiterIInv'
<1> USE IdentifierAssumption DEF LimiterIInv
<1>1. PICK n, stamp : n = Len(history) + 1 /\ stamp = [at |-> now, nr |-> n]
  OBVIOUS
<1>2. PICK allowed \in BOOLEAN, retryAt \in Int :
        LET times == IF allowed THEN Fresh(id) \cup {stamp} ELSE Fresh(id)
        IN  /\ allowed <=> Cardinality(Fresh(id)) < Limit
            /\ ~allowed => \E s \in Fresh(id) : s.at + WindowTicks <= retryAt
            /\ buckets' = Bumped(Room(id), id, times, stamp)
            /\ history' = Append(history, [id |-> id, at |-> now, allowed |-> allowed,
                                          retryAt |-> retryAt])
            /\ evicted' = evicted \cup (Tracked(Kept) \ Tracked(Room(id)))
            /\ now' = now
  BY <1>1, CheckFacts
<1> DEFINE times == IF allowed THEN Fresh(id) \cup {stamp} ELSE Fresh(id)
           entry == [id |-> id, at |-> now, allowed |-> allowed, retryAt |-> retryAt]
<1>3. /\ history' \in Seq(Request)
      /\ Len(history) \in Nat /\ DOMAIN history = 1 .. Len(history)
      /\ DOMAIN history' = 1 .. n /\ Len(history') = n
      /\ \A j \in DOMAIN history : j \in DOMAIN history' /\ j < n /\ history'[j] = history[j]
      /\ \A j \in DOMAIN history' : j \in DOMAIN history \/ j = n
      /\ history'[n] = entry /\ n \in DOMAIN history' /\ n \notin DOMAIN history
  <2>1. entry \in Request /\ history \in Seq(Request)
    BY <1>2 DEF Request, TypeOK
  <2>2. history' = Append(history, entry)
    BY <1>2
  <2> HIDE DEF entry
  <2> QED
    BY <1>1, <2>1, <2>2
<1>4. /\ \A j \in DOMAIN history : StampOf(j)' = StampOf(j)
      /\ StampOf(n)' = stamp
  BY <1>1, <1>3 DEF StampOf
<1>5. /\ Tracked(buckets)' = Tracked(Room(id)) \cup {id}
      /\ buckets'[id] = [times |-> times, seen |-> stamp]
      /\ \A i \in Tracked(Room(id)) \ {id} : i \in Tracked(buckets) /\ buckets'[i] = buckets[i]
  <2>1. buckets' = [i \in Tracked(Room(id)) \cup {id} |->
                     IF i = id THEN [times |-> times, seen |-> stamp] ELSE Room(id)[i]]
    BY <1>2 DEF Bumped
  <2> QED
    BY <2>1, RoomIsOld DEF Tracked
<1>6. /\ times \in SUBSET Stamp /\ stamp \in Stamp
      /\ IsFiniteSet(times) /\ Cardinality(times) <= Limit
  <2>1. stamp \in Stamp
    BY <1>1, <1>3 DEF Stamp, TypeOK
  <2>2. CASE allowed
    <3>1. /\ IsFiniteSet(Fresh(id) \cup {stamp})
          /\ Cardinality(Fresh(id) \cup {stamp}) <= Cardinality(Fresh(id)) + 1
          /\ Cardinality(Fresh(id) \cup {stamp}) \in Nat
      BY FreshFacts, AddOne
    <3>2. Cardinality(Fresh(id) \cup {stamp}) <= Limit
      BY <1>2, <2>2, <3>1, FreshFacts
    <3> QED
      BY <2>1, <2>2, <3>1, <3>2, FreshFacts
  <2>3. CASE ~allowed
    BY <2>1, <2>3, FreshFacts
  <2> QED
    BY <2>2, <2>3
<1>7. TypeOK'
  <2>1. now' \in Nat /\ evicted' \subseteq Identifiers /\ history' \in Seq(Request)
    BY <1>2, <1>3, KeptFacts DEF TypeOK
  <2>2. Tracked(buckets)' \subseteq Identifiers
    BY <1>5, RoomIsOld DEF TypeOK
  <2>3. buckets' \in [Tracked(buckets)' -> Bucket]
    <3>1. \A i \in Tracked(buckets)' : buckets'[i] \in Bucket
      BY <1>5, <1>6 DEF TypeOK, Bucket
    <3>2. buckets' = [i \in Tracked(buckets)' |-> buckets'[i]]
      BY <1>2 DEF Bumped, Tracked
    <3> QED
      BY <3>1, <3>2
  <2>4. IsFiniteSet(Tracked(buckets)') /\ Cardinality(Tracked(buckets)') <= MaxBuckets
    BY <1>5, RoomIsOld
  <2>5. \A i, j \in Tracked(buckets)' : i # j => buckets'[i].seen.nr # buckets'[j].seen.nr
    <3>1. \A i \in Tracked(Room(id)) \ {id} : buckets'[i].seen.nr < n
      BY <1>1, <1>3, <1>5 DEF PastRequests, TypeOK, Bucket, Stamp
    <3>2. buckets'[id].seen.nr = n
      BY <1>1, <1>5
    <3>3. \A i, j \in Tracked(Room(id)) \ {id} :
             i # j => buckets'[i].seen.nr # buckets'[j].seen.nr
      BY <1>5 DEF TypeOK
    <3>4. \A i \in Tracked(buckets)' : i = id \/ i \in Tracked(Room(id)) \ {id}
      BY <1>5
    <3>5. \A i \in Tracked(Room(id)) \ {id} : buckets'[i].seen.nr # n
      BY <3>1, <1>3, <1>5 DEF TypeOK, Bucket, Stamp
    <3> QED
      BY <3>2, <3>3, <3>4, <3>5
  <2> QED
    BY <2>1, <2>2, <2>3, <2>4, <2>5 DEF TypeOK
<1>8. PastRequests'
  <2>1. \A j \in DOMAIN history' : history'[j].at <= now'
    BY <1>2, <1>3 DEF PastRequests, TypeOK
  <2>2. ASSUME NEW o \in Tracked(buckets)'
        PROVE  /\ buckets'[o].seen.nr <= Len(history')
               /\ \A j \in DOMAIN history' :
                     history'[j].id = o => history'[j].at <= buckets'[o].seen.at
    <3>1. CASE o = id
      <4>1. buckets'[o].seen = stamp
        BY <1>5, <3>1
      <4> QED
        <5>1. stamp.nr = n /\ stamp.at = now' /\ Len(history') = n /\ n \in Nat
          BY <1>1, <1>2, <1>3
        <5> QED
          BY <2>1, <4>1, <5>1
    <3>2. CASE o # id
      <4>1. o \in Tracked(buckets) /\ buckets'[o] = buckets[o]
        BY <1>5, <3>2
      <4>2. buckets[o].seen.nr <= Len(history) /\ buckets[o].seen.nr \in Nat
        BY <4>1 DEF PastRequests, TypeOK, Bucket, Stamp
      <4> QED
        BY <1>3, <3>2, <4>1, <4>2 DEF PastRequests
    <3> QED
      BY <3>1, <3>2
  <2> QED
    BY <2>1, <2>2 DEF PastRequests
<1>9. OnlyOwnTimes'
  <2> SUFFICES ASSUME NEW o \in Tracked(buckets)'
               PROVE  /\ IsFiniteSet(buckets'[o].times) /\ Cardinality(buckets'[o].times) <= Limit
                      /\ \A s \in buckets'[o].times :
                            /\ s.nr \in DOMAIN history' /\ StampOf(s.nr)' = s
                            /\ history'[s.nr].id = o /\ history'[s.nr].allowed
    BY DEF OnlyOwnTimes
  <2>1. CASE o = id
    <3>1. \A s \in Fresh(id) : /\ s.nr \in DOMAIN history' /\ StampOf(s.nr)' = s
                              /\ history'[s.nr].id = id /\ history'[s.nr].allowed
      BY <1>3, <1>4, FreshFacts
    <3>2. allowed => /\ stamp.nr \in DOMAIN history' /\ StampOf(stamp.nr)' = stamp
                     /\ history'[stamp.nr].id = id /\ history'[stamp.nr].allowed
      BY <1>1, <1>3, <1>4
    <3>3. buckets'[o].times = times
      BY <1>5, <2>1
    <3>4. \A s \in times : s \in Fresh(id) \/ (allowed /\ s = stamp)
      OBVIOUS
    <3> HIDE DEF times
    <3> QED
      BY <1>6, <2>1, <3>1, <3>2, <3>3, <3>4
  <2>2. CASE o # id
    BY <1>3, <1>4, <1>5, <2>2 DEF OnlyOwnTimes
  <2> QED
    BY <2>1, <2>2
<1>10. ASSUME NEW o, NEW t \in 0 .. now
      PROVE  Granted(o, t)' = IF o = id /\ allowed /\ t = now THEN Granted(o, t) \cup {stamp}
                              ELSE Granted(o, t)
  <2> DEFINE In(h) == h.id = o /\ h.allowed /\ h.at <= t /\ t - h.at < WindowTicks
  <2>1. Granted(o, t) = {StampOf(j) : j \in {j \in DOMAIN history : In(history[j])}}
    BY DEF Granted
  <2>2. Granted(o, t)' = {StampOf(j)' : j \in {j \in DOMAIN history' : In(history'[j])}}
    BY DEF Granted
  <2>3. In(history'[n]) <=> o = id /\ allowed /\ t = now
    BY <1>3 DEF TypeOK
  <2>4. {j \in DOMAIN history' : In(history'[j])} =
          {j \in DOMAIN history : In(history[j])} \cup (IF In(history'[n]) THEN {n} ELSE {})
    <3> HIDE DEF In
    <3> QED
      BY <1>3
  <2>5. {StampOf(j)' : j \in {j \in DOMAIN history : In(history[j])}} = Granted(o, t)
    <3> HIDE DEF In
    <3> QED
      BY <1>4, <2>1
  <2> HIDE DEF In
  <2> QED
    BY <1>4, <2>2, <2>3, <2>4, <2>5
<1>11. RemembersWindow'
  <2> SUFFICES ASSUME NEW o \in Identifiers \ evicted'
               PROVE  Granted(o, now)' \subseteq TimesOf(buckets, o)'
    BY DEF RemembersWindow
  <2>1. now \in 0 .. now /\ now' = now /\ o \in Identifiers \ evicted
    BY <1>2 DEF TypeOK
  <2>2. CASE o = id
    <3>1. Granted(id, now) = Fresh(id)
      BY <2>1, <2>2, FreshFacts
    <3>2. TimesOf(buckets, id)' = times
      BY <1>5 DEF TimesOf
    <3>3. Granted(id, now)' = times
      BY <1>10, <2>1, <3>1
    <3> QED
      BY <2>2, <3>2, <3>3
  <2>3. CASE o # id
    <3>1. Granted(o, now)' = Granted(o, now) /\ Granted(o, now) \subseteq TimesOf(buckets, o)
      BY <1>10, <2>1, <2>3 DEF RemembersWindow
    <3>2. CASE o \in Tracked(Room(id))
      BY <1>5, <2>3, <3>1, <3>2 DEF TimesOf
    <3>3. CASE o \notin Tracked(Room(id))
      <4>1. o \notin Tracked(Kept)
        BY <1>2, <3>3
      <4>2. ASSUME NEW s \in Granted(o, now) PROVE FALSE
        <5>1. PICK j \in DOMAIN history : /\ history[j].id = o /\ s = StampOf(j)
                                          /\ now - history[j].at < WindowTicks
          BY <4>2 DEF Granted
        <5>2. o \in Tracked(buckets)
          BY <3>1, <4>2 DEF TimesOf
        <5>3. /\ history[j].at <= buckets[o].seen.at
              /\ buckets[o].seen.at < now - 2 * WindowTicks
              /\ buckets[o].seen.at \in Nat /\ history[j].at \in Nat
          BY <4>1, <5>1, <5>2, KeptFacts, HistoryFacts DEF PastRequests, TypeOK, Bucket, Stamp
        <5> QED
          BY <5>1, <5>3 DEF TypeOK
      <4> QED
        BY <3>1, <4>2
    <3> QED
      BY <3>2, <3>3
  <2> QED
    BY <2>2, <2>3
<1>12. IdentifierQuota'
  <2> SUFFICES ASSUME NEW o \in Identifiers \ evicted', NEW t \in 0 .. now
               PROVE  Cardinality(Granted(o, t)') <= Limit
    BY <1>2 DEF IdentifierQuota
  <2>1. o \in Identifiers \ evicted
    BY <1>2
  <2>2. CASE o = id /\ allowed /\ t = now
    <3>1. Granted(o, t)' = times
      BY <1>10, <2>1, <2>2, FreshFacts
    <3> QED
      BY <1>6, <3>1
  <2>3. CASE ~(o = id /\ allowed /\ t = now)
    BY <1>10, <2>1, <2>3 DEF IdentifierQuota
  <2> QED
    BY <2>2, <2>3
<1>13. RejectedForCause'
  <2> SUFFICES ASSUME NEW i \in DOMAIN history', ~history'[i].allowed
               PROVE  Cardinality({s \in Granted(history[i].id, history[i].at)' : s.nr < i}) >= Limit
    BY DEF RejectedForCause
  <2>1. CASE i = n
    <3>1. /\ history'[i].id = id /\ history'[i].at = now /\ ~allowed
          /\ now \in 0 .. now /\ now' = now
      BY <1>2, <1>3, <2>1 DEF TypeOK
    <3>2. Granted(id, now)' = Granted(id, now)
      BY <1>10, <3>1
    <3> DEFINE Before == {s \in Granted(id, now) : s.nr < n}
    <3>3. Fresh(id) \subseteq Before
      BY <1>3, HistoryFacts, FreshFacts
    <3>4. IsFiniteSet(Before)
      BY GrantedFinite, FS_Subset
    <3>5. /\ Cardinality(Fresh(id)) <= Cardinality(Before)
          /\ Cardinality(Before) \in Nat /\ Cardinality(Fresh(id)) \in Nat
      <4> HIDE DEF Before
      <4> QED
        BY <3>3, <3>4, FS_Subset, FS_CardinalityType
    <3>6. Cardinality(Before) >= Limit
      <4> HIDE DEF Before
      <4> QED
        BY <1>2, <3>1, <3>5
    <3>7. {s \in Granted(history[i].id, history[i].at)' : s.nr < i} = Before
      BY <2>1, <3>1, <3>2
    <3> QED
      BY <3>6, <3>7
  <2>2. CASE i \in DOMAIN history
    <3>1. history'[i] = history[i] /\ i < n /\ history[i].at \in 0 .. now /\ i \in Nat
      BY <1>3, <2>2, HistoryFacts DEF PastRequests, TypeOK
    <3> DEFINE G == Granted(history[i].id, history[i].at)
    <3>2. Granted(history[i].id, history[i].at)' \in {G, G \cup {stamp}}
      BY <1>10, <3>1
    <3>3. ~(stamp.nr < i)
      BY <1>1, <1>3, <3>1
    <3>4. {s \in Granted(history[i].id, history[i].at)' : s.nr < i} = {s \in G : s.nr < i}
      <4> HIDE DEF G
      <4> QED
        BY <3>1, <3>2, <3>3
    <3> QED
      BY <2>2, <3>1, <3>4 DEF RejectedForCause
  <2> QED
    BY <1>3, <2>1, <2>2
<1>14. ResetFreesSlot'
  <2> SUFFICES ASSUME NEW o \in Tracked(buckets)', NEW i \in DOMAIN history', LastRejected(i, o)'
               PROVE  \E s \in buckets'[o].times : s.at + WindowTicks <= history'[i].retryAt
    BY DEF ResetFreesSlot
  <2>1. CASE o = id
    <3>1. i = n
      BY <1>3, <2>1 DEF LastRejected
    <3>2. ~allowed
      BY <1>3, <3>1 DEF LastRejected
    <3> QED
      BY <1>2, <1>3, <1>5, <2>1, <3>1, <3>2
  <2>2. CASE o # id
    <3>1. i \in DOMAIN history
      BY <1>3, <2>2 DEF LastRejected
    <3>2. LastRejected(i, o)
      BY <1>3, <3>1 DEF LastRejected
    <3>3. o \in Tracked(buckets) /\ buckets'[o] = buckets[o] /\ history'[i] = history[i]
      BY <1>3, <1>5, <2>2, <3>1
    <3> QED
      BY <3>1, <3>2, <3>3 DEF ResetFreesSlot
  <2> QED
    BY <2>1, <2>2
<1>15. ResetIsHonest'
  <2> SUFFICES ASSUME NEW i \in DOMAIN history', NEW j \in DOMAIN history',
                      i < j, history'[i].id = history'[j].id, ~history'[i].allowed,
                      history'[j].at >= history'[i].retryAt,
                      \A k \in i + 1 .. j - 1 : history'[k].id # history'[i].id
               PROVE  history'[j].allowed
    BY DEF ResetIsHonest
  <2>1. CASE j = n
    <3>1. i \in DOMAIN history /\ history'[i] = history[i] /\ history[i].id = id
          /\ history[i].retryAt <= now /\ ~history[i].allowed
      BY <1>3, <2>1
    <3>2. LastRejected(i, id)
      <4>1. \A k \in DOMAIN history : k > i => k \in i + 1 .. j - 1 /\ history'[k] = history[k]
        BY <1>3, <2>1
      <4> QED
        BY <3>1, <4>1 DEF LastRejected
    <3>3. CASE Fresh(id) = {}
      BY <1>2, <1>3, <2>1, <3>3, FS_EmptySet
    <3>4. CASE Fresh(id) # {}
      <4>1. id \in Tracked(buckets) /\ Fresh(id) \subseteq buckets[id].times
        BY <3>4, FreshFacts
      <4>2. PICK s \in buckets[id].times : s.at + WindowTicks <= history[i].retryAt
        BY <3>1, <3>2, <4>1 DEF ResetFreesSlot
      <4>3. s.at \in Nat /\ history[i].retryAt \in Int
        BY <3>1, <4>1, HistoryFacts DEF TypeOK, Bucket, Stamp
      <4>4. ~(s.at > now - WindowTicks)
        BY <3>1, <4>2, <4>3 DEF TypeOK
      <4>5. s \notin Fresh(id)
        BY <4>4, FreshFacts
      <4> DEFINE B == buckets[id].times
      <4>6. Fresh(id) \subseteq B \ {s} /\ s \in B
        BY <4>1, <4>5
      <4>7. IsFiniteSet(B) /\ Cardinality(B) <= Limit /\ Cardinality(B) \in Nat
        BY <4>1, FS_CardinalityType DEF OnlyOwnTimes
      <4> HIDE DEF B
      <4>8. IsFiniteSet(B \ {s}) /\ Cardinality(B \ {s}) = Cardinality(B) - 1
        BY <4>6, <4>7, FS_RemoveElement
      <4>9. Cardinality(Fresh(id)) <= Cardinality(B \ {s})
        BY <4>6, <4>8, FS_Subset
      <4>10. Cardinality(Fresh(id)) < Limit
        BY <4>7, <4>8, <4>9, FreshFacts
      <4> QED
        BY <1>2, <1>3, <2>1, <4>10
    <3> QED
      BY <3>3, <3>4
  <2>2. CASE j # n
    <3>1. j \in DOMAIN history /\ i \in DOMAIN history
      BY <1>3, <2>2
    <3>2. \A k \in i + 1 .. j - 1 : k \in DOMAIN history
      BY <1>3, <3>1
    <3> QED
      BY <1>3, <3>1, <3>2 DEF ResetIsHonest
  <2> QED
    BY <2>1, <2>2
<1> QED
  BY <1>7, <1>8, <1>9, <1>11, <1>12, <1>13, <1>14, <1>15

LEMMA LimiterInit == Init => LimiterIInv
<1> SUFFICES ASSUME Init PROVE LimiterIInv
  OBVIOUS
<1>1. /\ now = 0 /\ Tracked(buckets) = {} /\ history = <<>> /\ DOMAIN history = {} /\ evicted = {}
  BY DEF Init, Tracked, NoBuckets
<1>2. IsFiniteSet({}) /\ Cardinality({}) = 0
  BY FS_EmptySet
<1>3. \A id, t : Granted(id, t) = {}
  BY <1>1 DEF Granted
<1>4. buckets \in [{} -> Bucket]
  BY DEF Init, NoBuckets
<1>5. TypeOK
  BY <1>1, <1>2, <1>4, IdentifierAssumption DEF TypeOK
<1>6. IdentifierQuota
  BY <1>2, <1>3, IdentifierAssumption DEF IdentifierQuota
<1> QED
  BY <1>1, <1>3, <1>5, <1>6 DEF LimiterIInv, PastRequests, OnlyOwnTimes, RemembersWindow,
     ResetFreesSlot, RejectedForCause, ResetIsHonest

LEMMA GrantedWhen ==
    ASSUME NEW id, NEW t, NEW s \in Granted(id, t)
    PROVE  \E j \in DOMAIN history : /\ history[j].id = id /\ history[j].allowed
                                     /\ t - history[j].at < WindowTicks
                                     /\ s = StampOf(j)
  BY DEF Granted

\* When time passes windows slide, and lose requests at their far end.
LEMMA TickKeepsInv ==
    ASSUME LimiterIInv, now' = now + 1, UNCHANGED <<buckets, history, evicted>>
    PROVE  LimiterIInv'
<1> USE DEF LimiterIInv
<1>1. TypeOK'
  BY DEF TypeOK
<1>2. PastRequests' /\ OnlyOwnTimes' /\ ResetFreesSlot' /\ ResetIsHonest'
  <2>1. \A j \in DOMAIN history : history'[j].at <= now'
    BY HistoryFacts DEF PastRequests, TypeOK
  <2>2. PastRequests'
    BY <2>1 DEF PastRequests
  <2> QED
    BY <2>2 DEF OnlyOwnTimes, ResetFreesSlot, ResetIsHonest, LastRejected, StampOf
<1>3. \A id, t : Granted(id, t)' = Granted(id, t)
  BY DEF Granted, StampOf
<1>4. RejectedForCause'
  <2>1. \A i \in DOMAIN history :
          Granted(history[i].id, history[i].at)' = Granted(history[i].id, history[i].at)
    BY DEF Granted, StampOf
  <2> QED
    BY <2>1 DEF RejectedForCause
<1>5. ASSUME NEW id PROVE Granted(id, now + 1) \subseteq Granted(id, now)
  <2> SUFFICES ASSUME NEW s \in Granted(id, now + 1) PROVE s \in Granted(id, now)
    OBVIOUS
  <2>1. PICK j \in DOMAIN history : /\ history[j].id = id /\ history[j].allowed
                                    /\ (now + 1) - history[j].at < WindowTicks
                                    /\ s = StampOf(j)
    BY GrantedWhen
  <2>2. history[j].at \in Nat /\ history[j].at <= now
    BY HistoryFacts DEF PastRequests
  <2>3. now - history[j].at < WindowTicks
    BY <2>1, <2>2, IdentifierAssumption DEF TypeOK
  <2> QED
    BY <2>1, <2>2, <2>3 DEF Granted
<1>6. \A id : Granted(id, now)' = Granted(id, now + 1)
  BY DEF Granted, StampOf
<1>7. RemembersWindow'
  BY <1>5, <1>6 DEF RemembersWindow, TimesOf, Tracked
<1>8. IdentifierQuota'
  <2> SUFFICES ASSUME NEW id \in Identifiers \ evicted, NEW t \in 0 .. now + 1
               PROVE  Cardinality(Granted(id, t)) <= Limit
    BY <1>3 DEF IdentifierQuota
  <2>1. CASE t \in 0 .. now
    BY <2>1 DEF IdentifierQuota
  <2>2. CASE t = now + 1
    <3>1. IsFiniteSet(Granted(id, now)) /\ Cardinality(Granted(id, now)) <= Limit
      BY GrantedFinite DEF IdentifierQuota, TypeOK
    <3>2. /\ Cardinality(Granted(id, now + 1)) <= Cardinality(Granted(id, now))
          /\ Cardinality(Granted(id, now)) \in Nat /\ Cardinality(Granted(id, now + 1)) \in Nat
      BY <1>5, <3>1, FS_Subset, FS_CardinalityType
    <3> QED
      BY <2>2, <3>1, <3>2, IdentifierAssumption
  <2> QED
    BY <2>1, <2>2 DEF TypeOK
<1> QED
  BY <1>1, <1>2, <1>4, <1>7, <1>8

LEMMA LimiterSafe == Spec => []LimiterIInv
<1>1. LimiterIInv /\ [Next]_vars => LimiterIInv'
  <2> SUFFICES ASSUME LimiterIInv, [Next]_vars PROVE LimiterIInv'
    OBVIOUS
  <2>1. ASSUME NEW id \in Identifiers, CheckAndRecord(id) PROVE LimiterIInv'
    BY <2>1, CheckKeepsInv
  <2>2. CASE Tick
    BY <2>2, TickKeepsInv DEF Tick
  <2>3. CASE UNCHANGED vars
    BY <2>3 DEF vars, LimiterIInv, TypeOK, PastRequests, OnlyOwnTimes, RemembersWindow,
       ResetFreesSlot, IdentifierQuota, RejectedForCause, ResetIsHonest, LastRejected,
       Granted, StampOf, TimesOf, Tracked
  <2> QED
    BY <2>1, <2>2, <2>3 DEF Next
<1> QED
  BY <1>1, LimiterInit, PTL DEF Spec

\* No identifier that kept its bucket is granted more than its limit in any window,
\* for every limit, window, ceiling and number of identifiers (checkAndRecord).
THEOREM QuotaHolds == Spec => []LimiterInv
  BY LimiterSafe, PTL DEF LimiterIInv, LimiterInv

\* Nobody is rejected for what others were granted, or for having been rejected
\* before, evicted or not (checkAndRecord, pruneIdleBuckets, evictStalest).
THEOREM RejectionsHaveCause == Spec => []RejectedForCause
  BY LimiterSafe, PTL DEF LimiterIInv

\* The reset time of a rejection can be trusted (resetAfterMs).
THEOREM ResetsAreHonest == Spec => []ResetIsHonest
  BY LimiterSafe, PTL DEF LimiterIInv

-----------------------------------------------------------------------------
(* Credentials.                                                            *)

Vouchers == {"open", "session", "master", "admin", "virtual"}

\* Every request in the history has its caller.
CallersMatch ==
    /\ callers \in Seq({callers[i] : i \in DOMAIN callers})
    /\ Len(callers) = Len(history)

\* Every credential at large was handed out by a request that could answer for
\* it, carries that request's virtual key, and expires in time.
HandedOut ==
    /\ \A t \in tokens :
          /\ t.by \in DOMAIN callers
          /\ callers[t.by].by \in Vouchers /\ callers[t.by].done
          /\ t.vk = callers[t.by].vk
          /\ t.identifier \in Identifiers \cup {None, Blank}
          /\ t.exp \in Nat /\ t.exp <= history[t.by].at + MaxTtl
    /\ \A s \in sessions :
          /\ s.by \in DOMAIN callers
          /\ callers[s.by].by = "exempt" /\ callers[s.by].done
          /\ s.exp \in Nat /\ s.exp <= history[s.by].at + SessionLife

\* A request with a token for an identifier was counted in that identifier's bucket,
\* unless its client sent a header.
CountedAsIssued ==
    \A i \in DOMAIN callers :
       (callers[i].by = "token" /\ ~callers[i].own /\ callers[i].cred.identifier \notin {None, Blank})
          => history[i].id = callers[i].cred.identifier

\* The inductive invariant
AccessIInv == LimiterIInv /\ CallersMatch /\ HandedOut /\ FreshlyVouched /\ CountedAsIssued

-----------------------------------------------------------------------------
LEMMA CallersFacts ==
    ASSUME AccessIInv
    PROVE  /\ DOMAIN callers = 1 .. Len(history) /\ DOMAIN history = 1 .. Len(history)
           /\ Len(history) \in Nat /\ now \in Nat
           /\ \A i \in DOMAIN history : history[i].at \in Nat /\ history[i].at <= now
<1>1. TypeOK /\ PastRequests
  BY DEF AccessIInv, LimiterIInv
<1>2. DOMAIN callers = 1 .. Len(callers)
  BY DEF AccessIInv, CallersMatch
<1>3. now \in Nat
  BY <1>1 DEF TypeOK
<1> QED
  BY <1>1, <1>2, <1>3, HistoryFacts DEF AccessIInv, CallersMatch, PastRequests

LEMMA AppendFacts ==
    ASSUME NEW q, q \in Seq({q[i] : i \in DOMAIN q}), NEW x
    PROVE  LET r == Append(q, x)
               n == Len(q) + 1
           IN  /\ Len(r) = n /\ r[n] = x /\ DOMAIN r = 1 .. n
               /\ \A i \in DOMAIN q : r[i] = q[i]
               /\ r \in Seq({r[i] : i \in DOMAIN r})
<1> DEFINE S == {q[i] : i \in DOMAIN q}
           T == S \cup {x}
           r == Append(q, x)
           n == Len(q) + 1
           U == {r[i] : i \in DOMAIN r}
<1>1. q \in Seq(T) /\ x \in T
  OBVIOUS
<1>2. /\ Len(r) = n /\ r[n] = x /\ DOMAIN r = 1 .. n /\ n \in Nat
      /\ \A i \in DOMAIN q : r[i] = q[i]
  <2> HIDE DEF T
  <2> QED
    BY <1>1
<1>3. r \in [1 .. n -> T]
  <2> HIDE DEF T, r, n
  <2>1. r \in Seq(T)
    BY <1>1, AppendProperties DEF r
  <2> QED
    BY <1>2, <2>1, LenProperties
<1>4. \A i \in 1 .. n : r[i] \in U
  BY <1>2
<1>5. r \in Seq(U)
  <2>1. r \in [1 .. n -> U]
    <3> HIDE DEF U, r, n, T
    <3> QED
      BY <1>3, <1>4
  <2> HIDE DEF U, r, n
  <2> QED
    BY <1>2, <2>1, SeqDef
<1> QED
  BY <1>2, <1>5

\* The middleware lets a request in; does says whether its route then goes through.
LetIn(c, by, cred, does) ==
    /\ c \in Calls /\ by \in Authorities /\ does \in BOOLEAN
    /\ by \in {"token", "session"} => cred \in Presented(c)
    /\ Enter(c, by, cred, does)

\* What passing the middleware does, whatever the route then does.
LEMMA EnterFacts ==
    ASSUME AccessIInv, NEW c, NEW by, NEW cred, NEW does, LetIn(c, by, cred, does)
    PROVE  LET n == Len(history) + 1
           IN  /\ LimiterIInv' /\ CallersMatch' /\ FreshlyVouched' /\ CountedAsIssued'
               /\ now' = now /\ Len(callers') = n
               /\ DOMAIN callers' = DOMAIN callers \cup {n} /\ n \notin DOMAIN callers
               /\ Last(callers') = callers'[n]
               /\ \A i \in DOMAIN callers : callers'[i] = callers[i] /\ history'[i] = history[i]
               /\ history'[n].at = now
               /\ callers'[n].by = by /\ callers'[n].vk = VirtualKeyOf(by, cred)
               /\ callers'[n].cred = cred
               /\ callers'[n].done => does
<1> DEFINE n == Len(history) + 1
           id == IdentifierOf(c, by, cred)
           who == [own |-> c.header # None, by |-> by, cred |-> cred,
                   vk |-> VirtualKeyOf(by, cred), done |-> Last(history').allowed /\ does]
<1>1. LimiterIInv /\ CallersMatch /\ HandedOut /\ FreshlyVouched /\ CountedAsIssued
  BY DEF AccessIInv
<1>2. /\ c \in Calls /\ by \in Authorities
      /\ by \in {"token", "session"} => cred \in Presented(c)
      /\ Auth(by, cred, c) /\ CheckAndRecord(id) /\ callers' = Append(callers, who)
  BY DEF LetIn, Enter
<1>3. by = "token" => cred \in tokens /\ VerifyBrowserToken(cred, c.origin)
  BY <1>2 DEF Auth, Presented
<1>4. by = "session" => cred \in sessions /\ VerifySession(cred)
  BY <1>2 DEF Auth, Presented
<1>5. id \in Identifiers
  <2>1. c.header \in Identifiers \cup {None, Blank} /\ c.ip \in Identifiers
    BY <1>2, AccessAssumption
  <2>2. by = "token" => cred.identifier \in Identifiers \cup {None, Blank}
    BY <1>1, <1>3 DEF HandedOut
  <2> QED
    BY <2>1, <2>2 DEF IdentifierOf, Hinted
<1>6. LimiterIInv'
  BY <1>1, <1>2, <1>5, CheckKeepsInv
<1>7. PICK entry : /\ history' = Append(history, entry)
                   /\ entry.at = now /\ entry.id = id
  BY <1>2 DEF CheckAndRecord
<1>8. /\ Len(history') = n /\ history'[n].at = now /\ history'[n].id = id
      /\ \A i \in DOMAIN history : history'[i] = history[i]
  <2>1. history \in Seq(Request)
    BY <1>1 DEF LimiterIInv, TypeOK
  <2> QED
    BY <1>7, <2>1
<1>9. /\ Len(callers') = n /\ callers'[n] = who
      /\ DOMAIN callers' = 1 .. n
      /\ \A i \in DOMAIN callers : callers'[i] = callers[i]
      /\ callers' \in Seq({callers'[i] : i \in DOMAIN callers'})
  <2>1. callers \in Seq({callers[i] : i \in DOMAIN callers}) /\ Len(callers) = Len(history)
    BY <1>1 DEF CallersMatch
  <2> HIDE DEF who
  <2>2. callers' = Append(callers, who)
    BY <1>2
  <2> QED
    BY <2>1, <2>2, AppendFacts
<1>10. CallersMatch'
  BY <1>8, <1>9 DEF CallersMatch
<1>11. FreshlyVouched'
  <2> DEFINE Answers(i, j, authorities, life) ==
                /\ j \in 1 .. i - 1 /\ callers'[j].by \in authorities /\ callers'[j].done
                /\ history'[i].at - history'[j].at < life
  <2> SUFFICES ASSUME NEW i \in DOMAIN callers'
               PROVE  /\ callers'[i].by = "token" =>
                            Answers(i, callers'[i].cred.by, Vouchers, MaxTtl)
                      /\ callers'[i].by = "session" =>
                            Answers(i, callers'[i].cred.by, {"exempt"}, SessionLife)
    BY DEF FreshlyVouched, Vouchers
  <2>1. CASE i = n
    <3>1. callers'[i] = who /\ history'[i].at = now
      BY <1>8, <1>9, <2>1
    <3>2. ASSUME by = "token" PROVE /\ cred.by \in DOMAIN callers /\ cred.by < n
                                    /\ callers[cred.by].by \in Vouchers /\ callers[cred.by].done
                                    /\ now - history[cred.by].at < MaxTtl
      BY <1>1, <1>3, <3>2, CallersFacts, AccessAssumption DEF HandedOut, VerifyBrowserToken
    <3>3. ASSUME by = "session" PROVE /\ cred.by \in DOMAIN callers /\ cred.by < n
                                      /\ callers[cred.by].by = "exempt" /\ callers[cred.by].done
                                      /\ now - history[cred.by].at < SessionLife
      BY <1>1, <1>4, <3>3, CallersFacts, AccessAssumption DEF HandedOut, VerifySession
    <3>4. \A j \in DOMAIN callers : callers'[j] = callers[j] /\ history'[j] = history[j]
      BY <1>8, <1>9, CallersFacts
    <3>5. ASSUME by = "token" PROVE Answers(i, cred.by, Vouchers, MaxTtl)
      BY <2>1, <3>1, <3>2, <3>4, <3>5, CallersFacts
    <3>6. ASSUME by = "session" PROVE Answers(i, cred.by, {"exempt"}, SessionLife)
      BY <2>1, <3>1, <3>3, <3>4, <3>6, CallersFacts
    <3>7. callers'[i].by = by /\ callers'[i].cred = cred
      BY <3>1
    <3> HIDE DEF Answers, who
    <3> QED
      BY <3>5, <3>6, <3>7
  <2>2. CASE i \in DOMAIN callers
    <3>1. callers'[i] = callers[i] /\ history'[i] = history[i]
      BY <1>8, <1>9, <2>2, CallersFacts
    <3>2. \A j \in 1 .. i - 1 : callers'[j] = callers[j] /\ history'[j] = history[j]
      <4>1. \A j \in 1 .. i - 1 : j \in DOMAIN callers /\ j \in DOMAIN history
        BY <2>2, CallersFacts
      <4> QED
        BY <1>8, <1>9, <4>1
    <3> QED
      BY <1>1, <2>2, <3>1, <3>2 DEF FreshlyVouched, Vouchers
  <2> QED
    BY <1>9, <2>1, <2>2, CallersFacts
<1>12. DOMAIN callers' = DOMAIN callers \cup {n} /\ n \notin DOMAIN callers
  BY <1>9, CallersFacts
<1>13. now' = now
  BY <1>2 DEF CheckAndRecord
<1>14. Last(callers') = callers'[n]
  BY <1>9 DEF Last
<1>15. /\ callers'[n].by = by /\ callers'[n].vk = VirtualKeyOf(by, cred)
       /\ callers'[n].cred = cred /\ (callers'[n].done => does)
  BY <1>9 DEF LetIn
<1>16. /\ \A i \in DOMAIN callers : callers'[i] = callers[i] /\ history'[i] = history[i]
       /\ Len(callers') = n
  BY <1>8, <1>9, CallersFacts
<1>17. CountedAsIssued'
  <2> SUFFICES ASSUME NEW i \in DOMAIN callers', callers'[i].by = "token", ~callers'[i].own,
                      callers'[i].cred.identifier \notin {None, Blank}
               PROVE  history'[i].id = callers'[i].cred.identifier
    BY DEF CountedAsIssued
  <2>1. CASE i = n
    <3>1. callers'[i] = who
      BY <1>9, <2>1
    <3>2. who.by = by /\ who.own = (c.header # None) /\ who.cred = cred
      OBVIOUS
    <3> HIDE DEF who
    <3>3. by = "token" /\ c.header = None /\ cred.identifier \notin {None, Blank} /\ callers'[i].cred = cred
      BY <3>1, <3>2
    <3> QED
      BY <1>8, <2>1, <3>3 DEF IdentifierOf, Hinted
  <2>2. CASE i \in DOMAIN callers
    BY <1>1, <1>16, <2>2 DEF CountedAsIssued
  <2> QED
    BY <1>12, <2>1, <2>2
<1> HIDE DEF who, n
<1>18. /\ history'[n].at = now /\ n = Len(history) + 1
  BY <1>8 DEF n
<1> QED
  BY <1>6, <1>10, <1>11, <1>12, <1>13, <1>14, <1>15, <1>16, <1>18, <1>17

\* What a request that was let in, by cred, may be handed.
TokensFor(T, by, cred) ==
    \A t \in T : /\ t.by = Len(history) + 1 /\ by \in Vouchers /\ callers'[t.by].done
                 /\ t.vk = VirtualKeyOf(by, cred)
                 /\ t.identifier \in Identifiers \cup {None, Blank}
                 /\ t.exp \in Nat /\ t.exp <= now + MaxTtl

SessionsFor(S, by) ==
    \A s \in S : /\ s.by = Len(history) + 1 /\ by = "exempt" /\ callers'[s.by].done
                 /\ s.exp \in Nat /\ s.exp <= now + SessionLife

\* Handing it out keeps the invariant.
LEMMA HandingOut ==
    ASSUME AccessIInv, NEW c, NEW by, NEW cred, NEW does, LetIn(c, by, cred, does),
           NEW T, TokensFor(T, by, cred), tokens' = tokens \cup T,
           NEW S, SessionsFor(S, by), sessions' = sessions \cup S
    PROVE  AccessIInv'
<1> DEFINE n == Len(history) + 1
<1>1. /\ LimiterIInv' /\ CallersMatch' /\ FreshlyVouched' /\ CountedAsIssued'
      /\ DOMAIN callers' = DOMAIN callers \cup {n}
      /\ \A i \in DOMAIN callers : callers'[i] = callers[i] /\ history'[i] = history[i]
      /\ history'[n].at = now
      /\ callers'[n].by = by /\ callers'[n].vk = VirtualKeyOf(by, cred)
  BY EnterFacts
<1>2. HandedOut
  BY DEF AccessIInv
<1> HIDE DEF n
<1>3. \A t \in tokens' :
          /\ t.by \in DOMAIN callers'
          /\ callers'[t.by].by \in Vouchers /\ callers'[t.by].done
          /\ t.vk = callers'[t.by].vk
          /\ t.identifier \in Identifiers \cup {None, Blank}
          /\ t.exp \in Nat /\ t.exp <= history'[t.by].at + MaxTtl
  <2> SUFFICES ASSUME NEW t \in tokens \cup T
               PROVE  /\ t.by \in DOMAIN callers'
                      /\ callers'[t.by].by \in Vouchers /\ callers'[t.by].done
                      /\ t.vk = callers'[t.by].vk
                      /\ t.identifier \in Identifiers \cup {None, Blank}
                      /\ t.exp \in Nat /\ t.exp <= history'[t.by].at + MaxTtl
    OBVIOUS
  <2>1. CASE t \in tokens
    BY <1>1, <1>2, <2>1 DEF HandedOut
  <2>2. CASE t \in T
    BY <1>1, <2>2 DEF n, TokensFor
  <2> QED
    BY <2>1, <2>2
<1>4. \A s \in sessions' :
          /\ s.by \in DOMAIN callers'
          /\ callers'[s.by].by = "exempt" /\ callers'[s.by].done
          /\ s.exp \in Nat /\ s.exp <= history'[s.by].at + SessionLife
  <2> SUFFICES ASSUME NEW s \in sessions \cup S
               PROVE  /\ s.by \in DOMAIN callers'
                      /\ callers'[s.by].by = "exempt" /\ callers'[s.by].done
                      /\ s.exp \in Nat /\ s.exp <= history'[s.by].at + SessionLife
    OBVIOUS
  <2>1. CASE s \in sessions
    BY <1>1, <1>2, <2>1 DEF HandedOut
  <2>2. CASE s \in S
    BY <1>1, <2>2 DEF n, SessionsFor
  <2> QED
    BY <2>1, <2>2
<1> QED
  BY <1>1, <1>3, <1>4 DEF AccessIInv, HandedOut

\* A route that hands out nothing
LEMMA HandingOutNothing ==
    ASSUME AccessIInv, NEW c, NEW by, NEW cred, NEW does, LetIn(c, by, cred, does),
           tokens' = tokens, sessions' = sessions
    PROVE  AccessIInv'
<1>1. /\ tokens' = tokens \cup {} /\ sessions' = sessions \cup {}
      /\ TokensFor({}, by, cred) /\ SessionsFor({}, by)
  BY DEF TokensFor, SessionsFor
<1> QED
  BY <1>1, HandingOut

LEMMA IssueKeepsInv ==
    ASSUME AccessIInv, NEW c \in Calls, Issue(c)
    PROVE  AccessIInv'
<1>1. PICK by \in Authorities, cred \in Presented(c) :
         /\ Enter(c, by, cred, MayIssue(by))
         /\ tokens' = tokens \cup
              (IF Last(callers').done
               THEN {Signed(c.ask, VirtualKeyOf(by, cred), Len(callers'))} ELSE {})
  BY DEF Issue
<1> DEFINE t0 == Signed(c.ask, VirtualKeyOf(by, cred), Len(callers'))
           T == IF Last(callers').done THEN {t0} ELSE {}
           n == Len(history) + 1
<1>2. LetIn(c, by, cred, MayIssue(by))
  BY <1>1 DEF LetIn, MayIssue
<1>3. Len(callers') = n /\ Last(callers') = callers'[n] /\ (callers'[n].done => MayIssue(by))
  BY <1>2, EnterFacts
<1>4. c.route = "issue" /\ sessions' = sessions
  BY DEF Issue
<1>5. ASSUME callers'[n].done
      PROVE  by \in Vouchers
  BY <1>1, <1>3, <1>4, <1>5 DEF MayIssue, Enter, Auth, Authorities, Vouchers
<1>6. /\ t0.by = n /\ t0.vk = VirtualKeyOf(by, cred)
      /\ t0.identifier \in Identifiers \cup {None, Blank}
      /\ t0.exp \in Nat /\ t0.exp <= now + MaxTtl
  <2>1. c.ask.ttl \in (1 .. MaxTtl) \cup {None} /\ c.ask.identifier \in Identifiers \cup {None, Blank}
    BY <1>4, AccessAssumption
  <2> QED
    BY <1>3, <2>1, CallersFacts, AccessAssumption DEF Signed
<1>7. TokensFor(T, by, cred)
  <2> HIDE DEF t0
  <2> QED
    BY <1>3, <1>5, <1>6 DEF TokensFor
<1>8. /\ tokens' = tokens \cup T
      /\ sessions' = sessions \cup {} /\ SessionsFor({}, by)
  BY <1>1, <1>4 DEF SessionsFor
<1> HIDE DEF T
<1> QED
  BY <1>2, <1>7, <1>8, HandingOut

LEMMA LoginKeepsInv ==
    ASSUME AccessIInv, NEW c \in Calls, Login(c)
    PROVE  AccessIInv'
<1> DEFINE s0 == SignedSession(Len(callers'))
           S == IF Last(callers').done /\ LoginPassword # None /\ SigningSecret # None
                THEN {s0} ELSE {}
           n == Len(history) + 1
           does == c.cred = LoginPassword
<1>1. /\ LetIn(c, "exempt", c.cred, does)
      /\ tokens' = tokens \cup {} /\ TokensFor({}, "exempt", c.cred)
      /\ sessions' = sessions \cup S
  BY DEF Login, LetIn, Authorities, TokensFor
<1> HIDE DEF does, S
<1>2. Len(callers') = n /\ Last(callers') = callers'[n]
  BY <1>1, EnterFacts
<1>3. s0.by = n /\ s0.exp \in Nat /\ s0.exp <= now + SessionLife
  BY <1>2, CallersFacts, AccessAssumption DEF SignedSession
<1>4. SessionsFor(S, "exempt")
  <2> HIDE DEF s0
  <2> QED
    BY <1>2, <1>3 DEF S, SessionsFor
<1> QED
  BY <1>1, <1>4, HandingOut

\* A restart forgets what was granted, of identifiers it counts as evicted.
LEMMA RestartKeepsInv ==
    ASSUME AccessIInv, Restart
    PROVE  AccessIInv'
<1>1. /\ UNCHANGED <<now, history, tokens, sessions, callers>>
      /\ buckets' = NoBuckets /\ evicted' = evicted \cup Tracked(buckets)
  BY DEF Restart
<1>2. Tracked(buckets') = {} /\ buckets' \in [{} -> Bucket]
  BY <1>1 DEF Tracked, NoBuckets
<1>3. LimiterIInv
  BY DEF AccessIInv
<1>4. TypeOK'
  BY <1>1, <1>2, <1>3, FS_EmptySet, IdentifierAssumption DEF LimiterIInv, TypeOK, Tracked
<1>5. PastRequests' /\ OnlyOwnTimes' /\ ResetFreesSlot' /\ ResetIsHonest' /\ RejectedForCause'
  BY <1>1, <1>2, <1>3
     DEF LimiterIInv, PastRequests, OnlyOwnTimes, ResetFreesSlot, ResetIsHonest,
         RejectedForCause, Granted, StampOf, Tracked
<1>6. RemembersWindow' /\ IdentifierQuota'
  <2>1. \A id, t : Granted(id, t)' = Granted(id, t)
    BY <1>1 DEF Granted, StampOf
  <2>2. \A id : Granted(id, now)' = Granted(id, now)
    BY <1>1 DEF Granted, StampOf
  <2>3. \A id \in Identifiers \ evicted' : id \in Identifiers \ evicted /\ TimesOf(buckets, id) = {}
    BY <1>1 DEF TimesOf
  <2> QED
    BY <1>1, <1>3, <2>1, <2>2, <2>3 DEF LimiterIInv, RemembersWindow, IdentifierQuota
<1>7. CallersMatch' /\ HandedOut' /\ FreshlyVouched' /\ CountedAsIssued'
  BY <1>1 DEF AccessIInv, CallersMatch, HandedOut, FreshlyVouched, CountedAsIssued
<1> QED
  BY <1>4, <1>5, <1>6, <1>7 DEF AccessIInv, LimiterIInv

LEMMA AccessSafe == AccessSpec => []AccessIInv
<1>1. AccessInit => AccessIInv
  <2> SUFFICES ASSUME AccessInit PROVE AccessIInv
    OBVIOUS
  <2>1. LimiterIInv
    BY LimiterInit DEF AccessInit
  <2>2. /\ callers = <<>> /\ DOMAIN callers = {} /\ history = <<>>
        /\ tokens = {} /\ sessions = {}
    BY DEF AccessInit, Init
  <2> QED
    BY <2>1, <2>2 DEF AccessIInv, CallersMatch, HandedOut, FreshlyVouched, CountedAsIssued
<1>2. AccessIInv /\ [AccessNext]_<<vars, accessVars>> => AccessIInv'
  <2> SUFFICES ASSUME AccessIInv, [AccessNext]_<<vars, accessVars>> PROVE AccessIInv'
    OBVIOUS
  <2>1. ASSUME NEW c \in Calls, Chat(c) PROVE AccessIInv'
    <3>1. PICK by, cred : LetIn(c, by, cred, TRUE)
      BY <2>1 DEF Chat, LetIn
    <3> QED
      BY <2>1, <3>1, HandingOutNothing DEF Chat
  <2>2. ASSUME NEW c \in Calls, Issue(c) PROVE AccessIInv'
    BY <2>2, IssueKeepsInv
  <2>3. ASSUME NEW c \in Calls, AdminRoute(c) PROVE AccessIInv'
    <3>1. PICK by, cred : LetIn(c, by, cred, AdminAuth(c, cred))
      BY <2>3 DEF AdminRoute, LetIn, AdminAuth
    <3> QED
      BY <2>3, <3>1, HandingOutNothing DEF AdminRoute
  <2>4. ASSUME NEW c \in Calls, Login(c) PROVE AccessIInv'
    BY <2>4, LoginKeepsInv
  <2>5. CASE Restart
    BY <2>5, RestartKeepsInv
  <2>6. CASE Tick /\ UNCHANGED accessVars
    <3>1. LimiterIInv'
      BY <2>6, TickKeepsInv DEF Tick, AccessIInv
    <3>2. UNCHANGED <<history, callers, tokens, sessions>>
      BY <2>6 DEF Tick, accessVars
    <3> QED
      BY <3>1, <3>2 DEF AccessIInv, CallersMatch, HandedOut, FreshlyVouched, CountedAsIssued
  <2>7. CASE UNCHANGED <<vars, accessVars>>
    <3>1. UNCHANGED <<now, buckets, history, evicted, callers, tokens, sessions>>
      BY <2>7 DEF vars, accessVars
    <3>2. LimiterIInv'
      BY <3>1 DEF AccessIInv, LimiterIInv, TypeOK, PastRequests, OnlyOwnTimes, RemembersWindow,
         ResetFreesSlot, IdentifierQuota, RejectedForCause, ResetIsHonest, LastRejected,
         Granted, StampOf, TimesOf, Tracked
    <3> QED
      BY <3>1, <3>2 DEF AccessIInv, CallersMatch, HandedOut, FreshlyVouched, CountedAsIssued
  <2> QED
    BY <2>1, <2>2, <2>3, <2>4, <2>5, <2>6, <2>7 DEF AccessNext
<1> QED
  BY <1>1, <1>2, PTL DEF AccessSpec

\* Credentials are passed on by those who hold a key or gave the password, and no
\* chain of them outlives the life of one (verifyBrowserToken, verifySession,
\* POST /v1/tokens/issue), for any environments and over any number of restarts.
THEOREM CredentialsAreVouched == AccessSpec => []FreshlyVouched
  BY AccessSafe, PTL DEF AccessIInv

\* The quota per identifier holds behind the whole middleware, restarts included:
\* what a restart forgets is counted as evicted.
THEOREM QuotaBehindAuth == AccessSpec => []LimiterInv
  BY AccessSafe, PTL DEF AccessIInv, LimiterIInv, LimiterInv

\* The requests a token was let in with, without a header of the client's, are all in the
\* bucket of the identifier the token was issued for.
LEMMA TokenUsesGranted ==
    ASSUME AccessIInv, NEW t, t.identifier \in Identifiers, NEW s \in 0 .. now
    PROVE  LET Uses == {i \in DOMAIN callers :
                          /\ callers[i].cred = t /\ callers[i].by = "token"
                          /\ ~callers[i].own
                          /\ history[i].allowed
                          /\ history[i].at <= s /\ s - history[i].at < WindowTicks}
               G == Granted(t.identifier, s)
           IN  IsFiniteSet(G) => IsFiniteSet(Uses) /\ Cardinality(Uses) <= Cardinality(G)
<1> DEFINE Uses == {i \in DOMAIN callers :
                      /\ callers[i].cred = t /\ callers[i].by = "token"
                      /\ ~callers[i].own
                      /\ history[i].allowed
                      /\ history[i].at <= s /\ s - history[i].at < WindowTicks}
           G == Granted(t.identifier, s)
           f == [i \in Uses |-> StampOf(i)]
<1>1. t.identifier \notin {None, Blank}
  BY AccessAssumption
<1>2. \A i \in Uses : StampOf(i) \in G
  <2> SUFFICES ASSUME NEW i \in Uses PROVE StampOf(i) \in G
    OBVIOUS
  <2>1. history[i].id = t.identifier
    BY <1>1 DEF AccessIInv, CountedAsIssued
  <2>2. i \in DOMAIN history
    BY CallersFacts
  <2> QED
    BY <2>1, <2>2 DEF Granted
<1>3. f \in Injection(Uses, G)
  BY <1>2 DEF Injection, IsInjective, StampOf
<1> HIDE DEF Uses, G, f
<1>4. IsFiniteSet(G) => IsFiniteSet(Uses) /\ Cardinality(Uses) <= Cardinality(G)
  BY <1>3, FS_Injection
<1> QED
  BY <1>4 DEF Uses, G

\* What is sent with a token and no identifier header is worth the limit of the token's
\* identifier and no more, from whatever address and however many hands the token has
\* passed through (auth.ts and identifier-limit.ts together), for any environments and
\* number of restarts; of requests with a header it says nothing.
THEOREM TokensAreWorthTheLimit == AccessSpec => []TokenQuota
<1>1. AccessIInv => TokenQuota
  <2> SUFFICES ASSUME AccessIInv, NEW t \in tokens, NEW s \in 0 .. now,
                      t.identifier \in Identifiers \ evicted
               PROVE  Cardinality({i \in DOMAIN callers :
                         /\ callers[i].cred = t /\ callers[i].by = "token"
                         /\ ~callers[i].own
                         /\ history[i].allowed
                         /\ history[i].at <= s /\ s - history[i].at < WindowTicks}) <= Limit
    BY DEF TokenQuota
  <2> DEFINE Uses == {i \in DOMAIN callers :
                        /\ callers[i].cred = t /\ callers[i].by = "token"
                        /\ ~callers[i].own
                        /\ history[i].allowed
                        /\ history[i].at <= s /\ s - history[i].at < WindowTicks}
             G == Granted(t.identifier, s)
  <2>1. LimiterIInv /\ PastRequests
    BY DEF AccessIInv, LimiterIInv
  <2>2. IsFiniteSet(G)
    BY <2>1, GrantedFinite DEF LimiterIInv
  <2>3. Cardinality(G) <= Limit
    BY <2>1 DEF LimiterIInv, IdentifierQuota
  <2>4. IsFiniteSet(Uses) /\ Cardinality(Uses) <= Cardinality(G)
    BY <2>2, TokenUsesGranted
  <2> HIDE DEF Uses, G
  <2>5. Cardinality(Uses) \in Nat /\ Cardinality(G) \in Nat
    BY <2>2, <2>4, FS_CardinalityType
  <2>6. Cardinality(Uses) <= Limit
    BY <2>3, <2>4, <2>5, IdentifierAssumption
  <2> QED
    BY <2>6 DEF Uses
<1> QED
  BY <1>1, AccessSafe, PTL

LEMMA EnterHeldToKey ==
    ASSUME AccessIInv, NEW c, NEW by, NEW cred, NEW does, LetIn(c, by, cred, does), Last(callers').by = "token"
    PROVE  LET d == Last(callers')
               minter == callers[d.cred.by].vk
           IN  d.vk = IF minter \in VirtualKeyStore THEN minter ELSE None
<1> DEFINE n == Len(history) + 1
<1>1. /\ Last(callers') = callers'[n] /\ callers'[n].by = by
      /\ callers'[n].vk = VirtualKeyOf(by, cred) /\ callers'[n].cred = cred
  BY EnterFacts
<1>2. by = "token"
  BY <1>1
<1>3. cred \in tokens
  BY <1>2 DEF LetIn, Enter, Auth, Presented
<1>4. cred.vk = callers[cred.by].vk
  BY <1>3 DEF AccessIInv, HandedOut
<1> QED
  BY <1>1, <1>2, <1>4 DEF VirtualKeyOf

\* Whoever comes with a token is held to the caps of the key it was minted with,
\* as long as that key is loaded (auth.ts).
THEOREM TokensHeldToKeys == AccessSpec => HeldToTheKey
<1> DEFINE Held ==
       Len(callers') > Len(callers) =>
         LET c == Last(callers')
         IN  c.by = "token" =>
               LET minter == callers[c.cred.by].vk
               IN  c.vk = IF minter \in VirtualKeyStore THEN minter ELSE None
<1>1. AccessIInv /\ [AccessNext]_<<vars, accessVars>> => [Held]_<<vars, accessVars>>
  <2> SUFFICES ASSUME AccessIInv, AccessNext PROVE Held
    OBVIOUS
  <2>1. ASSUME NEW c, NEW by, NEW cred, NEW does, LetIn(c, by, cred, does)
        PROVE  Held
    BY <2>1, EnterHeldToKey
  <2> HIDE DEF Held
  <2>2. ASSUME NEW c \in Calls, Chat(c) PROVE Held
    BY <2>1, <2>2 DEF Chat, LetIn
  <2>3. ASSUME NEW c \in Calls, Issue(c) PROVE Held
    <3>1. PICK by, cred : LetIn(c, by, cred, MayIssue(by))
      BY <2>3 DEF Issue, LetIn, MayIssue
    <3> QED
      BY <2>1, <3>1
  <2>4. ASSUME NEW c \in Calls, AdminRoute(c) PROVE Held
    <3>1. PICK by, cred : LetIn(c, by, cred, AdminAuth(c, cred))
      BY <2>4 DEF AdminRoute, LetIn, AdminAuth
    <3> QED
      BY <2>1, <3>1
  <2>5. ASSUME NEW c \in Calls, Login(c) PROVE Held
    <3>1. LetIn(c, "exempt", c.cred, c.cred = LoginPassword)
      BY <2>5 DEF Login, LetIn, Authorities
    <3> QED
      BY <2>1, <3>1
  <2>6. CASE Restart \/ (Tick /\ UNCHANGED accessVars)
    <3>1. callers' = callers
      BY <2>6 DEF Restart, accessVars
    <3> QED
      BY <3>1, CallersFacts DEF Held, AccessIInv, CallersMatch
  <2> QED
    BY <2>2, <2>3, <2>4, <2>5, <2>6 DEF AccessNext
<1> QED
  BY <1>1, AccessSafe, PTL DEF AccessSpec, HeldToTheKey
=============================================================================
