--------------------------- MODULE UsageTracker ---------------------------
(***************************************************************************)
(* The hourly token buckets of one provider (gateway/usage-tracker.ts): a  *)
(* function from the hours that have a bucket to what it counted.          *)
(***************************************************************************)
EXTENDS Integers, FiniteSets, Functions

CONSTANTS HourTicks,    \* HOUR_MS, in ticks
          WindowHours   \* WINDOW_HOURS

ASSUME UsageAssumption == HourTicks \in Nat \ {0} /\ WindowHours \in Nat \ {0}

NewBuckets == [h \in {} |-> [tokens |-> 0, requests |-> 0]]

CurrentHour(t) == t \div HourTicks

\* Mutant: the oldest hour of the window is dropped too.
KeepsOneLess(buckets, t) ==
    {h \in DOMAIN buckets : h > CurrentHour(t) - WindowHours + 1}

\* prune(): the hours it keeps.
FreshHours(buckets, t) == {h \in DOMAIN buckets : h > CurrentHour(t) - WindowHours}

\* record()
RecordUsage(buckets, tokens, t) ==
    LET now   == CurrentHour(t)
        fresh == FreshHours(buckets, t)
        old   == IF now \in fresh THEN buckets[now] ELSE [tokens |-> 0, requests |-> 0]
        new   == [tokens |-> old.tokens + tokens, requests |-> old.requests + 1]
    IN  [h \in fresh \cup {now} |-> IF h = now THEN new ELSE buckets[h]]

\* getTotals(): tokens, over the fresh buckets.
UsageTotal(buckets, t) ==
    SumFunctionOnSet([h \in DOMAIN buckets |-> buckets[h].tokens], FreshHours(buckets, t))
=============================================================================
