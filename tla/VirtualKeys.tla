---------------------------- MODULE VirtualKeys ----------------------------
(***************************************************************************)
(* One virtual key (gateway/virtual-keys.ts): its rolling counters, as     *)
(* operators on the set of the requests recorded.  requestTimes and        *)
(* tokenEvents are pruned together, so one set holds both; a number tells  *)
(* apart what was recorded at one time.                                    *)
(***************************************************************************)
EXTENDS JavaScript, FiniteSets, Functions

CONSTANTS CapWindow,   \* WINDOW_MS, the rolling 24 h, in ticks
          RequestCap,  \* dailyRequestCap, or None
          TokenCap,    \* dailyTokenCap, or None
          ExpiresAt    \* when the key expires, or None

ASSUME VirtualKeyAssumption ==
    /\ CapWindow \in Nat \ {0}
    /\ RequestCap \in (Nat \ {0}) \cup {None}
    /\ TokenCap \in (Nat \ {0}) \cup {None}
    /\ ExpiresAt \in Nat \cup {None}

\* Mutant: the caps never recover.
KeepAll(counter, t) == counter

Prune(counter, t) == {e \in counter : e.at > t - CapWindow}

TokensOf(counter) == SumFunction([e \in counter |-> e.tokens])

Expired(t) == ExpiresAt # None /\ t > ExpiresAt

\* Mutant: one request too many.
CanServeOneMore(counter, t) ==
    /\ RequestCap # None => Cardinality(Prune(counter, t)) <= RequestCap
    /\ TokenCap # None => TokensOf(Prune(counter, t)) < TokenCap

\* assertCanServe(), once the key is known to be alive and to allow the model.
CanServe(counter, t) ==
    /\ RequestCap # None => Cardinality(Prune(counter, t)) < RequestCap
    /\ TokenCap # None => TokensOf(Prune(counter, t)) < TokenCap

\* recordRequest()
Record(counter, tokens, t, nr) ==
    Prune(counter, t) \cup {[at |-> t, tokens |-> tokens, nr |-> nr]}
=============================================================================
