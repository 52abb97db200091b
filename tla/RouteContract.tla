--------------------------- MODULE RouteContract ---------------------------
(***************************************************************************)
(* What a client of the gateway is promised: every request is answered,    *)
(* once, and the answer fits what the request asked for; a provider that   *)
(* holds on to a request may delay its answer for ever.  Nothing is said   *)
(* of breakers, keys or retries.                                           *)
(***************************************************************************)
CONSTANTS Providers, NoTraining, Metas, Requests, Asks, None,
          Serving(_)   \* the providers of a model

VARIABLES ask,     \* what each request asked for, or None
          answer,  \* <<kind, provider>>, or None
          held     \* the requests whose answer nothing hurries: whoever uses
                   \* the contract says which they are, and it may change freely

cvars == <<ask, answer>>

CInit == /\ ask = [r \in Requests |-> None]
         /\ answer = [r \in Requests |-> None]

Allowed(a, p) == p \in Serving(a.model) /\ (a.private => p \in NoTraining)

Contradictory(a) ==
    \/ a.strict /\ a.model \in Metas
    \/ a.private /\ NoTraining = {}
    \/ a.private /\ a.model \notin Metas /\ Serving(a.model) \cap NoTraining = {}

\* The answers a request may get: served by an allowed provider, or the error
\* of an allowed provider, or no provider left, or refused, but only when what
\* it asks for is contradictory.  A strict request that was sent out never
\* hears that all providers were tried.
Fits(a) ==
    IF Contradictory(a) THEN {<<"refused", None>>}
    ELSE ({"served", "upstream"} \X {p \in Providers : Allowed(a, p)})
            \cup {<<"exhausted", None>>}
            \cup (IF a.strict THEN {} ELSE {<<"timeout", None>>})

Accept(r) ==
    /\ ask[r] = None
    /\ \E a \in Asks :
          /\ ask' = [ask EXCEPT ![r] = a]
          /\ \/ UNCHANGED answer
             \/ \E x \in Fits(a) : answer' = [answer EXCEPT ![r] = x]

Reply(r) ==
    /\ ask[r] # None
    /\ answer[r] = None
    /\ \E x \in Fits(ask[r]) \ (IF ask[r].strict THEN {<<"exhausted", None>>} ELSE {}) :
          answer' = [answer EXCEPT ![r] = x]
    /\ UNCHANGED ask

CNext == \E r \in Requests : Accept(r) \/ Reply(r)

CSpec == /\ CInit
         /\ [][CNext]_cvars
         /\ \A r \in Requests : WF_cvars(r \notin held /\ Reply(r))
=============================================================================
