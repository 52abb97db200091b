-------------------------- MODULE OAuthCredentials --------------------------
(***************************************************************************)
(* The OAuth credentials of provider claude-code-api                       *)
(* (gateway/providers/claude-code-api.ts): one module-level cachedCreds    *)
(* for all requests, the file the Claude CLI keeps, and an authorization   *)
(* server that may rotate refresh tokens.  An access token is represented  *)
(* by the instant the server stops accepting it, a refresh token by its    *)
(* number in the rotation; both clocks are one.                            *)
(***************************************************************************)
EXTENDS JavaScript

CONSTANTS Requests,    \* requests of this provider in flight
          Buffer,      \* REFRESH_BUFFER_MS, in ticks
          Lifetime,    \* expires_in of a grant, in ticks
          MaxLatency,  \* the longest an answer of the server may travel
          Rotates,     \* the server accepts a refresh token once
          MaxGrants,   \* bound: rotations and logins
          MaxTime      \* bound: the clock stops here

\* fetch() gives up on an answer after headersTimeout, which is no longer than
\* REFRESH_BUFFER_MS; a token outlives the wait for it.
ASSUME OAuthAssumption ==
    /\ Buffer \in Nat /\ Lifetime \in Nat /\ MaxLatency \in Nat
    /\ MaxLatency <= Buffer /\ MaxLatency < Lifetime
    /\ Rotates \in BOOLEAN
    /\ MaxGrants \in Nat /\ MaxTime \in Nat

VARIABLES now,          \* Date.now(), in ticks
          cachedCreds,  \* the module's variable
          file,         \* what readCredentialsFile() returns
          live,         \* the authorization server: the refresh token it accepts
          phase,        \* phase[r]: how far getAccessToken() got
          fresh,        \* fresh[r]: the credentials of the file that r is refreshing
          granted,      \* granted[r]: those the server granted it, on their way
          sent,         \* history: sent[r], the token r left with, when, and whether refreshed in vain
          rivals        \* history: requests that were refreshing when cachedCreds was stored

vars == <<now, cachedCreds, file, live, phase, fresh, granted, sent, rivals>>

Creds == [accessToken : Nat, refreshToken : Nat, expiresAt : Nat]

Init ==
    /\ now = 0 /\ live = 1
    /\ cachedCreds = None /\ file = None
    /\ phase = [r \in Requests |-> "idle"]
    /\ fresh = [r \in Requests |-> None]
    /\ granted = [r \in Requests |-> None]
    /\ sent = [r \in Requests |-> None]
    /\ rivals = {}

Refreshing == {r \in Requests : phase[r] = "refreshing"}

\* Mutant: no safety margin before the expiry.
UsableToTheEnd(creds) == creds # None /\ now < creds.expiresAt

\* The tests at the head of getAccessToken()
Usable(creds) == creds # None /\ now < creds.expiresAt - Buffer

\* cachedCreds = creds; return creds.accessToken
Store(r, creds, refused) ==
    /\ cachedCreds' = creds
    /\ rivals' = Refreshing \ {r}
    /\ sent' = [sent EXCEPT ![r] = [token |-> creds.accessToken, at |-> now, refused |-> refused]]

\* complete() up to getAccessToken(): getApiKeys() finds a credentials file.
Pick(r) ==
    /\ phase[r] \in {"idle", "left"}
    /\ file # None
    /\ phase' = [phase EXCEPT ![r] = "picked"]
    /\ sent' = [sent EXCEPT ![r] = None]
    /\ UNCHANGED <<now, cachedCreds, file, live, fresh, granted, rivals>>

\* getAccessToken(): the credentials in memory will do.
UseCached(r) ==
    /\ phase[r] = "picked"
    /\ Usable(cachedCreds)
    /\ phase' = [phase EXCEPT ![r] = "left"]
    /\ sent' = [sent EXCEPT ![r] = [token |-> cachedCreds.accessToken, at |-> now,
                                    refused |-> FALSE]]
    /\ UNCHANGED <<now, cachedCreds, file, live, fresh, granted, rivals>>

\* getAccessToken(): those of the file will.
UseFile(r) ==
    /\ phase[r] = "picked"
    /\ ~Usable(cachedCreds) /\ Usable(file)
    /\ Store(r, file, FALSE)
    /\ phase' = [phase EXCEPT ![r] = "left"]
    /\ UNCHANGED <<now, file, live, fresh, granted>>

\* getAccessToken() returns null: the file went since getApiKeys() read it.
NoToken(r) ==
    /\ phase[r] = "picked"
    /\ ~Usable(cachedCreds) /\ file = None
    /\ phase' = [phase EXCEPT ![r] = "idle"]
    /\ UNCHANGED <<now, cachedCreds, file, live, fresh, granted, sent, rivals>>

\* Mutant: credentials that are still good are refreshed too.
EagerRefresh(r) ==
    /\ phase[r] = "picked"
    /\ file # None
    /\ phase' = [phase EXCEPT ![r] = "refreshing"]
    /\ fresh' = [fresh EXCEPT ![r] = file]
    /\ UNCHANGED <<now, cachedCreds, file, live, granted, sent, rivals>>

\* refreshOAuthToken(fresh), up to the await, with the file's refresh token.
BeginRefresh(r) ==
    /\ phase[r] = "picked"
    /\ ~Usable(cachedCreds) /\ file # None /\ ~Usable(file)
    /\ phase' = [phase EXCEPT ![r] = "refreshing"]
    /\ fresh' = [fresh EXCEPT ![r] = file]
    /\ UNCHANGED <<now, cachedCreds, file, live, granted, sent, rivals>>

\* The authorization server accepts the refresh token, and replaces it if it rotates.
Grant(r) ==
    /\ phase[r] = "refreshing" /\ granted[r] = None
    /\ fresh[r].refreshToken = live
    /\ Rotates => live < MaxGrants
    /\ live' = IF Rotates THEN live + 1 ELSE live
    /\ granted' = [granted EXCEPT ![r] = [accessToken |-> now + Lifetime,
                                          refreshToken |-> live', expiresAt |-> 0]]
    /\ UNCHANGED <<now, cachedCreds, file, phase, fresh, sent, rivals>>

\* The end of a refresh: cachedCreds = refreshed ?? fresh
EndRefresh(r, creds, refused) ==
    /\ phase[r] = "refreshing"
    /\ Store(r, creds, refused)
    /\ phase' = [phase EXCEPT ![r] = "left"]
    /\ granted' = [granted EXCEPT ![r] = None]
    /\ UNCHANGED <<now, file, live, fresh>>

\* Mutant: the expiry is taken to be a lifetime and the buffer away.
LaterExpiry(r) ==
    /\ granted[r] # None
    /\ EndRefresh(r, [granted[r] EXCEPT !.expiresAt = now + Lifetime + Buffer + 1], FALSE)

\* The answer arrives; expiresAt is counted from this side of the network.
Refreshed(r) ==
    /\ granted[r] # None
    /\ EndRefresh(r, [granted[r] EXCEPT !.expiresAt = now + Lifetime], FALSE)

\* refreshOAuthToken() returns null: refused, unreachable, or the answer was lost.
NotRefreshed(r) == EndRefresh(r, fresh[r], TRUE)

\* The Claude CLI logs in or refreshes, and writes its credentials to the file.
CliWrites ==
    \E lag \in 0 .. MaxLatency :
       /\ live < MaxGrants
       /\ live' = live + 1
       /\ file' = [accessToken |-> now + Lifetime - lag, refreshToken |-> live',
                   expiresAt |-> now + Lifetime]
       /\ UNCHANGED <<now, cachedCreds, phase, fresh, granted, sent, rivals>>

\* The file is removed, or is read half written.
FileUnreadable ==
    /\ file' = None
    /\ UNCHANGED <<now, cachedCreds, live, phase, fresh, granted, sent, rivals>>

\* The gateway restarts: what it had refreshed was in memory only.
Restart ==
    /\ cachedCreds' = None
    /\ phase' = [r \in Requests |-> "idle"]
    /\ granted' = [r \in Requests |-> None]
    /\ sent' = [r \in Requests |-> None]
    /\ rivals' = {}
    /\ UNCHANGED <<now, file, live, fresh>>

\* Time passes; no answer travels longer than MaxLatency.
Tick ==
    /\ now < MaxTime
    /\ \A r \in Requests : granted[r] # None => now < granted[r].accessToken - Lifetime + MaxLatency
    /\ now' = now + 1
    /\ UNCHANGED <<cachedCreds, file, live, phase, fresh, granted, sent, rivals>>

Next ==
    \/ \E r \in Requests :
          \/ Pick(r) \/ UseCached(r) \/ UseFile(r) \/ NoToken(r)
          \/ BeginRefresh(r) \/ Grant(r) \/ Refreshed(r) \/ NotRefreshed(r)
    \/ CliWrites \/ FileUnreadable \/ Restart \/ Tick

Spec == Init /\ [][Next]_vars
-----------------------------------------------------------------------------
TypeOK ==
    /\ now \in 0 .. MaxTime /\ live \in Nat
    /\ cachedCreds \in Creds \cup {None} /\ file \in Creds \cup {None}
    /\ phase \in [Requests -> {"idle", "picked", "refreshing", "left"}]
    /\ fresh \in [Requests -> Creds \cup {None}]
    /\ granted \in [Requests -> Creds \cup {None}]
    /\ sent \in [Requests -> [token : Nat, at : Nat, refused : BOOLEAN] \cup {None}]
    /\ rivals \subseteq Requests

\* No credentials in use are believed to live longer than the buffer makes
\* good: the expiry noted here is ahead of the server's by the way of the
\* answer at most (refreshOAuthToken computes it on arrival, the file's was
\* computed by the CLI in the same way).
ExpiryWithinBuffer ==
    \A creds \in {cachedCreds, file} \cup {fresh[r] : r \in Requests} :
       creds # None => creds.expiresAt <= creds.accessToken + MaxLatency

\* The type invariant, and ExpiryWithinBuffer.
CredsInv == TypeOK /\ ExpiryWithinBuffer

\* A request leaves with a token the server accepts at that moment, whatever
\* the other requests, the CLI and a restart did to the credentials while it
\* waited, unless its own refresh failed (getAccessToken).
SendsValidToken ==
    \A r \in Requests :
       sent[r] # None /\ ~sent[r].refused => sent[r].at < sent[r].token

\* Usable credentials in memory are lost only to a restart, or to the failure
\* of a request that was refreshing when they were stored: "refreshed ?? fresh"
\* overwrites what a concurrent request obtained, but no request that asked
\* after it did.
LostToRivalsOnly ==
    [][ Usable(cachedCreds) /\ cachedCreds' # cachedCreds /\ ~Usable(cachedCreds)' =>
        \/ cachedCreds' = None
        \/ \E r \in rivals : phase[r] = "refreshing" /\ phase'[r] = "left" ]_vars
=============================================================================
