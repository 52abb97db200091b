----------------------- MODULE OAuthCredentialsProofs -----------------------
(***************************************************************************)
(* Proofs about the OAuth credentials, for any number of requests, any     *)
(* buffer, lifetime and latency, with and without rotation.                *)
(***************************************************************************)
EXTENDS OAuthCredentials, TLAPS

\* A grant is on its way to a request that is refreshing, for MaxLatency at most.
GrantsOnTheirWay ==
    \A r \in Requests :
       /\ phase[r] = "refreshing" => fresh[r] \in Creds \ {None}
       /\ granted[r] # None =>
             /\ phase[r] = "refreshing"
             /\ now <= granted[r].accessToken - Lifetime + MaxLatency

\* Who refreshes while the credentials in memory are good was refreshing already
\* when they were stored.
OnlyRivalsRefresh == Usable(cachedCreds) => Refreshing \subseteq rivals

\* The inductive invariant
OAuthInv == CredsInv /\ GrantsOnTheirWay /\ SendsValidToken /\ OnlyRivalsRefresh

-----------------------------------------------------------------------------
LEMMA OAuthInit == Init => OAuthInv
  BY OAuthAssumption
     DEF Init, OAuthInv, CredsInv, TypeOK, ExpiryWithinBuffer, GrantsOnTheirWay,
         SendsValidToken, OnlyRivalsRefresh, Usable

\* What a request that stores credentials has to show for them.
LEMMA StoreFacts ==
    ASSUME OAuthInv, NEW r \in Requests, NEW creds \in Creds, NEW refused \in BOOLEAN,
           Store(r, creds, refused), phase' = [phase EXCEPT ![r] = "left"],
           UNCHANGED <<now, file, live, fresh>>,
           \/ UNCHANGED granted
           \/ granted' = [granted EXCEPT ![r] = None],
           granted'[r] = None,
           creds.expiresAt <= creds.accessToken + MaxLatency,
           refused \/ now < creds.accessToken
    PROVE  OAuthInv'
<1> USE OAuthAssumption DEF OAuthInv, CredsInv
<1>1. TypeOK'
  BY DEF TypeOK, Store, Refreshing, Creds
<1>2. ExpiryWithinBuffer'
  BY DEF ExpiryWithinBuffer, Store
<1>3. GrantsOnTheirWay'
  BY DEF GrantsOnTheirWay, Store, TypeOK
<1>4. SendsValidToken'
  BY DEF SendsValidToken, Store, TypeOK
<1>5. OnlyRivalsRefresh'
  BY DEF OnlyRivalsRefresh, Store, Refreshing, TypeOK
<1> QED
  BY <1>1, <1>2, <1>3, <1>4, <1>5

LEMMA OAuthStep == OAuthInv /\ [Next]_vars => OAuthInv'
<1> SUFFICES ASSUME OAuthInv, [Next]_vars PROVE OAuthInv'
  OBVIOUS
<1> USE OAuthAssumption DEF OAuthInv, CredsInv
<1>1. ASSUME NEW r \in Requests, Pick(r) PROVE OAuthInv'
  BY <1>1 DEF Pick, TypeOK, ExpiryWithinBuffer, GrantsOnTheirWay, SendsValidToken,
              OnlyRivalsRefresh, Usable, Refreshing
<1>2. ASSUME NEW r \in Requests, UseCached(r) PROVE OAuthInv'
  <2>1. cachedCreds \in Creds /\ now < cachedCreds.accessToken
    BY <1>2 DEF UseCached, Usable, TypeOK, ExpiryWithinBuffer, Creds
  <2>2. TypeOK'
    BY <1>2, <2>1 DEF UseCached, TypeOK, Creds
  <2>3. ExpiryWithinBuffer' /\ GrantsOnTheirWay' /\ OnlyRivalsRefresh'
    BY <1>2 DEF UseCached, TypeOK, ExpiryWithinBuffer, GrantsOnTheirWay, OnlyRivalsRefresh,
                Usable, Refreshing
  <2>4. SendsValidToken'
    BY <1>2, <2>1 DEF UseCached, SendsValidToken, TypeOK
  <2> QED
    BY <2>2, <2>3, <2>4
<1>3. ASSUME NEW r \in Requests, UseFile(r) PROVE OAuthInv'
  <2>1. /\ file \in Creds /\ now < file.accessToken
        /\ file.expiresAt <= file.accessToken + MaxLatency
    BY <1>3 DEF UseFile, Usable, TypeOK, ExpiryWithinBuffer, Creds
  <2>2. granted[r] = None /\ granted' = granted
    BY <1>3 DEF UseFile, GrantsOnTheirWay
  <2> QED
    BY <1>3, <2>1, <2>2, StoreFacts DEF UseFile
<1>4. ASSUME NEW r \in Requests, NoToken(r) PROVE OAuthInv'
  BY <1>4 DEF NoToken, TypeOK, ExpiryWithinBuffer, GrantsOnTheirWay, SendsValidToken,
              OnlyRivalsRefresh, Usable, Refreshing
<1>5. ASSUME NEW r \in Requests, BeginRefresh(r) PROVE OAuthInv'
  <2>1. TypeOK' /\ GrantsOnTheirWay' /\ SendsValidToken'
    BY <1>5 DEF BeginRefresh, TypeOK, GrantsOnTheirWay, SendsValidToken
  <2>2. ExpiryWithinBuffer'
    BY <1>5 DEF BeginRefresh, TypeOK, ExpiryWithinBuffer
  <2>3. OnlyRivalsRefresh'
    BY <1>5 DEF BeginRefresh, OnlyRivalsRefresh, Usable
  <2> QED
    BY <2>1, <2>2, <2>3
<1>6. ASSUME NEW r \in Requests, Grant(r) PROVE OAuthInv'
  <2>1. TypeOK'
    BY <1>6 DEF Grant, TypeOK, Creds
  <2>2. GrantsOnTheirWay'
    BY <1>6 DEF Grant, TypeOK, GrantsOnTheirWay
  <2>3. ExpiryWithinBuffer' /\ SendsValidToken' /\ OnlyRivalsRefresh'
    BY <1>6 DEF Grant, ExpiryWithinBuffer, SendsValidToken, OnlyRivalsRefresh, Usable, Refreshing
  <2> QED
    BY <2>1, <2>2, <2>3
<1>7. ASSUME NEW r \in Requests, Refreshed(r) PROVE OAuthInv'
  <2> DEFINE creds == [granted[r] EXCEPT !.expiresAt = now + Lifetime]
  <2>1. /\ creds \in Creds
        /\ creds.expiresAt <= creds.accessToken + MaxLatency
        /\ now < creds.accessToken
    BY <1>7 DEF Refreshed, EndRefresh, GrantsOnTheirWay, TypeOK, Creds
  <2>2. granted'[r] = None
    BY <1>7 DEF Refreshed, EndRefresh, TypeOK
  <2> QED
    BY <1>7, <2>1, <2>2, StoreFacts DEF Refreshed, EndRefresh
<1>8. ASSUME NEW r \in Requests, NotRefreshed(r) PROVE OAuthInv'
  <2>1. fresh[r] \in Creds \ {None}
    BY <1>8 DEF NotRefreshed, EndRefresh, GrantsOnTheirWay
  <2>2. fresh[r].expiresAt <= fresh[r].accessToken + MaxLatency \/ fresh[r] = None
    BY DEF ExpiryWithinBuffer
  <2>3. granted'[r] = None
    BY <1>8 DEF NotRefreshed, EndRefresh, TypeOK
  <2> QED
    BY <1>8, <2>1, <2>2, <2>3, StoreFacts DEF NotRefreshed, EndRefresh
<1>9. CASE CliWrites
  <2>1. TypeOK'
    BY <1>9 DEF CliWrites, TypeOK, Creds
  <2>2. ExpiryWithinBuffer'
    BY <1>9 DEF CliWrites, TypeOK, ExpiryWithinBuffer
  <2>3. GrantsOnTheirWay' /\ SendsValidToken' /\ OnlyRivalsRefresh'
    BY <1>9 DEF CliWrites, GrantsOnTheirWay, SendsValidToken, OnlyRivalsRefresh, Usable, Refreshing
  <2> QED
    BY <2>1, <2>2, <2>3
<1>10. CASE FileUnreadable
  BY <1>10 DEF FileUnreadable, TypeOK, ExpiryWithinBuffer, GrantsOnTheirWay, SendsValidToken,
               OnlyRivalsRefresh, Usable, Refreshing
<1>11. CASE Restart
  BY <1>11 DEF Restart, TypeOK, ExpiryWithinBuffer, GrantsOnTheirWay, SendsValidToken,
               OnlyRivalsRefresh, Usable, Refreshing
<1>12. CASE Tick
  <2>1. TypeOK' /\ ExpiryWithinBuffer' /\ SendsValidToken'
    BY <1>12 DEF Tick, TypeOK, ExpiryWithinBuffer, SendsValidToken
  <2>2. GrantsOnTheirWay'
    BY <1>12 DEF Tick, TypeOK, GrantsOnTheirWay, Creds
  <2>3. OnlyRivalsRefresh'
    BY <1>12 DEF Tick, TypeOK, OnlyRivalsRefresh, Usable, Refreshing, Creds
  <2> QED
    BY <2>1, <2>2, <2>3
<1>13. CASE UNCHANGED vars
  BY <1>13 DEF vars, TypeOK, ExpiryWithinBuffer, GrantsOnTheirWay, SendsValidToken,
               OnlyRivalsRefresh, Usable, Refreshing
<1> QED
  BY <1>1, <1>2, <1>3, <1>4, <1>5, <1>6, <1>7, <1>8, <1>9, <1>10, <1>11, <1>12, <1>13 DEF Next

LEMMA OAuthSafe == Spec => []OAuthInv
  BY OAuthInit, OAuthStep, PTL DEF Spec

\* The credentials are well formed and believed to expire no more than the
\* latency late, in every state (refreshOAuthToken, readCredentialsFile).
THEOREM CredentialsKept == Spec => []CredsInv
  BY OAuthSafe, PTL DEF OAuthInv

\* Every request leaves with a token the server accepts at that moment, for any
\* number of requests and any buffer that covers the latency (getAccessToken).
THEOREM TokensValid == Spec => []SendsValidToken
  BY OAuthSafe, PTL DEF OAuthInv

\* Good credentials are lost only to a restart or to a request that was already
\* refreshing when they were stored ("refreshed ?? fresh" in getAccessToken).
THEOREM LostOnlyToRivals == Spec => LostToRivalsOnly
<1> DEFINE Lost == Usable(cachedCreds) /\ cachedCreds' # cachedCreds /\ ~Usable(cachedCreds)' =>
                     \/ cachedCreds' = None
                     \/ \E r \in rivals : phase[r] = "refreshing" /\ phase'[r] = "left"
<1>1. OAuthInv /\ [Next]_vars => [Lost]_vars
  <2> SUFFICES ASSUME OAuthInv, [Next]_vars, Usable(cachedCreds), cachedCreds' # cachedCreds
               PROVE  \/ cachedCreds' = None
                      \/ \E r \in rivals : phase[r] = "refreshing" /\ phase'[r] = "left"
    OBVIOUS
  <2>1. ASSUME NEW r \in Requests, NEW creds, NEW refused, EndRefresh(r, creds, refused)
        PROVE  r \in rivals /\ phase[r] = "refreshing" /\ phase'[r] = "left"
    BY <2>1 DEF EndRefresh, OAuthInv, CredsInv, TypeOK, OnlyRivalsRefresh, Refreshing
  <2>2. CASE Restart
    BY <2>2 DEF Restart
  <2>3. CASE \E r \in Requests : Refreshed(r) \/ NotRefreshed(r)
    BY <2>1, <2>3 DEF Refreshed, NotRefreshed
  <2> QED
    BY <2>2, <2>3 DEF Next, vars, Pick, UseCached, UseFile, NoToken, BeginRefresh, Grant,
                      CliWrites, FileUnreadable, Tick
<1> QED
  BY <1>1, OAuthSafe, PTL DEF Spec, LostToRivalsOnly
=============================================================================
