------------------------------- MODULE Access -------------------------------
(***************************************************************************)
(* Who a request is from and what that lets it do: the middleware of       *)
(* app.ts in its order, auth.ts, identifier-limit.ts and admin-auth.ts, in *)
(* front of the routes, with the credentials the gateway itself hands out, *)
(* browser tokens (gateway/browser-token.ts) and dashboard sessions        *)
(* (auth/session.ts).  Both are signed and not stored: they outlive the    *)
(* process that signed them, and a restart may bring another environment.  *)
(* A signature is represented by the secret it was made with.              *)
(***************************************************************************)
EXTENDS IdentifierLimiter, JavaScript, SequencesExt

CONSTANTS Environments,  \* process.env at each start of the gateway
          ShortSecrets,  \* the secrets of fewer than MIN_SECRET_BYTES
          Calls,         \* the requests clients make
          Blank,         \* an identifier that is there but says "undefined" or "null"
          MaxTtl,        \* MAX_TTL_SECONDS, in ticks
          SessionLife,   \* SESSION_TTL_SECONDS, in ticks
          MaxRestarts    \* bound: starts after the first

ASSUME AccessAssumption ==
    /\ MaxTtl \in Nat \ {0} /\ SessionLife \in Nat \ {0} /\ MaxRestarts \in Nat
    /\ None \notin Identifiers /\ Blank \notin Identifiers \cup {None}
    /\ \A e \in Environments :
          DOMAIN e = {"master", "admin", "file", "tokenSecret", "password", "sessionSecret"}
    /\ \A c \in Calls :
          /\ DOMAIN c = {"route", "cred", "origin", "header", "ip", "ask"}
          /\ c.route \in {"chat", "issue", "admin", "login"}
          /\ c.header \in Identifiers \cup {None, Blank} /\ c.ip \in Identifiers
          /\ c.route = "issue" => /\ c.ask.ttl \in (1 .. MaxTtl) \cup {None}
                                  /\ c.ask.identifier \in Identifiers \cup {None, Blank}

VARIABLES env,       \* process.env, and the file it names for virtual keys
          restarts,  \* how often the process was started again
          tokens,    \* the browser tokens clients hold
          sessions,  \* the session cookies clients hold
          callers    \* history: who made each request of history, and for what

accessVars == <<env, restarts, tokens, sessions, callers>>

\* loadVirtualKeysFromEnv(): the keys of the file, which may not be readable,
\* valid JSON or of the schema, and may name a key twice.
Loadable(file) == file = None \/ (file.valid /\ IsInjective(file.ids))
LoadedKeys(file) == IF file = None THEN {} ELSE ToSet(file.ids)

\* server.ts refuses to start with a short token secret or a bad file.
Boots(e) == e.tokenSecret \notin ShortSecrets /\ Loadable(e.file)

\* getVirtualKeyStore(): the file is read at boot and never again.
VirtualKeyStore == LoadedKeys(env.file)

AccessInit == /\ Init
              /\ env \in {e \in Environments : Boots(e)}
              /\ restarts = 0 /\ tokens = {} /\ sessions = {} /\ callers = <<>>

-----------------------------------------------------------------------------
(* Credentials *)

OpenGateway == env.master = None /\ env.admin = None /\ VirtualKeyStore = {}

TokensEnabled == env.tokenSecret # None

VerifyBrowserToken(t, origin) ==
    TokensEnabled /\ t.secret = env.tokenSecret /\ now < t.exp /\ origin = t.origin

\* getSecret() of session.ts
SigningSecret == IF env.sessionSecret # None THEN env.sessionSecret ELSE env.password

\* signSession(), for the i-th request
SignedSession(i) == [secret |-> SigningSecret, exp |-> now + SessionLife, by |-> i]

VerifySession(s) == s.secret = SigningSecret /\ now < s.exp

\* What a client presents: a fixed key, or one of the credentials it was handed.
Presented(c) ==
    CASE c.cred = "token"  -> tokens
      [] c.cred = "cookie" -> sessions
      [] OTHER             -> {c.cred}

\* The ways auth() lets a request through, each with its evidence.
Auth(by, cred, c) ==
    \/ by = "exempt" /\ c.route = "login"
    \/ by = "open" /\ c.route # "login" /\ OpenGateway
    \/ /\ c.route # "login" /\ ~OpenGateway /\ cred # None
       /\ \/ by = "session" /\ c.cred = "cookie" /\ VerifySession(cred)
          \/ by = "master" /\ cred = env.master
          \/ by = "admin" /\ cred = env.admin /\ cred # env.master
          \/ by = "virtual" /\ cred \in VirtualKeyStore
          \/ by = "token" /\ c.cred = "token" /\ VerifyBrowserToken(cred, c.origin)

Authorities == {"exempt", "open", "session", "master", "admin", "virtual", "token"}

\* Mutant: only a virtual key's own bearer is held to its caps.
KeyOfBearer(by, cred) == IF by = "virtual" THEN cred ELSE None

\* req.virtualKey: a token brings the key it was minted with, if it is loaded.
VirtualKeyOf(by, cred) ==
    CASE by = "virtual" -> cred
      [] by = "token"   -> IF cred.vk \in VirtualKeyStore THEN cred.vk ELSE None
      [] OTHER          -> None

\* Mutant: the token's identifier is not put on the request.
HeaderOrIp(c, by, cred) == IF c.header \in {None, Blank} THEN c.ip ELSE c.header

\* auth.ts puts the token's identifier where the client sent no header.
Hinted(c, by, cred) == IF by = "token" /\ c.header = None THEN cred.identifier ELSE c.header

\* The bucket: identifier-limit.ts goes by the address where there is no header and
\* where it is blank, so that a client's blank header keeps the token's from both.
IdentifierOf(c, by, cred) ==
    LET header == Hinted(c, by, cred)
    IN  IF header \in {None, Blank} THEN c.ip ELSE header

\* The middleware: refused requests leave no trace before the limiter.
Enter(c, by, cred, does) ==
    /\ Auth(by, cred, c)
    /\ CheckAndRecord(IdentifierOf(c, by, cred))
    /\ callers' = Append(callers,
          [own |-> c.header # None, by |-> by, cred |-> cred, vk |-> VirtualKeyOf(by, cred),
           done |-> Last(history').allowed /\ does])

-----------------------------------------------------------------------------
(* Routes *)

\* A completion: Completion models what it does under req.virtualKey.
Chat(c) ==
    /\ c.route = "chat"
    /\ \E by \in Authorities, cred \in Presented(c) : Enter(c, by, cred, TRUE)
    /\ UNCHANGED <<env, restarts, tokens, sessions>>

\* Mutant: a token that is about to expire can be exchanged for another.
MayIssueAnyway(by) == TokensEnabled

MayIssue(by) == by # "token" /\ TokensEnabled

\* signBrowserToken()
Signed(ask, vk, i) ==
    [secret |-> env.tokenSecret, origin |-> ask.origin, identifier |-> ask.identifier,
     vk |-> vk, exp |-> now + (IF ask.ttl = None THEN MaxTtl ELSE ask.ttl), by |-> i]

\* POST /v1/tokens/issue
Issue(c) ==
    /\ c.route = "issue"
    /\ \E by \in Authorities, cred \in Presented(c) :
          /\ Enter(c, by, cred, MayIssue(by))
          /\ tokens' = tokens \cup
               (IF Last(callers').done
                THEN {Signed(c.ask, VirtualKeyOf(by, cred), Len(callers'))} ELSE {})
    /\ UNCHANGED <<env, restarts, sessions>>

\* adminAuth(), behind auth(): without an admin key there is nothing to add.
AdminAuth(c, cred) ==
    \/ env.admin = None
    \/ c.cred = "cookie" /\ VerifySession(cred)
    \/ cred = env.admin

\* The operations of status.ts that AdminAuth guards: see Gateway.
AdminRoute(c) ==
    /\ c.route = "admin"
    /\ \E by \in Authorities, cred \in Presented(c) : Enter(c, by, cred, AdminAuth(c, cred))
    /\ UNCHANGED <<env, restarts, tokens, sessions>>

LoginPassword == IF env.password # None THEN env.password ELSE env.admin

\* POST /auth/login: "ok" too when there is no password to check or no secret to
\* sign with, but then without a session.
Login(c) ==
    /\ c.route = "login"
    /\ Enter(c, "exempt", c.cred, c.cred = LoginPassword)
    /\ sessions' = sessions \cup
         (IF Last(callers').done /\ LoginPassword # None /\ SigningSecret # None
          THEN {SignedSession(Len(callers'))} ELSE {})
    /\ UNCHANGED <<env, restarts, tokens>>

\* The process is started again: the limiter begins anew, credentials persist.
Restart ==
    /\ restarts < MaxRestarts
    /\ restarts' = restarts + 1
    /\ env' \in {e \in Environments : Boots(e)}
    /\ buckets' = NoBuckets
    /\ evicted' = evicted \cup Tracked(buckets)
    /\ UNCHANGED <<now, history, tokens, sessions, callers>>

AccessNext ==
    \/ \E c \in Calls : Chat(c) \/ Issue(c) \/ AdminRoute(c) \/ Login(c)
    \/ Restart
    \/ Tick /\ UNCHANGED accessVars

AccessSpec == AccessInit /\ [][AccessNext]_<<vars, accessVars>>
-----------------------------------------------------------------------------
\* Whoever gets in with something the gateway handed out was vouched for a short
\* while ago: a token by a request of a holder of a key (or of a session) less than
\* MaxTtl before, a session by the password less than SessionLife before, across
\* restarts and however credentials are passed on (verifyBrowserToken,
\* verifySession, POST /v1/tokens/issue).
FreshlyVouched ==
    \A i \in DOMAIN callers :
       LET c == callers[i]
           j == c.cred.by
           Vouched(authorities, life) ==
              /\ j \in 1 .. i - 1 /\ callers[j].by \in authorities /\ callers[j].done
              /\ history[i].at - history[j].at < life
       IN  /\ c.by = "token" => Vouched({"open", "session", "master", "admin", "virtual"}, MaxTtl)
           /\ c.by = "session" => Vouched({"exempt"}, SessionLife)

\* A request with a token is held to the caps of the virtual key that minted the
\* token, whatever happened between, so long as that key is loaded
\* (auth.ts, "hydrate req.virtualKey so the chat route enforces its caps").
HeldToTheKey ==
    [][Len(callers') > Len(callers) =>
         LET c == Last(callers')
         IN  c.by = "token" =>
               LET minter == callers[c.cred.by].vk
               IN  c.vk = IF minter \in VirtualKeyStore THEN minter ELSE None]_<<vars, accessVars>>

\* What is sent with a token and without an identifier header, from any address and by
\* whomever, shares one budget: Limit requests in any window for the identifier the
\* token was issued for, unless its bucket was lost to eviction or a restart.  A header
\* of the client's own, blank or not, takes a request out of that budget, and a token
\* issued for a blank identifier has none (auth.ts and identifier-limit.ts together).
TokenQuota ==
    \A t \in tokens, s \in 0 .. now :
       t.identifier \in Identifiers \ evicted =>
         Cardinality({i \in DOMAIN callers :
            /\ callers[i].cred = t /\ callers[i].by = "token"
            /\ ~callers[i].own
            /\ history[i].allowed
            /\ history[i].at <= s /\ s - history[i].at < WindowTicks}) <= Limit
=============================================================================
