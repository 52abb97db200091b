------------------------------ MODULE MCAccess ------------------------------
EXTENDS Access, TLC

CONSTANTS m, a, k, s, short, p,      \* keys, secrets and the password
          user, here, there          \* an identifier and two addresses

Env(master, admin, file, tokenSecret, password) ==
    [master |-> master, admin |-> admin, file |-> file, tokenSecret |-> tokenSecret,
     password |-> password, sessionSecret |-> None]

File(ids) == [valid |-> TRUE, ids |-> ids]

\* All that can be configured; the virtual keys' file and the admin key gone; the
\* gateway opened; and what it does not start with.
MCEnvironments == {Env(m, a, File(<<k>>), s, p), Env(None, None, None, s, None),
                   Env(m, None, None, s, p), Env(m, a, File(<<k>>), short, p),
                   Env(m, a, File(<<k, k>>), s, p), Env(m, a, [valid |-> FALSE, ids |-> <<>>], s, p)}

Call(route, cred, header, ip, ask) ==
    [route |-> route, cred |-> cred, origin |-> "o", header |-> header, ip |-> ip, ask |-> ask]
AskFor(identifier, ttl) == [origin |-> "o", identifier |-> identifier, ttl |-> ttl]

MCCalls == {Call("issue", m, None, here, AskFor(user, None)),
            Call("issue", k, None, here, AskFor(user, 1)),
            Call("issue", "token", None, there, AskFor(None, None)),
            Call("issue", "cookie", None, here, AskFor(Blank, None)),
            Call("chat", "token", None, here, None),
            Call("chat", "token", None, there, None),
            Call("chat", "token", there, here, None),
            Call("chat", "token", Blank, here, None),
            Call("login", p, None, there, None),
            Call("admin", "cookie", None, here, None)}
=============================================================================
