\* Four environments to restart into, tokens and sessions passed on between two
\* addresses, and a limiter with room for two of three identifiers.
SPECIFICATION AccessSpec
CONSTANTS
    None = None
    Blank = Blank
    m = m
    a = a
    k = k
    s = s
    short = short
    p = p
    user = user
    here = here
    there = there
    Identifiers = {user, here, there}
    Limit = 1
    WindowTicks = 2
    MaxBuckets = 2
    MaxRequests = 4
    MaxTime = 2
    MaxTtl = 2
    SessionLife = 2
    MaxRestarts = 1
    ShortSecrets = {short}
    Environments <- MCEnvironments
    Calls <- MCCalls
INVARIANTS
    LimiterInv
    RejectedForCause
    ResetIsHonest
    FreshlyVouched
    TokenQuota
PROPERTIES
    HeldToTheKey
CHECK_DEADLOCK FALSE
