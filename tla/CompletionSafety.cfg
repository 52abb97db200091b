\* A virtual key with both caps and an expiry, a cache with room for one content,
\* two requests in flight.
SPECIFICATION Spec
CONSTANTS
    c1 = c1
    c2 = c2
    Slots = {s1, s2}
    Contents = {c1, c2}
    Allowed = {c1, c2}
    Providers = {p1}
    NoTraining = {p1}
    Asks <- MixedAsks
    TokenCounts = {1}
    MaxAnswers = 4
    MaxTime = 3
    Ttl = 1
    MaxEntries = 1
    CapWindow = 2
    RequestCap = 2
    TokenCap = 1
    ExpiresAt = 2
    HourTicks = 1
    WindowHours = 2
    None = None
SYMMETRY Symmetry
INVARIANTS
    BooksInv
    SoftCap
    CachedAnswers
    LatestAnswer
PROPERTIES
    RefusedForCause
CHECK_DEADLOCK FALSE
