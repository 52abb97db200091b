\* A private request for a content that is cached.
SPECIFICATION Spec
CONSTANTS
    c1 = c1
    c2 = c2
    Slots = {s1, s2}
    Contents = {c1, c2}
    Allowed = {c1}
    Providers = {p1, p2}
    NoTraining = {p1}
    Asks <- PrivateAsks
    TokenCounts = {1}
    MaxAnswers = 3
    MaxTime = 2
    Ttl = 1
    MaxEntries = 2
    CapWindow = 2
    RequestCap = None
    TokenCap = None
    ExpiresAt = None
    HourTicks = 2
    WindowHours = 1
    None = None
SYMMETRY Symmetry
INVARIANTS
    CacheHonoursPosture
CHECK_DEADLOCK FALSE
