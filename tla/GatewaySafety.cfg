\* Two ordinary providers with two keys each, breakers that need two failures,
\* both strategies, two requests of every kind.
SPECIFICATION Spec
CONSTANTS
    p1 = p1
    p2 = p2
    Providers = {p1, p2}
    Cli = {}
    OAuth = {}
    NoTraining = {p1}
    Models <- MCModels
    Metas <- MCMetas
    Order <- MCOrder
    Requests = {r1, r2}
    Asks <- AllAsks
    RetryAfters = {}
    RouteTimeout = 0
    Strategies = {"round_robin", "random"}
    RrWrap = 2
    FailureThreshold = 2
    SuccessThreshold = 1
    BreakerTimeout = 1
    Window = 2
    MaxRequests = 1
    DefaultCooldown = 1
    KeyCount = 2
    MaxTime = 1
    None = None
SYMMETRY Symmetry
INVARIANTS
    GatewayInv
    HonoursRequest
PROPERTIES
    TripsOnEnoughFailures
    GivesUpForCause
CHECK_DEADLOCK FALSE
