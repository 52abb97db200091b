\* A breaker fed by claude-code-api and by the router.
SPECIFICATION Spec
CONSTANTS
    p1 = p1
    p2 = p2
    Providers = {p1, p2}
    Cli = {}
    OAuth = {p2}
    NoTraining = {p1}
    Models <- MCModels
    Metas <- MCMetas
    Order <- MCOrder
    Requests = {r1}
    Asks <- PlainAsks
    RetryAfters = {1}
    RouteTimeout = 1
    Strategies = {"round_robin"}
    RrWrap = 2
    FailureThreshold = 2
    SuccessThreshold = 1
    BreakerTimeout = 1
    Window = 2
    MaxRequests = 2
    DefaultCooldown = 2
    KeyCount = 1
    MaxTime = 2
    None = None
PROPERTIES
    TripsOnEnoughFailures
CHECK_DEADLOCK FALSE
