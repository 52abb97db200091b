\* The contract, with a provider of each claude kind and streaming.
SPECIFICATION FairSpec
CONSTANTS
    p1 = p1
    p2 = p2
    Providers = {p1, p2}
    Cli = {p1}
    OAuth = {p2}
    NoTraining = {p1}
    Models <- MCModels
    Metas <- MCMetas
    Order <- MCOrder
    Requests = {r1, r2}
    Asks <- ContractAsks
    RetryAfters = {1}
    RouteTimeout = 1
    Strategies = {"round_robin"}
    RrWrap = 2
    FailureThreshold = 1
    SuccessThreshold = 1
    BreakerTimeout = 1
    Window = 2
    MaxRequests = 2
    DefaultCooldown = 2
    KeyCount = 1
    MaxTime = 2
    None = None
PROPERTIES
    SendsWhenAllowed
    KeepsContract
CHECK_DEADLOCK FALSE
