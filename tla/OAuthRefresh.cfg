\* Two requests, an authorization server that rotates refresh tokens, and a CLI
\* that logs in while they refresh.
SPECIFICATION Spec
CONSTANTS
    None = None
    Requests = {a, b}
    Buffer = 1
    Lifetime = 3
    MaxLatency = 1
    Rotates = TRUE
    MaxGrants = 4
    MaxTime = 6
SYMMETRY Symmetry
INVARIANTS
    CredsInv
    SendsValidToken
PROPERTIES
    LostToRivalsOnly
