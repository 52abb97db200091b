SPECIFICATION Spec
CONSTANTS
  Window = 2
  MaxRequests = 2
  DefaultCooldown = 3
  None = None
  KeyCount = 2
  Calls = {c1, c2}
  Headers <- MCHeaders
  MinRetry = 1
  MaxRetry = 2
  MaxTime = 3
SYMMETRY Symmetry
INVARIANTS
  KeysInv
  EvenSpread
PROPERTIES
  CooldownOfOwnKey
  HonoursRetryAfter
