\* Three callers; any outcome may come late.
SPECIFICATION FairSpec
CONSTANTS
  FailureThreshold = 2
  SuccessThreshold = 2
  BreakerTimeout = 2
  None = None
  Callers = {c1, c2, c3}
  Horizon = 3
  MaxTime = 5
INVARIANT BreakerInv
PROPERTIES
  OpenIsQuiet
  TripsAfterStreak
  ClosesAfterStreak
  ImplementsTimedBreaker
  Recovers
