\* A log of three entries, pages of two, five entries, three starts.
SPECIFICATION Spec
CONSTANTS
    MaxLogEntries = 3
    PageLimit = 2
    MaxFlying = 2
    MaxAdded = 5
    MaxBoots = 3
INVARIANTS
    LogInv
    PagesFaithful
PROPERTIES
    LosesOldest
CHECK_DEADLOCK FALSE
