\* A request that ends while the connections drain.
SPECIFICATION Spec
CONSTANTS
    MaxLogEntries = 2
    PageLimit = 1
    MaxFlying = 1
    MaxAdded = 4
    MaxBoots = 2
PROPERTIES
    ExitLosesNothing
CHECK_DEADLOCK FALSE
