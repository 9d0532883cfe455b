\* One stop of the process is enough.
CONSTANTS
    LastNs = 2
    MaxPerNs = 3
    PageLimit = 2
    FallbackLimit = 1
    ServerLimit = 2
    MaxTroubles = 1
SPECIFICATION Spec
INVARIANT CancelledIsFailed
CHECK_DEADLOCK FALSE
