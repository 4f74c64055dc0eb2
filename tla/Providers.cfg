CONSTANTS
    MaxRetries = 1
    StreamRetries = 1
    MaxPauses = 1
    MaxChunks = 3
SPECIFICATION CallFairSpec
INVARIANT ShownOnceStoredOnce
INVARIANT ClosedTurnIsSettled
PROPERTY CallEnds
CHECK_DEADLOCK FALSE
