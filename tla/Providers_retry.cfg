CONSTANTS
    MaxRetries = 1
    StreamRetries = 1
    MaxPauses = 1
    MaxChunks = 3
CHECK_DEADLOCK FALSE
SPECIFICATION CallSpec
INVARIANT RetriedDropKeepsNoPartial
