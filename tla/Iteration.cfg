CONSTANTS
    own = own
    before = before
    after = after
    trigger = trigger
    NoId = NoId
    Junk = Junk
    Ids = {1, 2, 3}
    Payloads = {1, 2, 3, 4, 5, 6}
    Explicit <- ExplicitOf
    Hash <- HashOf
    Malformed = {6}
    Unmapped = {5}
    Known = {4}
    Calls <- Batches
    Configs <- AllConfigs
    DEFAULT_MAX_ITERATIONS = 2
    ITERATION_HARD_CEILING = 3
    DEFAULT_ITERATION_CONCURRENCY = 2
    ConcurrencyMax = 2
    NodeOrder <- Order
    Own = own
    AgentNodes = {before, own, after}
    MaxCalls = 2
    MaxTroubles = 2
SPECIFICATION FairSpec
INVARIANT StoredAsChecked
INVARIANT NoRecordLost
INVARIANT StartedIsClosed
INVARIANT NoOrphanIteration
PROPERTY NodeEnds
CHECK_DEADLOCK FALSE
