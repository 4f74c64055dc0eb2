CONSTANTS
    own = own
    before = before
    after = after
    trigger = trigger
    NoId = NoId
    Junk = Junk
    Ids = {1, 2, 3}
    Payloads = {1, 2, 3, 4, 5, 6}
    Explicit <- ExplicitOf
    Hash <- HashOf
    Malformed = {6}
    Unmapped = {5}
    Known = {4}
    Calls <- Full
    Configs <- Continue
    DEFAULT_MAX_ITERATIONS = 2
    ITERATION_HARD_CEILING = 3
    DEFAULT_ITERATION_CONCURRENCY = 2
    ConcurrencyMax = 2
    NodeOrder <- Order
    Own = own
    AgentNodes = {before, own, after}
    MaxCalls = 1
    MaxTroubles = 1
SPECIFICATION FairSpec
PROPERTY AbortCancelsSiblings
CHECK_DEADLOCK FALSE
