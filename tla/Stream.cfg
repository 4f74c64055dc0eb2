CONSTANTS
    plain = plain
    inner = inner
    c1 = c1
    c2 = c2
    Turns = {plain, inner}
    Cases <- Both
    Tagged = {inner}
    Clients = {c1, c2}
    Readers = {c1}
    FetchModes = {"full"}
    MaxChunks <- Short
SPECIFICATION FairSpec
INVARIANT BackfilledViewHasNoHole
PROPERTY ClosingEventArrives
PROPERTY FeedSpec
CHECK_DEADLOCK FALSE
