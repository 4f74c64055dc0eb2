CONSTANTS
    plain = plain
    inner = inner
    c1 = c1
    c2 = c2
    Turns = {plain, inner}
    Cases <- One
    Tagged = {inner}
    Clients = {c1, c2}
    Readers = {c1}
    FetchModes = {"since"}
    MaxChunks <- Short
SPECIFICATION Spec
PROPERTY SinceBackfillCompletes
CHECK_DEADLOCK FALSE
