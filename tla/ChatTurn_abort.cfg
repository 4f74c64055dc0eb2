CONSTANTS
    r1 = r1
    r2 = r2
    c1 = c1
    c2 = c2
    c3 = c3
    c4 = c4
    NoReq = NoReq
    Ghost = Ghost
    Requests = {r1}
    Calls = {c1, c2, c3, c4}
    Gated = {c1, c2}
    Plans = {{c1, c2, c3}, {c3}, {c4}}
    MaxIters = 2
    MaxHops = 1
    MaxSends = 2
    MaxUpsets = 1
SPECIFICATION Spec
INVARIANT IdleAbortIsANoOp
CHECK_DEADLOCK FALSE
