CONSTANTS
    w1 = w1
    w2 = w2
    Writers = {w1, w2}
    MaxOps <- One
    MaxDeltas = 2
    MaxTries = 3
    MaxFaults = 1
SPECIFICATION Spec
INVARIANT CompletedAboveDeltas
CHECK_DEADLOCK FALSE
