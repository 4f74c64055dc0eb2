CONSTANTS
    w1 = w1
    w2 = w2
    Writers = {w1, w2}
    MaxOps <- TwoThenOne
    MaxDeltas = 1
    MaxTries = 3
    MaxFaults = 1
SPECIFICATION Spec
PROPERTY EachSetRaisesMark
CHECK_DEADLOCK FALSE
