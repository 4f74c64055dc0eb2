CONSTANTS
    a = a
    b = b
    c = c
    k1 = k1
    k2 = k2
    NoState = NoState
    Nodes = {a, b, c}
    Entry = a
    Definitions <- OneLine
    Tasks = {k1}
    Trigger = k1
    MaxFaults = 0
    MaxAborts = 0
SPECIFICATION AnsweredSpec
PROPERTY AnsweredRunFinishes
