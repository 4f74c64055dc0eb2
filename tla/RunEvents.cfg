CONSTANTS
    w1 = w1
    w2 = w2
    Writers = {w1, w2}
    MaxOps <- TwoThenOne
    MaxDeltas = 1
    MaxTries = 3
    MaxFaults = 2
SPECIFICATION Spec
INVARIANT EventsInProgramOrder
INVARIANT RetriesPaidForByRivals
INVARIANT AloneCompletedAboveDeltas
PROPERTY MarkFallsOnlyUnannounced
CHECK_DEADLOCK FALSE
