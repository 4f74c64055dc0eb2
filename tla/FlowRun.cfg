CONSTANTS
    a = a
    b = b
    c = c
    k1 = k1
    k2 = k2
    NoState = NoState
    Nodes = {a, b, c}
    Entry = a
    Definitions <- MCDefinitions
    Tasks = {k1, k2}
    Trigger = k1
    MaxFaults = 1
    MaxAborts = 1
SPECIFICATION FairSpec
INVARIANT RunningIsDrivenUnlessLost
INVARIANT CompletedCoversAPath
INVARIANT SnapshotNotBehindRow
PROPERTY RunningEnds
