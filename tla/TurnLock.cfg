CONSTANTS
    t1 = t1
    t2 = t2
    t3 = t3
    c1 = c1
    c2 = c2
    u1 = u1
    NoTurn = NoTurn
    Turns <- MCTurns
    Convs <- MCConvs
    Users <- MCUsers
    ConvOf <- MCConvOf
    OwnerOf <- MCOwnerOf
    TTL = 2
SPECIFICATION FairSpec
INVARIANT MutualExclusion
INVARIANT ListedWhileRunning
PROPERTY EventuallyUnlocked
PROPERTY StaleListingDropped
CHECK_DEADLOCK FALSE
