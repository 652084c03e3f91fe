SPECIFICATION FairSpec
CONSTANTS
    Workers = {w1, w2, w3}
    MainThread = main
    None = none
    MaxQueued = 2
INVARIANTS
    TypeOK
    RefusedLeavesNothing
    OneQueue
    CollectorInUse
PROPERTY WorkersReachQueue
CHECK_DEADLOCK FALSE
