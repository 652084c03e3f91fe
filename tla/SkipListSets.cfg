SPECIFICATION FairSpec
CONSTANTS
    Workers = {w1, w2}
    MainThread = main
    Keys = {k1, k2}
    Values = {v1}
    Objects = {o1, o2}
    ConcRequests <- LifeCycle
    SeqRequests <- Everything
    DelKeys <- Keys
    Malformed = malformed
    Foreign = foreign
    None = none
INVARIANTS
    TypeOK
    KeysHoldLive
    ObjectsOwned
    HandlesHeld
    NoUseAfterFree
    KeyspaceExclusive
PROPERTIES
    ImplementsKeyedSets
    EveryCommandReturns
