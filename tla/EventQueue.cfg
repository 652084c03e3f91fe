SPECIFICATION FairSpec
CONSTANTS
    Clients = {c1, c2}
    Events = {e1, e2, e3}
    Workers = {w1, w2}
    MainThread = main
    None = none
INVARIANTS
    TypeOK
    RefsExact
    NoUseAfterDestroy
    ArgumentsHeld
    ReleasedOnlyAnswered
    NoLockCycle
PROPERTIES
    ImplementsService
    BlockedClientReturns
