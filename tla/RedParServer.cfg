SPECIFICATION Spec
CONSTANTS
    Clients = {c1, c2}
    Events = {e1, e2, e3}
    Workers = {w1}
    MainThread = main
    None = none
    Keys = {k1}
    Values = {v1}
    Objects = {o1, o2, o3}
    ConcRequests <- LifeCycle
    SeqRequests <- Everything
    DelKeys <- Keys
    Malformed = malformed
    Foreign = foreign
INVARIANT ExecuteGoesOn
PROPERTIES
    ImplementsQueue
    ImplementsCommands
    ImplementsKeyedSets
SYMMETRY Symmetry
