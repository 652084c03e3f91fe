SPECIFICATION Spec
CONSTANTS
    Workers = {w1}
    MainThread = main
    Keys = {k1}
    Values = {v1}
    Objects = {o1}
    ConcRequests <- Searches
    SeqRequests <- Deletes
    DelKeys <- NoKeys
    Malformed = malformed
    Foreign = foreign
    None = none
INVARIANT NoUseAfterFree
