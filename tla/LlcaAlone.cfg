SPECIFICATION Spec
CONSTANTS
    Workers = {w1}
    MainThread = main
    Keys = {k1, k2}
    Values = {v1, v2}
    Objects = {o1, o2}
    Requests <- AllRequests
    MainKeys <- NoKeys
    MaxCopies = 2
    WrongArity = wrongarity
    NotInteger = notinteger
    Foreign = foreign
    Dangling = dangling
    None = none
PROPERTY ImplementsKeyedBags
