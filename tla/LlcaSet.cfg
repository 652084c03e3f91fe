SPECIFICATION Spec
CONSTANTS
    Workers = {w1, w2}
    MainThread = main
    Keys = {k1}
    Values = {v1}
    Objects = {o1, o2}
    Requests <- Changes
    MainKeys <- Keys
    MaxCopies = 3
    WrongArity = wrongarity
    NotInteger = notinteger
    Foreign = foreign
    Dangling = dangling
    None = none
INVARIANT KeyspaceExclusive
