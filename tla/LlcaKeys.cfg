SPECIFICATION SerialSpec
CONSTANTS
    Workers = {w1, w2}
    MainThread = main
    Keys = {k1, k2}
    Values = {v1}
    Objects = {o1, o2, o3}
    Requests <- Changes
    MainKeys <- Keys
    MaxCopies = 3
    WrongArity = wrongarity
    NotInteger = notinteger
    Foreign = foreign
    Dangling = dangling
    None = none
SYMMETRY Symmetry
INVARIANTS
    TypeOK
    KeysHoldLive
    ObjectsOwned
