SPECIFICATION Spec
CONSTANTS
    Workers = {w1}
    Nodes = {n1, n2, n3}
    Values = {1, 2}
    Requests <- AllRequests
    MaxLen = 4
    Null = null
SYMMETRY Symmetry
INVARIANTS
    TypeOK
    ForkSeesSortedList
    NoNodeLost
    OnLiveNodes
    SaveFaithful
PROPERTY ImplementsBag
