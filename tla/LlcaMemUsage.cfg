SPECIFICATION Spec
CONSTANTS
    Values = {1, 2}
    MaxLen = 3
    ObjSize = 16
    NodeSize = 16
    NoImage = noimage
CHECK_DEADLOCK FALSE
INVARIANT MemUsageExact
