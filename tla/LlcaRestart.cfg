SPECIFICATION Spec
CONSTANTS
    Values = {1, 2, 3}
    MaxLen = 4
    ObjSize = 16
    NodeSize = 16
    NoImage = noimage
CHECK_DEADLOCK FALSE
INVARIANTS
    TypeOK
    CountDrift
    LoadRebuilds
    CleanSaveRestarts
