SPECIFICATION Spec
CONSTANT MaxPieces = 5
INVARIANTS
    AcceptedIsOneQuery
    RefusedForACause
CHECK_DEADLOCK FALSE
