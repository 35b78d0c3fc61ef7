SPECIFICATION Spec
CONSTANT MaxPieces = 5
INVARIANT
    AcceptedIsOneRead
CHECK_DEADLOCK FALSE
