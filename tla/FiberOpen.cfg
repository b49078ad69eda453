CONSTANTS
    MaxFibers = 3
    MaxPending = 1
    MaxDeps = 2
    Api <- OneKindOfRequest
    Disciplined = FALSE
SPECIFICATION Spec
INVARIANTS FaultOnlyAfterBreach IInv
CHECK_DEADLOCK FALSE
