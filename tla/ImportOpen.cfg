CONSTANTS
    Entities = {e1, e2}
    None = None
    MaxFibers = 4
SPECIFICATION FairSpec
INVARIANTS FaultOnlyAfterBreach RunsOnce ImportersWait
PROPERTY EndIsReached
CHECK_DEADLOCK FALSE
