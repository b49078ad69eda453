CONSTANTS
    MaxFibers = 3
    MaxPending = 2
    MaxDeps = 3
    Api <- AllCalls
    Disciplined = TRUE
SPECIFICATION FairSpec
PROPERTIES RequestsAnswered DependantsContinued KeepsPromise
CHECK_DEADLOCK FALSE
