CONSTANTS
    Names = {n1, n2}
    MaxPlugins = 2
    MaxFibers = 2
    Allowed = {"ended", "pending", "again", "others", "reload"}
SPECIFICATION FairSpec
INVARIANTS FaultsExplained HandlesResolve AllStarted
PROPERTY LoadingEnds
CHECK_DEADLOCK FALSE
