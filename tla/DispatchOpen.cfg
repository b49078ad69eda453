CONSTANTS
    Controllers = {c1, c2}
    MethodNames = {n1, n2}
    NoName = NoName
    AtomCount = 4
    MaxGiven = 5
SPECIFICATION DispatchSpec
INVARIANT DInv
PROPERTY CallsByName
CHECK_DEADLOCK FALSE
