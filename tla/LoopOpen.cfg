CONSTANTS
    Asyncs = {a1}
    Delays = {d1}
    Works = {w1, w2}
    None = None
    MaxSends = 2
    Orderly = FALSE
SPECIFICATION Spec
INVARIANTS MisuseOnlyAfterBreach OneReplyEach ShutdownClears
PROPERTY KilledStaysSilent
CHECK_DEADLOCK FALSE
