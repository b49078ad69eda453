CONSTANTS
    Asyncs = {a1}
    Delays = {d1}
    Works = {w1}
    None = None
    MaxSends = 2
    Orderly = TRUE
SPECIFICATION FairSpec
PROPERTY AcceptedIsDelivered
CHECK_DEADLOCK FALSE
