SPECIFICATION FairSpec
CONSTANTS
    b1 = b1
    b2 = b2
    Calls = {b1, b2}
    None = None
    MaxSessions = 1
INVARIANTS
    Inv
    LimitKept
    CleanedUp
PROPERTIES
    ResumedIsSound
    CancelledInTime
    EverythingEnds
CHECK_DEADLOCK FALSE
