SPECIFICATION FairSpec
CONSTANTS
    c1 = c1
    c2 = c2
    k1 = k1
    k2 = k2
    v1 = v1
    v2 = v2
    Callers = {c1, c2}
    TaskIds = {k1, k2}
    Criteria = {v1, v2}
    Nobody = Nobody
    Lost = Lost
    NoTask = NoTask
INVARIANTS
    Inv
PROPERTIES
    StoreKeeps
    AbandonedLockSafe
    ImplementsLogicalTasks
