SPECIFICATION Spec
CONSTANTS
    m1 = m1
    m2 = m2
    m3 = m3
    t1 = t1
    t2 = t2
    NoBinding = NoBinding
    Bindings = {m1, m2, m3}
    Cooldown = 1
    RetryAfters = {0, 2}
    DatabaseMayFail = FALSE
    Tasks = {t1, t2}
    BrowserTasks = {t2}
    Pool <- PoolOfTwo
    Ranked = FALSE
    Coordinator = m3
INVARIANTS
    Inv
    ClaimsAccounted
PROPERTIES
    OneLoopPerChild
    RecordedEffectIsFinal
    CancellationIsNeutral
    EvidenceLasts
