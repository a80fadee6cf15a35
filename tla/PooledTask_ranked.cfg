SPECIFICATION FairSpec
CONSTANTS
    m1 = m1
    m2 = m2
    m3 = m3
    t1 = t1
    t2 = t2
    NoBinding = NoBinding
    Bindings = {m1, m2, m3}
    Cooldown = 1
    RetryAfters = {0}
    DatabaseMayFail = TRUE
    Tasks = {t1}
    BrowserTasks = {}
    Pool <- PoolOfThree
    Ranked = TRUE
    Coordinator = m2
PROPERTIES
    NoBindingTwice
    CancelledTaskEnds
