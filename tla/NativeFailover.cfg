SPECIFICATION FairSpec
CONSTANTS
    m1 = m1
    m2 = m2
    NoBinding = NoBinding
    Bindings = {m1, m2}
    Cooldown = 1
    RetryAfters = {0}
    DatabaseMayFail = FALSE
    Sessions = {s1, s2}
    NativePool <- PoolOfTwo
    MaxUndelivered = 1
    Modes <- RankedOrOrdered
INVARIANTS
    Inv
PROPERTIES
    ClaimKeptWhileRunning
    OneLoopPerSession
    NeverRetried
    SwitchEnds
