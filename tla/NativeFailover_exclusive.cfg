SPECIFICATION Spec
CONSTANTS
    m1 = m1
    m2 = m2
    NoBinding = NoBinding
    Bindings = {m1, m2}
    Cooldown = 1
    RetryAfters = {0}
    DatabaseMayFail = FALSE
    Sessions = {s1, s2, s3}
    NativePool <- PoolOfTwo
    MaxUndelivered = 1
    Modes <- RankedReported
INVARIANTS
    ClaimsExclusive
