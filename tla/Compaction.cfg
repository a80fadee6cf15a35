SPECIFICATION FairSpec
CONSTANTS
    MaxVersions = 3
    MaxCalls = 2
    UserWaits = TRUE
INVARIANTS
    Inv
PROPERTIES
    LoadsLatest
    NoSecondRequest
    BlockIsFinal
    CompactionSettles
