SPECIFICATION Spec
CONSTANTS
    b1 = b1
    b2 = b2
    Bindings = {b1, b2}
    NoBinding = NoBinding
    Cooldown = 1
    RetryAfters = {0}
    DatabaseMayFail = FALSE
    Sessions = {s1, s2}
    NoSession = NoSession
    Calls = {c1, c2}
    Faults = {misplacedTarget, misplacedBrowser}
    Repairable = {misplacedTarget}
    NoFault = NoFault
    RepairAfter = 3
    BrowserTasks = {k1}
    UtilityModels <- TwoModels
    ResultsKept = 2
    MaxStarted = 4
    MaxChildren = 3
SYMMETRY Swap
INVARIANTS
    Inv
    CompactsAlone
PROPERTIES
    ScoredOnce
    CancelledIsNeutral
CHECK_DEADLOCK FALSE
