SPECIFICATION Spec
CONSTANTS
    b1 = b1
    b2 = b2
    Bindings = {b1, b2}
    Priced = {b1, b2}
    Seeded = {b1}
    NoRow = NoRow
    Calls = {c1, c2}
    Names = {go, team}
    Go = go
    Configs <- OneOrAuto
    AutoPool = AutoPool
    NoConfig = NoConfig
    Policies = {quality, cost}
    NoPolicy = NoPolicy
    Offers <- BothOrFirst
    NoInventory = NoInventory
    MaxChanges = 4
SYMMETRY Swap
INVARIANTS
    Inv
PROPERTIES
    StraysOnlyIfOvertaken
    GoIsChecked
    LearnedIsKept
CHECK_DEADLOCK FALSE
