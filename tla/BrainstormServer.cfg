CONSTANTS
    Servers = {s1, s2}
    Tabs = {t1}
    Files = {f1}
    Showing = {s1}
    WritesMayFail = TRUE
    None = None
SPECIFICATION Spec
INVARIANT Inv
PROPERTIES TabComesBack ClosingExits WrittenIsShown
CHECK_DEADLOCK FALSE
