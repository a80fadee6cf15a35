SPECIFICATION Spec
CONSTANTS
    MaxVersions = 3
    MaxCalls = 2
    UserWaits = FALSE
PROPERTIES
    LoadsLatest
