SPECIFICATION Spec
CONSTANTS
    Operations = {o1, o2}
    NoOperation = none
    Handlers = {h1}
    Free = free
    MaxTokens = 2
    MaxCrashes = 0
    MaxFaults = 0
    MaxToggles = 1
SYMMETRY Symmetry
INVARIANTS
    RejectedRefreshAllowsLogout
CHECK_DEADLOCK FALSE
