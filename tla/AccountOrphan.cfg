SPECIFICATION Spec
CONSTANTS
    Operations = {o1}
    NoOperation = none
    Handlers = {h1}
    Free = free
    MaxTokens = 2
    MaxCrashes = 0
    MaxFaults = 2
    MaxToggles = 0
SYMMETRY Symmetry
INVARIANTS
    UnknownInstallStaysUnknown
CHECK_DEADLOCK FALSE
