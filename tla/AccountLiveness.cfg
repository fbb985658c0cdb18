SPECIFICATION LiveSpec
CONSTANTS
    Operations = {o1, o2}
    NoOperation = none
    Handlers = {h1, h2}
    Free = free
    MaxTokens = 2
    MaxCrashes = 1
    MaxFaults = 0
    MaxToggles = 0
PROPERTIES
    ErrorIsTrue
    StartupSettles
    HandlersEnd
CHECK_DEADLOCK FALSE
