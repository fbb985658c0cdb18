SPECIFICATION Spec
CONSTANTS
    Operations = {o1, o2, o3}
    NoOperation = none
    Handlers = {h1}
    Free = free
    MaxTokens = 3
    MaxCrashes = 1
    MaxFaults = 1
    MaxToggles = 1
SYMMETRY Symmetry
INVARIANTS
    OneUnsettledOperation
    TakeoverKeepsItsRecovery
    SpentTokenIsFenced
    PresentedTokenIsValid
    AnswerIsTrue
    TombstoneHasNoProcess
PROPERTIES
    ImplementsAccountPromise
CHECK_DEADLOCK FALSE
