SPECIFICATION LiveSpec
CONSTANTS
    Keys = {k1, k2}
    Cards = {c1}
    NoKey = none
    NoCard = none
    MaxRevision = 2
    MaxMishaps = 1
    JournalLimit = 2
    MaxTyped = 2
INVARIANTS
    OneCardAtStake
    OutcomeIsTrue
    SentAsConfirmed
    StopLosesNoAnswer
    UnsettledIsRemembered
    PanelKnowsItsRequest
PROPERTIES
    ImplementsRedemptionPromise
    LedgerDrains
    ClientsLetGo
CHECK_DEADLOCK FALSE
