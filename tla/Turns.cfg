SPECIFICATION FairSpec
CONSTANTS
    MaxTurns = 3
    MaxCrashes = 1
    MaxFaults = 2
CHECK_DEADLOCK FALSE
INVARIANTS
    ClosedTurnHasNoEffect
    RecordedOutcomeIsTrue
    TurnAgreesWithAttempt
    ReadyMeansSettled
    OpenTurnHasAWayOut
PROPERTIES
    SendIsAuthorized
    AttemptIsFenced
    ShutdownDrains
    ImplementsConversationPromise
