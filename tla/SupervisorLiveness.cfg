SPECIFICATION FairSpec
CONSTANTS
    g1 = g1
    g2 = g2
    a1 = a1
    NoGeneration = NoGeneration
    Generations <- MCOneGeneration
    Accounts <- MCAccounts
    AccountOf <- MCAccountOf
    BootScheme <- MCSameScheme
    MacOS = FALSE
    MaxBoot = 1
    MaxCrashes = 1
    MaxFaults = 1
    MaxRevision = 3
CHECK_DEADLOCK FALSE
PROPERTIES
    OwnedExitSettles
    WitnessedExitSettles
    RebootEndsQuarantine
    PendingNonCreationSettles
