SPECIFICATION Spec
CONSTANTS
    g1 = g1
    g2 = g2
    a1 = a1
    NoGeneration = NoGeneration
    Generations <- MCOneGeneration
    Accounts <- MCAccounts
    AccountOf <- MCAccountOf
    BootScheme <- MCSameScheme
    MacOS = FALSE
    MaxBoot = 0
    MaxCrashes = 0
    MaxFaults = 0
    MaxRevision = 0
CHECK_DEADLOCK FALSE
INVARIANT ReceiptAdmitsItsChild
