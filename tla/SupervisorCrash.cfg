SPECIFICATION Spec
CONSTANTS
    g1 = g1
    g2 = g2
    a1 = a1
    NoGeneration = NoGeneration
    Generations <- MCGenerations
    Accounts <- MCAccounts
    AccountOf <- MCAccountOf
    BootScheme <- MCSameScheme
    MacOS = FALSE
    MaxBoot = 0
    MaxCrashes = 1
    MaxFaults = 0
    MaxRevision = 3
CHECK_DEADLOCK FALSE
SYMMETRY MCSymmetry
INVARIANTS
    TruthfulDeath
    OneProcessPerAccount
    RestartReasonMeansUnheld
    AdmissionIsExact
    NoForeignSignal
