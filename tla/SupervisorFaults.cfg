SPECIFICATION Spec
CONSTANTS
    g1 = g1
    g2 = g2
    a1 = a1
    NoGeneration = NoGeneration
    Generations <- MCGenerations
    Accounts <- MCAccounts
    AccountOf <- MCAccountOf
    BootScheme <- MCLegacyScheme
    MacOS = TRUE
    MaxBoot = 2
    MaxCrashes = 1
    MaxFaults = 1
    MaxRevision = 0
CHECK_DEADLOCK FALSE
SYMMETRY MCSymmetry
INVARIANTS
    SpawnStaysReserved
PROPERTIES
    RevisionFencesEveryChange
    ImplementsAccountSlot
