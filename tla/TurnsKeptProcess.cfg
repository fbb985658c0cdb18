SPECIFICATION Spec
CONSTANTS
    MaxTurns = 2
    MaxCrashes = 0
    MaxFaults = 0
CHECK_DEADLOCK FALSE
INVARIANT KeptProcessHasARecoveryAction
