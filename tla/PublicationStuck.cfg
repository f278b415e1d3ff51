SPECIFICATION Spec
CONSTANTS
    Files = 2
    MaxEdits = 1
    MaxCrashes = 2
    MaxFaults = 0
    MaxSyncFaults = 0
PROPERTY RecoveryNeverRefused
CHECK_DEADLOCK FALSE
