SPECIFICATION Spec
CONSTANTS
    Files = 3
    MaxEdits = 2
    MaxCrashes = 2
    MaxFaults = 2
    MaxSyncFaults = 1
INVARIANTS
    NothingLost
    RecoveredIsWhole
    ReportsTruth
CHECK_DEADLOCK FALSE
