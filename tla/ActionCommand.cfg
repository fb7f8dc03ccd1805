SPECIFICATION Spec
CONSTANTS
    MaxConnects = 2
    MaxQueue = 1
    MaxFaults = 0
    MaxRecoveries = 0
    MaxReports = 0
    MaxDrops = 1
    MaxCrashes = 1
INVARIANTS
    TellsTheTruth
    DispatchedIsSent
CHECK_DEADLOCK FALSE
