SPECIFICATION FairSpec
CONSTANTS
    MaxConnects = 1
    MaxQueue = 1
    MaxFaults = 1
    MaxRecoveries = 1
    MaxReports = 1
    MaxDrops = 0
    MaxCrashes = 0
INVARIANTS
    TellsTheTruth
PROPERTY
    ActionSettles
CHECK_DEADLOCK FALSE
