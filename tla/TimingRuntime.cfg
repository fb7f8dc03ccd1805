SPECIFICATION FairSpec
CONSTANTS
    Ids = {1, 2}
    QueueDepth = 1
    MaxTime = 1
    MaxSubmissions = 2
    MaxCallbackOps = 1
    MaxClockSteps = 1
    MaxTimerFailures = 1
INVARIANTS
    TypeOK
    WakeIsComing
    TimerIsNotLate
    AcceptedCommandsApplied
    TimerIsQuiet
    NoNotifyAfterStop
PROPERTIES
    ImplementsTasks
    PendingTaskFires
    StopReturns
CHECK_DEADLOCK FALSE
