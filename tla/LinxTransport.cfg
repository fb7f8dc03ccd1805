SPECIFICATION Spec
CONSTANTS
    MediaDepth = 2
    ControlDepth = 1
    PoolSize = 3
    MaxTurns = 4
    MaxItems = 7
    MaxDrops = 2
INVARIANTS
    StaleItemIsNotWritten
    AudioIsFramed
    ClientOutlivesItsUsers
    PoolIsExact
CHECK_DEADLOCK FALSE
