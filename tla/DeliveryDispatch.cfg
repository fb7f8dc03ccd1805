SPECIFICATION FairSpec
CONSTANTS
    Workers = {1, 2}
    MaximumAttempts = 2
    MaxDisturbances = 2
    MaxRetries = 1
INVARIANTS
    NotStranded
    AcceptedIsCurrent
    AttemptsAreLimited
PROPERTY
    DeliveryEnds
CHECK_DEADLOCK FALSE
