SPECIFICATION Spec
CONSTANTS
    MaximumAttempts = 3
    FollowUpDelay = 1
    MaxTime = 3
    Starts = {1, 2}
    MaxEdits = 1
    MaxActions = 1
    MaxCrashes = 0
    MaxUnavailable = 1
INVARIANTS
    NoReminderLost
CHECK_DEADLOCK FALSE
