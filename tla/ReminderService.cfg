SPECIFICATION FairSpec
CONSTANTS
    MaximumAttempts = 3
    FollowUpDelay = 1
    MaxTime = 4
    Starts = {1, 2}
    MaxEdits = 0
    MaxActions = 2
    MaxCrashes = 2
    MaxUnavailable = 0
INVARIANTS
    AcknowledgeSilencesChain
    AnnouncedOnce
    NoReminderLost
PROPERTIES
    
    SnoozedComesBack
CHECK_DEADLOCK FALSE
