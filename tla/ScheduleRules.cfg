SPECIFICATION RuleSpec
CONSTANTS
    Shapes <- MCShapes
    StartDates <- MCStarts
    Hours = {10}
    Targets <- MCTargets
    Times <- MCTimes
    MaxChanges = 2
    MaxFaults = 1
INVARIANTS PlannerIsExact QueryIsComplete SearchMissesNothing OncePerOccurrence 
CHECK_DEADLOCK FALSE
