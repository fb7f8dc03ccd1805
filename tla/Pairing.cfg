SPECIFICATION Spec
CONSTANTS
    Devices = {board, other}
    Board = board
    Codes = {c1}
    Identities = {i1}
    Events = {e1}
    Posts = {p1}
    Window = 2
    MaxTime = 2
    MaxSessions = 2
    MaxAttempts = 2
    MaxFaults = 1
    MaxQueue = 1
INVARIANTS PolledByOne 
PROPERTIES ConfirmedIsCurrent
CHECK_DEADLOCK FALSE
