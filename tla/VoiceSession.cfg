SPECIFICATION FairSpec
CONSTANTS
    Requests = {"wake", "interruptAndWake", "interrupt", "reminder", "shake", "startCapture", "stopCapture", "interruptAndStart", "restart"}
    MaxRequests = 3
    MaxDrops = 1
    MaxEnvelopes = 4
INVARIANTS
    CutStreamIsSilent
    DeferredHasFence

    
CHECK_DEADLOCK FALSE
