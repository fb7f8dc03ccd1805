\* Two inputs of any kind, or an input and an utterance or a fault, anywhere.
SPECIFICATION Spec
CONSTANTS
    Inputs = {"wakeDetected", "interruptAndAcknowledge", "toggleChat", "pressDown",
              "pressUp", "shake", "reminder", "interruptRequested"}
    MaxInputs = 2
    MaxUtterances = 1
    MaxFaults = 1
    MaxEvents = 2
    ControlCapacity = 3
    BestEffortCapacity = 1
    BoardCapacity = 2
INVARIANTS  ReconnectingIsDeaf
CONSTRAINT NothingDropped
CHECK_DEADLOCK FALSE
