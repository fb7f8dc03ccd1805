\* A button is pressed while the board returns to standby.
SPECIFICATION Spec
CONSTANTS
    Inputs = {"toggleChat"}
    MaxInputs = 1
    MaxUtterances = 0
    MaxFaults = 0
    MaxEvents = 1
    ControlCapacity = 3
    BestEffortCapacity = 1
    BoardCapacity = 2
INVARIANT MicIsOffInStandby
CHECK_DEADLOCK FALSE
