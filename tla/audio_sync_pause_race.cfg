SPECIFICATION Spec
CONSTANTS
    Devices = {TRUE}
    OnTime = TRUE
    Prompt = TRUE
    Frame = 3
    Nap = 2
    MaxNow = 16
    MaxToggles = 2
INVARIANT
    AudioInStep
CHECK_DEADLOCK FALSE
