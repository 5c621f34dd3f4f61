SPECIFICATION Spec
CONSTANTS
    Devices = {TRUE, FALSE}
    OnTime = FALSE
    Prompt = FALSE
    Frame = 2
    Nap = 1
    MaxNow = 10
    MaxToggles = 3
INVARIANTS
    TypeOK
    NeverTwiceAsLong
PROPERTY
    TrackFollowsClock
CHECK_DEADLOCK FALSE
