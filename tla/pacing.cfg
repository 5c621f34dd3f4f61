SPECIFICATION Spec
CONSTANTS
    Modes = {"constant", "variable", "content"}
    Frame = 3
    MaxNow = 12
    MaxPauses = 4
INVARIANTS
    TypeOK
    TimestampsIncrease
    VideoInStep
    NotAboveFrameRate
CHECK_DEADLOCK FALSE
