SPECIFICATION FairSpec
CONSTANTS
    Main = Main
    Amix = Amix
    Nobody = Nobody
    d1 = d1
    d2 = d2
    Devices <- TwoDevices
    Merged <- TwoDevices
    Replay = FALSE
    Patient = TRUE
    MaxMissing = 1
    MaxQueued = 2
    MaxSaves = 0
    MaxPauses = 0
INVARIANTS
    TypeOK
    ExclusiveUse
PROPERTIES
    StopTerminates
