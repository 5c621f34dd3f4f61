SPECIFICATION FairSpec
CONSTANTS
    Main = Main
    Amix = Amix
    Nobody = Nobody
    d1 = d1
    d2 = d2
    Devices <- OneDevice
    Merged <- NoDevice
    Replay = TRUE
    Patient = TRUE
    MaxMissing = 1
    MaxQueued = 1
    MaxSaves = 2
    MaxPauses = 2
INVARIANTS
    SavesDoNotMix
PROPERTIES
    SignalsAreServed
