SPECIFICATION KmsFairSpec
CONSTANTS
    Starts = {"direct"}
    Versions = {"same"}
    ClientMayCrash = FALSE
    ServerMayDie = TRUE
    Planes = {primary, cursor, second}
    Buffer = 2
PROPERTY
    NeverStuck
CHECK_DEADLOCK FALSE
