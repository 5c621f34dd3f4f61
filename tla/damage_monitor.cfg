SPECIFICATION DamageFairSpec
CONSTANTS
    c1 = c1
    c2 = c2
    c3 = c3
    Tracks = {"monitor"}
    Inside <- InsidePositions
    Outside <- NoPositions
    Elsewhere = TRUE
    MaxChanges = 1
    MaxMoves = 0
PROPERTY
    FrameCatchesUp
