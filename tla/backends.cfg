SPECIFICATION Spec
CONSTANTS
    Starts = {"direct", "pkexec"}
    Versions = {"same", "other"}
    ClientMayCrash = TRUE
    ServerMayDie = TRUE
    Planes = {primary, cursor, second}
    Buffer = 3
    Monitors = {m1, m2}
    Recorded = m1
    Crtcs = {1, 2}
    MaxMonitorChanges = 2
    Windows = {w1, w2}
    NoWindow = NoWindow
    Target = w1
    MaxWindowChanges = 2
    MaxSwitches = 2
    MaxFaults = 2
    MaxLevels = 3
    MaxRate = 2
    ChunkLength = 3
    MaxFragment = 4
    MaxSources = 2
    PortalVersions = {3, 5}
    MaxRuns = 2
    MaxLate = 1
    FormatPlanes <- TwoFormats
    MaxBuffers = 3
    c1 = c1
    c2 = c2
    c3 = c3
    Tracks = {"window", "monitor"}
    Inside <- InsidePositions
    Outside <- OutsidePositions
    Elsewhere = TRUE
    MaxChanges = 2
    MaxMoves = 3
    Codecs = {"h264", "hevc", "hevc_hdr", "av1", "vp8"}
    Containers = {"mp4", "webm", "flv", "m3u8"}
INVARIANTS
    TypeOK
    NoFdLeak
    AnswersMatch
    NoLostDamage
    OnlyRecordedIsShown
    NotOverclockedBeyondBest
    ResponsesMatch
    FailsOnlyWhenRefused
    TokenStaysValid
    NoBufferLost
    CodecsFitContainer
    CaptureFitsSession
PROPERTIES
    CallsReturn
    KmsServerExits
    DamageIsShown
    TargetIsFollowed
    NvfbcIsRecovered
    ChunksAreTheStream
    StreamIsShown
CHECK_DEADLOCK FALSE
