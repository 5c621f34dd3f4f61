SPECIFICATION StartupSpec
CONSTANTS
    Codecs = {"h264", "hevc", "av1", "vp8"}
    Containers = {"mp4", "webm"}
INVARIANT
    EncoderIsSupported
CHECK_DEADLOCK FALSE
