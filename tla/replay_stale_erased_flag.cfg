SPECIFICATION Spec
CONSTANTS
    Video = Video
    a = a
    b = b
    AudioStreams <- OneAudio
    BufferSecs = 2
    MaxNow = 4
    MaxPackets = 4
INVARIANT
    VideoStartsAtKeyFrame
