\* The code's three framebuffers and four output buffers; a display that lags
\* far enough behind to be lapped and to refuse flips; a port that plays one
\* buffer and keeps one.
CONSTANTS
    FB_COUNT = 3
    QueueMax = 2
    Delay = 2
    MaxFrames = 4
    AUDIO_BUF_FRAMES = 4
    PortDepth = 2
    MaxPackets = 5
SPECIFICATION StreamSpec
CHECK_DEADLOCK FALSE
INVARIANTS
    FramesIntact
    ScanoutSafe
    DecodeReady
    StreamIInv
    RingIntact
    FreedOnlyWhileClosing
    NothingLeft
PROPERTIES
    PictureGoesForward
    ComesDown
