SPECIFICATION ScannerSpec
CONSTANTS
    IMG_BUF_NUM = 1
    ImgSlots = 2
    SenderSlots = 1
    Frames = 1
    DrainTicks = 1
    MaxScans = 3
    BootTimeouts = 1
    Voice = "sok.wav"
    IdleStop = TRUE
INVARIANTS
    FrameOwnedOnce
    TextOwnedOnce
PROPERTIES
    StopsOnlyIdle
