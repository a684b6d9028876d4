SPECIFICATION Spec
CONSTANTS
    config_default <- MCDefault
    Sets <- MCSets
    CharIsSigned = FALSE
    Serials <- MCSerials
    Noise <- MCNoise
    MaxMessages = 1
    FRAME_O1_DATA_MAX = 4
    POSSN_MAX_SIZE = 2
    W_BUFF = 3
    TextChars = 1
    IdChars = 1
    RandomKeys = {r1, r2}
    None = none
INVARIANTS
    RestartFindsSettings
    ForgottenIsDefault
    GenuineWhenTold
    SerialWholeOrEmpty
    ListensOverCdc
