SPECIFICATION FairSpec
CONSTANTS
    SAMPLES_LEN_PER_CAL_FRAME = 2
    SAMPLES_LEN_PER_DATA_FRAME = 1
    RING_LEN = 2
    MAX_TAKEN = 3
    MAX_STARTS = 2
INVARIANTS
    InOrder
    NothingLost
    CalibrationEnds
    FramePosition
PROPERTIES
    CloseKeepsAllButOne
    StopEnds
