SPECIFICATION FairSpec
CONSTANTS
    SAMPLES_LEN_PER_CAL_FRAME = 2
    SAMPLES_LEN_PER_DATA_FRAME = 2
    CONTROL_ATTEMPTS = 3
    SEQ_LIMIT = 4
    WORD = 16
    FS_FILE_SKIP_LEN = 2
    FILES <- MCFiles
    RECORDED = {1}
    MAX_FAULTS = 2
    MAX_SESSIONS = 2
INVARIANTS
    DownloadIsFile
    RtcOfFile
    CleanSessionSucceeds
PROPERTIES
    DownloadEnds
CHECK_DEADLOCK FALSE
