SPECIFICATION FairSpec
CONSTANTS
    Session <- MCSession
    START_SAMPLING = 5
    UART_RX_BUFFER_LEN = 8
    MAX_FRAMES = 2
    MAX_FAULTS = 2
    CUT_WEIGHT = 2
INVARIANTS
    SelfTestPasses
    RunsOnlySent
    AckMeansRun
    LostBehindHarmed
    StreamAsSent
PROPERTIES
    SessionEnds
CHECK_DEADLOCK FALSE
