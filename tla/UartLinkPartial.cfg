SPECIFICATION Spec
CONSTANTS
    Session <- MCSession
    START_SAMPLING = 5
    UART_RX_BUFFER_LEN = 8
    MAX_FRAMES = 2
    MAX_FAULTS = 1
    CUT_WEIGHT = 2
INVARIANTS
    FrameAfterPartialRuns
CHECK_DEADLOCK FALSE
