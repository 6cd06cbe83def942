SPECIFICATION Spec
CONSTANTS
    BUTTON_HOLD_MS = 1
    BLINK_INTERVAL = 1
    BLINK_ON = 1
    BLINK_OFF = 1
    BLINK_WRAP = 3
    MAX_FILES = 2
    MAX_LATE = 1
    MAX_ODD = 2
CONSTRAINT FewOdd
INVARIANTS
    StrobeShowsFile
    RecordingHasFile
    HaltNeedsRestart
    ModeMatchesCard
PROPERTIES
    OncePerPress
    RowShowsCount
