SPECIFICATION FairSpec
CONSTANTS
    t1 = t1
    t2 = t2
    none = none
    SD_BLOCK_LEN = 2
    CAPACITY = 6
    FS_LAST_FILE_BLOCKS = 2
    FS_FILE_SKIP_LEN = 5
    Tag = {t1}
    NoTag = none
    Times = {1}
    OpenSeqs = {0, 1, 2}
    WriteLens = {1, 3}
    ReadLens = {2}
    MAX_FILE_LEN = 4
    MAX_FMT_ITER = 1
INVARIANTS
    ReadBack
PROPERTIES
    ImplementsStore
    OpenReturnsEventually
    CloseReturnsEventually
