SPECIFICATION Spec
CONSTANTS
    t1 = t1
    t2 = t2
    none = none
    SD_BLOCK_LEN = 2
    CAPACITY = 9
    FS_LAST_FILE_BLOCKS = 2
    FS_FILE_SKIP_LEN = 2
    Tag = {t1}
    NoTag = none
    Times = {}
    OpenSeqs = {0,1,2,3}
    WriteLens = {1}
    ReadLens = {}
    MAX_FILE_LEN = 1
    MAX_FMT_ITER = 1
PROPERTIES
    OpenByNumberFinds
