SPECIFICATION Spec
CONSTANTS
    t1 = t1
    t2 = t2
    none = none
    SD_BLOCK_LEN = 2
    CAPACITY = 6
    FS_LAST_FILE_BLOCKS = 2
    FS_FILE_SKIP_LEN = 5
    Tag = {t1, t2}
    NoTag = none
    Times = {}
    OpenSeqs = {0}
    WriteLens = {1, 2}
    ReadLens = {}
    MAX_FILE_LEN = 3
    MAX_FMT_ITER = 2
SYMMETRY Tags
PROPERTIES
    OpenToReadKeepsTraces
