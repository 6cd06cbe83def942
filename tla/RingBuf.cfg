SPECIFICATION FairSpec
CONSTANTS
    v = v
    w = w
    Value = {v, w}
    base_len = 3
    MaxLen = 4
INVARIANTS
    TypeOK
    Contents
    CallFits
PROPERTIES
    ImplementsFifo
    CallReturns
