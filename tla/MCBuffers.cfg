CONSTANTS
    i1 = i1
    i2 = i2
    t1 = t1
    t2 = t2
    Ids = {i1, i2}
    Threads = {t1, t2}
    Outcomes = {"failure"}
    CompactAbove = 2
    KeyLimit = 4
    MaxLive = 3
    MaxPushes = 5
    None = None
SYMMETRY Symmetry
SPECIFICATION BufferSpec
INVARIANTS
    BuffersExact
PROPERTIES
    RefinesVector
    RecordsRefineVector
CHECK_DEADLOCK FALSE
