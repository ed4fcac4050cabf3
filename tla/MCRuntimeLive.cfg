CONSTANTS
    t1 = t1
    t2 = t2
    Threads = {t1, t2}
    NoThread = NoThread
    NoScope = NoScope
    Formats = {"off"}
    DefaultRetention = 1
    Retentions = {}
    Interval = 2
    MaxScopes = 1
    MaxRecords = 6
    MaxAdmin = 2
SPECIFICATION FairSpec
INVARIANTS
    EventsBounded
PROPERTIES
    CallsReturn
CHECK_DEADLOCK FALSE
