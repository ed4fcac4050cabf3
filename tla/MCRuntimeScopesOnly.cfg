CONSTANTS
    t1 = t1
    t2 = t2
    Threads = {t1}
    NoThread = NoThread
    NoScope = NoScope
    Formats = {"off"}
    DefaultRetention = 1
    Retentions = {}
    Interval = 2
    MaxScopes = 12
    MaxRecords = 12
    MaxAdmin = 0
SPECIFICATION ScopesOnlySpec
INVARIANTS
    RecordsTrimmed
CHECK_DEADLOCK FALSE
