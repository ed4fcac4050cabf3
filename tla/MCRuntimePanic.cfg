CONSTANTS
    t1 = t1
    t2 = t2
    Threads = {t1, t2}
    NoThread = NoThread
    NoScope = NoScope
    Formats = {"off", "jsonl"}
    DefaultRetention = 2
    Retentions = {0}
    Interval = 2
    MaxScopes = 2
    MaxRecords = 3
    MaxAdmin = 2
SYMMETRY Symmetry
SPECIFICATION Spec
INVARIANTS
    NewScopeIsRetained
CHECK_DEADLOCK FALSE
