CONSTANTS
    t1 = t1
    t2 = t2
    Threads = {t1, t2}
    NoThread = NoThread
    None = None
    Kinds = {0, 2}
    Thresholds = {2}
    Setups <- MCSetups
    Capacity = 1
    MaxTickets = 4
    MaxLines = 2
    MaxUpdates = 2
    MaxFaults = 1
SYMMETRY Symmetry
SPECIFICATION Spec
INVARIANTS
    Accounted
    SinksExact
    DiagnosticsExact
    FlushTells
    LevelAgrees
    FilesInOrder
CHECK_DEADLOCK FALSE
