SPECIFICATION Spec
CONSTANTS
    Threads = {t1, t2}
    Futures = {f1, f2}
    Free = Free
    NoScope = NoScope
    Chosen = {"success"}
    MaxScopes = 2
    MaxPanics = 2
VIEW View
SYMMETRY Symmetry
CHECK_DEADLOCK FALSE
INVARIANTS
    ContextsIsolated
    AsyncOutcome
    Encloses
