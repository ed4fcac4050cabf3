CONSTANTS
    Keeps = {0}
    MaxBytes = 4
    Lengths = {1, 3, 5}
    HeaderLength = 2
    MaxRecords = 4
    MaxFaults = 2
    None = None
SPECIFICATION Spec
INVARIANTS
    WritesReachActive
CHECK_DEADLOCK FALSE
