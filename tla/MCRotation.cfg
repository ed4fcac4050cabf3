CONSTANTS
    Keeps = {0, 2}
    MaxBytes = 4
    Lengths = {1, 3, 5}
    HeaderLength = 2
    MaxRecords = 5
    MaxFaults = 2
    None = None
SPECIFICATION Spec
INVARIANTS
    OldestFirst
    SizeLimited
PROPERTIES
    FaultlessDropsBeyondLimit
CHECK_DEADLOCK FALSE
