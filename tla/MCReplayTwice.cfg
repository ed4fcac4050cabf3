SPECIFICATION SavedSpec
CONSTANTS
    Lines <- MCLines
    Legacy = "old"
    None = None
    MaxLines = 3
    RunIds <- MCRunIds
    Foreign <- MCForeign
    MaxCalls = 0
    MaxFaults = 1
    MaxScopes = 2
CHECK_DEADLOCK FALSE
INVARIANTS
    Deduplicated
