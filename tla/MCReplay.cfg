SPECIFICATION SavedSpec
CONSTANTS
    Lines <- MCLines
    Legacy = "old"
    None = None
    MaxLines = 4
    RunIds <- MCRunIds
    Foreign <- MCForeign
    MaxCalls = 5
    MaxFaults = 1
    MaxScopes = 2
CHECK_DEADLOCK FALSE
INVARIANTS
    NothingLost
    NoSilentConflict
    RunsSeparate
    ExitsAsObserved
    ForestRecovered
    TreeExact
    QueriesAgree
    OnlyTruth
    TornConfined
    HistorySaved
