SPECIFICATION FairSpec
CONSTANTS
    Predictions = {p1, p2}
    WantsTiles = {p1}
    Workers = {w1, w2}
    None = None
    ShapRows = 2
    MaxFaults = 2
    MaxKills = 2
    MaxRetries = 2
INVARIANTS
    OneJobEach
    CompletedIsWhole
    PendingHasJob
PROPERTIES
    RowsAdvance
    PredictionsEnd
CHECK_DEADLOCK FALSE
