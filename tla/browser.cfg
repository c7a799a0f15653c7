SPECIFICATION Spec
CONSTANTS
    Predictions = {p1, p2}
    None = None
    MaxLost = 1
    MaxPicks = 1
    Tiles = {t1, t2, t3, t4}
    MaxConcurrent = 2
    Tabs = {a, b}
    Slots = 2
    MaxEvents = 2
INVARIANTS
    LoadingIsWork
    SlotsAreUsed
    OnlyWantedRuns
    CookieIsLive
PROPERTIES
    AbortedIsQuiet
    SubmissionsEnd
    RequestsSettle
CHECK_DEADLOCK FALSE
