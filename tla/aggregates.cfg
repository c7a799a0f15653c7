SPECIFICATION FairSpec
CONSTANTS
    Batches = {b1}
    Readers = {r1, r2}
    InitialVersion = 0
    MaxClears = 1
INVARIANTS
    EntriesReflectVersion
PROPERTIES
    Fresh
    EventuallySeen
CHECK_DEADLOCK FALSE
