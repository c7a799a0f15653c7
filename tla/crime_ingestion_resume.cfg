SPECIFICATION Spec
CONSTANTS
    c1 = c1
    c2 = c2
    c3 = c3
    Ingests = {i1, i2}
    DryRuns = {}
    Servers <- MCGoodServer
    Size = 2
    MaxVersions = 1
    Rows <- MCRows
    Invalid = Invalid
    ChunkSize = 2
    Known = {c2}
    NoIngest = NoIngest
    Earlier = Earlier
    MaxFaults = 0
    MaxKills = 1
INVARIANT
    ResumedIngestCompletes
CHECK_DEADLOCK FALSE
