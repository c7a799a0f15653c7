SPECIFICATION FairSpec
CONSTANTS
    c1 = c1
    c2 = c2
    c3 = c3
    Ingests = {i1, i2}
    DryRuns = {i2}
    Servers <- MCServers
    Size = 2
    MaxVersions = 2
    Rows <- MCRows
    Invalid = Invalid
    ChunkSize = 2
    Known = {c2}
    NoIngest = NoIngest
    Earlier = Earlier
    MaxFaults = 1
    MaxKills = 1
INVARIANTS
    ImportsAreVerified
    CompletedIsImported
    CountsAreTrue
    CleanIngestCompletes
PROPERTY
    RunsEnd
CHECK_DEADLOCK FALSE
