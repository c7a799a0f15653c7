SPECIFICATION Spec
CONSTANTS
    m1 = m1
    m2 = m2
    m3 = m3
    Models = {m1}
    Tag <- MCTag
    Area <- MCArea
    NoArea = NoArea
    Requests = {q1, q2}
    Keys = {k1}
    NoKey = NoKey
    Workers = {}
    Admins = {}
    None = None
    MaxFaults = 0
    MaxKills = 0
    MaxRetries = 0
INVARIANTS
    NoDuplicateJobs
CHECK_DEADLOCK FALSE
