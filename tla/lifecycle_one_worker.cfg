SPECIFICATION FairSpec
CONSTANTS
    m1 = m1
    m2 = m2
    m3 = m3
    Models = {m1, m2}
    Tag <- MCTag
    Area <- MCArea
    NoArea = NoArea
    Requests = {q1, q2}
    Keys = {}
    NoKey = NoKey
    Workers = {w1}
    Admins = {a1}
    None = None
    MaxFaults = 0
    MaxKills = 0
    MaxRetries = 0
INVARIANTS
    PublishedRunCompleted
    OneChosenActive
PROPERTIES
    RunsFinish
    StatusSettles
CHECK_DEADLOCK FALSE
