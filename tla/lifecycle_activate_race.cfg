SPECIFICATION Spec
CONSTANTS
    m1 = m1
    m2 = m2
    m3 = m3
    Models = {m1, m2}
    Tag <- MCTag
    Area <- MCArea
    NoArea = NoArea
    Requests = {q1}
    Keys = {}
    NoKey = NoKey
    Workers = {w1}
    Admins = {a1, a2}
    None = None
    MaxFaults = 0
    MaxKills = 0
    MaxRetries = 0
PROPERTIES
    ActivateTakesEffect
CHECK_DEADLOCK FALSE
