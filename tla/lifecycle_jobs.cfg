SPECIFICATION Spec
CONSTANTS
    m1 = m1
    m2 = m2
    m3 = m3
    Models = {m1}
    Tag <- MCTag
    Area <- MCArea
    NoArea = NoArea
    Requests = {q1, q2}
    Keys = {k1}
    NoKey = NoKey
    Workers = {w1, w2}
    Admins = {}
    None = None
    MaxFaults = 1
    MaxKills = 1
    MaxRetries = 1
SYMMETRY RequestWorkerSymmetry
INVARIANTS
    ReportedWorkIsPending
    TrainingHasTrainer
    ArtifactsOnDisk
    MetadataKept
CHECK_DEADLOCK FALSE
