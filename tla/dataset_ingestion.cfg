SPECIFICATION FairSpec
CONSTANTS
    remote = remote
    upload = upload
    Datasets = {remote, upload}
    Remote = {remote}
    Mapped = {remote, upload}
    Batches <- MCBatches
    NoDataset = NoDataset
    MaxFaults = 1
    MaxKills = 1
    MaxRetries = 2
INVARIANTS
    ReadyIsWhole
    FeaturesOfOneFile
    FailedKeepsNoFile
    CompletedIsTrue
PROPERTY
    ImportsSettle
CHECK_DEADLOCK FALSE
