SPECIFICATION MCSpec
CONSTANTS
    Models = {m1}
    MaxSockets = 2
    MaxAuths = 2
    MaxFetches = 1
    Kinds = {"training"}
    MaxPosts = 1
    MaxTurns = 1
    Forms = {f, g}
    Pages = {p}
    MaxSubmissions = 3
    d1 = d1
    d2 = d2
    Imports = {d1, d2}
    Filters <- MCFilters
    Nobody = 0
    Wizard = 3
    MaxVisits = 2
    MaxLists = 2
    MaxNotices = 1
    MaxChoices = 2
INVARIANTS
    SubscribedIsHeard
    SubscriptionsProgress
    Watched
    TrackedIsBusy
    JobsFollowForms
    NoStrayCallbacks
PROPERTY
    TableCatchesUp
CHECK_DEADLOCK FALSE
