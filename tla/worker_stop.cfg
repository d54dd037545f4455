SPECIFICATION FairSpec
CONSTANTS
    Jobs = {j1}
    Attempts = {a1}
    Workers = {w1}
    IdemKeys = {}
    ConcKeys = {}
    Workflows = {}
    Budgets = {2}
    Caps = {}
    Ttls = {"none"}
    PoisonLimit = 3
    None = None
    Me = w1
    Concurrency = 1
    MaxTries = 1
    Kinds = {"async", "blocking", "sync", "unsupported"}
    SoftStops = {TRUE, FALSE}
    FailOnDeadline = FALSE
    CancelClaimOnStop = TRUE
CHECK_DEADLOCK FALSE
PROPERTIES StopEnds SlotFreed
