SPECIFICATION Spec
CONSTANTS
    Jobs = {j1}
    Attempts = {a1, a2}
    Workers = {w1}
    IdemKeys = {}
    ConcKeys = {}
    Workflows = {}
    Budgets = {2}
    Caps = {}
    Ttls = {"none"}
    PoisonLimit = 3
    None = None
    Me = w1
    Concurrency = 1
    MaxTries = 2
    Kinds = {"async", "blocking", "sync", "unsupported", "no_handler", "invalid"}
    SoftStops = {TRUE}
    FailOnDeadline = TRUE
    CancelClaimOnStop = FALSE
CHECK_DEADLOCK FALSE
INVARIANTS ReportTruthful OneVerb VerbFits
PROPERTIES NoCallAfterLoss
