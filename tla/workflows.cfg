SPECIFICATION FairFlows
CONSTANTS
    Jobs = {j1, j2}
    Attempts = {a1, a2}
    Workers = {w1}
    IdemKeys = {}
    ConcKeys = {}
    Workflows = {f1}
    Budgets = {1}
    Caps = {}
    Ttls = {"none"}
    MemberLimits = {1, 2}
    PoisonLimit = 3
    None = None
CHECK_DEADLOCK FALSE
INVARIANTS EndedQuiet LimitHolds OutcomeBacked
PROPERTIES FlowsEnd
