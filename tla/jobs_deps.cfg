SPECIFICATION Spec
CONSTANTS
    Jobs = {j1, j2, j3}
    Attempts = {a1, a2}
    Workers = {w1}
    IdemKeys = {k1}
    ConcKeys = {}
    Workflows = {f1}
    Budgets = {1}
    Caps = {}
    Ttls = {"none"}
    PoisonLimit = 3
    None = None
SYMMETRY Symmetry
CHECK_DEADLOCK FALSE
INVARIANTS PendingCounts DepsHonoured OneActivePerKey
