SPECIFICATION Spec
CONSTANTS
    Jobs = {j1}
    Attempts = {a1, a2, a3, a4}
    Workers = {w1, w2}
    IdemKeys = {}
    ConcKeys = {c1}
    Workflows = {}
    Budgets = {2, 5}
    Caps = {0, 2}
    Ttls = {"none", "live"}
    PoisonLimit = 3
    None = None
SYMMETRY Symmetry
CHECK_DEADLOCK FALSE
INVARIANTS LedgerAgrees ReplayHonest BudgetBound
PROPERTIES SettledFrozen CancelSticks
