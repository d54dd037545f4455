SPECIFICATION FakeSpec
CONSTANTS
    Jobs = {j1, j2, j3}
    Attempts = {a1, a2}
    Workers = {w1}
    Keys = {k1}
    ConcKeys = {c1}
    Workflows = {f1}
    Budgets = {2}
    Ttls = {"none", "live"}
    Commands <- SomeCommands
    MemberLimit = 3
    MaxJobs = 1
    None = None
SYMMETRY Symmetry
CONSTRAINT SmallTables
CHECK_DEADLOCK FALSE
PROPERTY FakeImplements
