SPECIFICATION HttpSpec
CONSTANTS
    c1 = c1
    c2 = c2
    Jobs = {j1, j2}
    Attempts = {a1, a2}
    IdemKeys = {k1}
    Steps = {s1}
    None = None
    Worker = w1
    Calls = {c1, c2}
    Mixes <- AloneOrStarting
    Granted = {"read", "enqueue", "run", "control"}
    MaxRetries = 1
SYMMETRY Symmetry
CHECK_DEADLOCK FALSE
INVARIANT OnceDespiteRetry
INVARIANT HandedBack
INVARIANT NobodyStuck
