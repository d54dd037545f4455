\* One schedule, three claims, instants 0 to 3; operators change the definition
\* once after it was made.
SPECIFICATION Spec
CONSTANTS
    Schedules = {s1}
    Tokens = {t1, t2, t3}
    Definitions <- DefinitionsPass
    Metas <- MetasPass
    Offsets = {0, 1}
    Lease = 1
    RetryDelay = 1
    Foreign = {TRUE, FALSE}
    Retention = 0
    MaxTime = 3
    MaxVersion = 2
    None = None
SYMMETRY TokenSymmetry
INVARIANTS
    BehindCursor
    NothingMissed
PROPERTIES
    OverlapForbidden
    CursorByDefinition
CHECK_DEADLOCK FALSE
