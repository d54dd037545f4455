SPECIFICATION Spec
CONSTANTS
    Second = 1
    Lease = 12
    ClaimDelay = 6
    AnswerDelay = 3
    Horizon = 24
CHECK_DEADLOCK FALSE
INVARIANTS Exclusive UnconfirmedBound KeptWhenHealthy
