SPECIFICATION CliSpec
CHECK_DEADLOCK FALSE
CONSTANTS
    Newest = 4
    IdentityAt = 2
    GuardAt = 3
    Repeatable = {4}
    Touches <- MCTouches
    Casts <- MCCasts
    MaxBindings = 2
    MaxTries = 2
    Drifts = {"function_catalog", "function_hardening", "seed_state"}
INVARIANTS
    MigrationsWhole
    EffectsOnExpected
    CallsHonest
    GatedEffects
    VerifiedWhole
