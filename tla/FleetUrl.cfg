\* As Fleet.cfg, for what the command says of itself.
SPECIFICATION Spec
CONSTANTS
    Tenants = {1, 2}
    MaxId = 2
    BatchSize = 1
    MaxRuns = 1
    MaxIngests = 0
INVARIANTS EveryTenantDriven
CHECK_DEADLOCK FALSE
