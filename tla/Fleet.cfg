\* Two tenants, up to four chunks in batches of one, two calls that may die,
\* one ingest that commits meanwhile, any number of deletions, every pair of
\* roles.
SPECIFICATION FairSpec
CONSTANTS
    Tenants = {1, 2}
    MaxId = 4
    BatchSize = 1
    MaxRuns = 2
    MaxIngests = 1
INVARIANTS SeparateRolesDriveAll LedgerCoversItsOwn TotalsAreThisRun
PROPERTIES EveryCallEnds
CHECK_DEADLOCK FALSE
