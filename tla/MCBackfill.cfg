\* Two calls of run_backfill that may overlap, on three chunks in batches of
\* two, while a document is ingested or dropped, the tenant is purged, the flag
\* is moved, a query is answered and the service restarts with another model.
SPECIFICATION FairSpec
CONSTANTS
    MaxId = 3
    Docs = {d1}
    Models = {ada, large}
    FirstModel = ada
    None = None
    Runners = {r1, r2}
    BatchSize = 2
    MaxRuns = 2
    MaxIngests = 1
    MaxRedeploys = 1
    MaxQueries = 1
INVARIANTS NothingLeftBehindCursor FlippedTenantIsServed  ServedUnlessChanged
PROPERTIES DoneUnlessIngested EveryRunReturns
CHECK_DEADLOCK FALSE
