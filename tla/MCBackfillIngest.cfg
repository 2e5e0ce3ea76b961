\* One ingest between the batches of a run.
SPECIFICATION Spec
CONSTANTS
    MaxId = 3
    Docs = {d1}
    Models = {ada, large}
    FirstModel = ada
    None = None
    Runners = {r1, r2}
    BatchSize = 1
    MaxRuns = 2
    MaxIngests = 1
    MaxRedeploys = 0
    MaxQueries = 1
PROPERTIES DoneMeansNoneLeft
CHECK_DEADLOCK FALSE
