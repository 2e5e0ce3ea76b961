\* One document of acme, versions of two chunks and of one, three transactions
\* of two sessions of either tenant, and Pod P.
SPECIFICATION FairSpec
CONSTANTS
    d1 = d1  acme = acme  globex = globex  s1 = s1  s2 = s2
    Docs = {d1}
    Tenants = {acme, globex}
    Owner <- MCOwner
    MaxVersion = 2
    ChunkCount <- MCChunkCount
    Sessions = {s1, s2}
    PodP = PodP
    MaxTxns = 3
    None = None
INVARIANTS TypeOK OldSetOrNewSet NoOrphanChunks
PROPERTIES EmptiedOnlyOnRequest ImplementsChunkStore EveryTransactionEnds
CHECK_DEADLOCK FALSE
