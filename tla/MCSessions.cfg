\* Two ingests and a query on a pool of two, and an embedder with one permit.
SPECIFICATION FairSpec
CONSTANTS
    c1 = c1  c2 = c2  q1 = q1
    Calls = {c1, c2}
    BatchCount <- MCBatchCount
    MaxInFlight = 1
    Queries = {q1}
    Conns = {"d1", "d2"}
    NoOne = NoOne
    TenantOf <- MCTenantOf
INVARIANTS PermitsAccountedFor LoggedCoversTheCall StatementsUnderOwnClaim ClaimDiesWithTransaction
PROPERTIES EverythingEnds
CHECK_DEADLOCK FALSE
