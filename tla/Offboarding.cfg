\* Two tenants, every configuration of the two connections, a call and a
\* retry, three commits of the rest of the service.
SPECIFICATION Spec
CONSTANTS
    Tenants = {acme, globex}
    Target = acme
    MaxWrites = 3
    MaxCalls = 2
INVARIANTS SuccessMeansCleared
PROPERTIES OnlyTargetPurged NothingHalfPurged
CHECK_DEADLOCK FALSE
