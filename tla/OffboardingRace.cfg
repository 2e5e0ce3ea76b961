\* A chunk committed between two of the counts.
SPECIFICATION Spec
CONSTANTS
    Tenants = {acme, globex}
    Target = acme
    MaxWrites = 3
    MaxCalls = 2
PROPERTIES GoneMeansGone
CHECK_DEADLOCK FALSE
