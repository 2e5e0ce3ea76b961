\* Two processes, three runs, three releases and one incident.
SPECIFICATION FairSpec
CONSTANTS
    Runners = {r1, r2}
    MaxRuns = 3
    MaxIncidents = 1
INVARIANTS LedgerIsTheSchema NeverOpenUnprotected AloneMeansNoConflict OkMeansCurrent
PROPERTIES EveryRunEnds
CHECK_DEADLOCK FALSE
