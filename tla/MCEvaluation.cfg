\* Three documents of up to three naive chunks, two questions with their
\* answers in any of six ways and one that has none given, one of the four shared
\* strategies, HEAD moving once while the documents are read, and reports
\* on up to twelve samples, where p95 and nearest rank begin to differ.
SPECIFICATION Spec
CONSTANTS
    Length <- MCLength
    Tenant <- MCTenant
    Golden <- MCGolden
    Occurrences <- MCOccurrences
    Window = 2
    TOP_K = 2
    SharedRows = 1
    MaxHead = 2
    Kinds <- MCKinds
    MaxLog = 12
    Whole = 60
INVARIANTS NaiveHitsAreAnswers ScoresAgree FileIsOneMeasurement PercentilesAreHonest PerfectMeansPerfect
CHECK_DEADLOCK FALSE
