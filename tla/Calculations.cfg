\* Samples and medians of the whole width; ten basis points.
SPECIFICATION Spec
CONSTANTS
    U64 = 14
    Scale = 10
    U32 = 11
    Portable = 12
    MaxSamples = 4
    Stages = 3
    Fused = {0, 4}
    Deviations = {0, 5, 13}
    Spans = {0, 5}
    Records = {0, 6}
    MaxClock = 8
    MaxRetained = 2
    Times = {0, 1, 13}
    Strings = {"a", "b"}
    MaxTokens = 8
    Counts = {0, 1, 2, 12, 13}
    MaxRecords = 12
    MaxCategories = 2
    MaxMessage = 2
    MaxWords = 8
    Versions = {0, 1, 2}
    MaxLines = 5
INVARIANTS
    SummaryIsExact
    AnalysisIsExact
    TimesAreConserved
    KeysAreUnique
    AcceptedResultsAreConsistent
    ExitCodesTellTheTruth
    DoctorIsRight
\* Every function returns.
CHECK_DEADLOCK FALSE
