\* The responses alone matter: the other functions get next to nothing.
SPECIFICATION Spec
CONSTANTS
    U64 = 3
    Scale = 1
    U32 = 1
    Portable = 1
    MaxSamples = 1
    Stages = 2
    Fused = {1}
    Deviations = {0}
    Spans = {1}
    Records = {1}
    MaxClock = 1
    MaxRetained = 1
    Times = {0}
    Strings = {"a"}
    MaxTokens = 1
    Counts = {0, 1, 2}
    MaxRecords = 2
    MaxCategories = 2
    MaxMessage = 2
    MaxWords = 0
    Versions = {0}
    MaxLines = 0
INVARIANTS
    MixedVariantsAreRejected
CHECK_DEADLOCK FALSE
