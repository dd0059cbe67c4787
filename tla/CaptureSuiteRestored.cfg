CONSTANTS
    s1 = s1
    s2 = s2
    a1 = a1
    a2 = a2
    a3 = a3
    a4 = a4
    Scenarios <- MCScenarios
    Artifacts <- MCArtifacts
    Builds <- MCBuilds
    Build <- MCBuild
    Aligned <- MCAligned
    SameVersion <- MCSameVersion
    Suites <- MCOneSuite
    MaxEdits = 2
SPECIFICATION RestoringVerifySpec
INVARIANTS
    EvidenceOfOneEngine
CHECK_DEADLOCK FALSE
