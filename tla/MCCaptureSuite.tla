--------------------------- MODULE MCCaptureSuite ---------------------------
(* The instances of CaptureSuite and VerifyEvidence for TLC.               *)
EXTENDS VerifyEvidence, TLC

CONSTANTS s1, s2, a1, a2, a3, a4

MCScenarios == {s1, s2}
MCSuites == {<<>>, <<s1>>, <<s1, s1>>, <<s2, s1>>}
MCOneSuite == {<<s1>>, <<s2, s1>>}

\* a2 has the build identity of a1, a3 another version, a4 another source.
MCArtifacts == {a1, a2, a3, a4}
MCBuilds == {"ours", "ours_too", "foreign"}
MCBuild == (a1 :> "ours") @@ (a2 :> "ours") @@ (a3 :> "ours_too") @@ (a4 :> "foreign")
MCAligned == {"ours", "ours_too"}
MCSameVersion == {"ours", "foreign"}
=============================================================================
