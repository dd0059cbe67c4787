--------------------------- MODULE VerifyEvidence ---------------------------
(***************************************************************************)
(* `labctl verify` after `labctl benchmark` or `labctl profile`:           *)
(* VerifyEvidence of labctl-go/internal/benchmark/verify.go reads the      *)
(* evidence that module CaptureSuite published, then the suite and one     *)
(* workload after the other from the repository, and last the executable   *)
(* if one is named; files may change between any two of these reads.       *)
(*                                                                         *)
(* Checks that a capture repeats on the same data (the summaries, the      *)
(* analysis, validateEngineResult, the times) have the same outcome again: *)
(* module Statistics and ResponseCodec.  What stays are the checks of the  *)
(* repository, and those that Execute does not make.  labctl verify runs   *)
(* with the root of the capture, and a recorded path, cleaned as text,     *)
(* names the file that Execute read by it.                                 *)
(***************************************************************************)
EXTENDS CaptureSuite

CONSTANT SameVersion     \* the builds with the version of this labctl

ASSUME VersionAssumption == SameVersion \subseteq Builds

VARIABLE verifier        \* the verification, and what it has read so far

verifyVars == <<vars, verifier>>

\* What verifyCommonEvidence may find wrong in evidence of Execute: the wall
\* clock was set back (Execute compares the monotonic clock, which evidence does
\* not hold), the recorded path of the suite is no repository path, or the
\* path of the executable is blank.
SuitePathFaults == {"suite_outside", "suite_backslash", "suite_not_json", "suite_too_long"}
Faults == SuitePathFaults \cup {"clock_set_back", "engine_blank"}

\* Where the verification is.
Refusals == {"bad_evidence", "bad_suite", "bad_scenario", "bad_engine"}
Places == {"idle", "suite", "scenario", "passed", "failed"} \cup Refusals

VerifyInit ==
    /\ Init
    /\ verifier = [at |-> "idle", fault |-> "none", inside |-> TRUE, withEngine |-> FALSE,
                   suite |-> <<>>, workloads |-> <<>>, engine |-> engineFile]

Verifying(label) == verifier.at = label /\ UNCHANGED vars

\* The evidence is read and decoded, and verifyCommonEvidence checks what it
\* says of itself.
ReadEvidence ==
    /\ Verifying("idle") /\ pc = "done" /\ Published
    /\ \E fault \in Faults \cup {"none"}, withEngine \in BOOLEAN :
         verifier' = [verifier EXCEPT
             !.fault = fault, !.withEngine = withEngine,
             !.at = IF fault = "none" THEN "suite" ELSE "bad_evidence"]

\* resolveVerifiedRepositoryFile follows the links on the path; Execute only
\* compares its text with the root.  Whether the file is now inside the root is
\* up to the repository, and only a file that is will be read.
Resolve(inside, good, refusal) ==
    [verifier EXCEPT !.inside = @ /\ inside,
                     !.at = IF inside /\ good THEN "scenario" ELSE refusal]

\* readVerifiedSuite, and one experiment for each scenario.
VerifySuite ==
    /\ Verifying("suite")
    /\ \E inside \in BOOLEAN :
         LET good == /\ suiteFile = suite /\ ValidSuite(suiteFile)
                     /\ Len(experiments) = Len(suiteFile)
         IN  verifier' = [Resolve(inside, good, "bad_suite") EXCEPT
                             !.suite = IF inside THEN suiteFile ELSE @]

Verified == Len(verifier.workloads)

\* verifyEngineIdentity and requireStableEngineBuild: unlike Execute, they
\* want the version of this labctl, and one build for all scenarios.
SoundBuild(build) ==
    /\ build \in Aligned \cap SameVersion
    /\ build = Build[experiments[1].runs[1].artifact]

\* Mutant: the recorded identity of the workload is taken for granted.
VerifyScenarioTrusts ==
    /\ Verifying("scenario") /\ Verified < Len(verifier.suite)
    /\ LET e == experiments[Verified + 1]
           good == \A k \in DOMAIN e.runs : SoundBuild(Build[e.runs[k].artifact])
       IN  verifier' = [Resolve(TRUE, good, "bad_scenario") EXCEPT
                             !.workloads = Append(@, workloadFile[e.scenario])]

\* One round of the loop of verifyCapture or verifyProfileReport.
VerifyScenario ==
    /\ Verifying("scenario") /\ Verified < Len(verifier.suite)
    /\ \E inside \in BOOLEAN :
         LET e == experiments[Verified + 1]
             file == workloadFile[verifier.suite[Verified + 1]]
             good == /\ e.scenario = verifier.suite[Verified + 1] /\ e.workload = file
                     /\ \A k \in DOMAIN e.runs : SoundBuild(Build[e.runs[k].artifact])
         IN  verifier' = [Resolve(inside, good, "bad_scenario") EXCEPT
                             !.workloads = IF inside THEN Append(@, file) ELSE @]

\* The executable is hashed if it is named, and the receipt is made.
VerifyEngine ==
    /\ Verifying("scenario") /\ Verified = Len(verifier.suite)
    /\ verifier' = [verifier EXCEPT !.engine = engineFile,
            !.at = IF verifier.withEngine /\ engineFile # engineHash THEN "bad_engine"
                   ELSE "passed"]

\* A file is not there or cannot be read.
VerifyFails ==
    /\ \E label \in {"idle", "suite", "scenario"} : Verifying(label)
    /\ pc = "done" /\ Published
    /\ verifier' = [verifier EXCEPT !.at = "failed"]

Verify == ReadEvidence \/ VerifySuite \/ VerifyScenario \/ VerifyEngine \/ VerifyFails

\* CaptureSuite with a verification at the end; nobody need run one.
VerifySpec ==
    /\ VerifyInit /\ [][(Next /\ UNCHANGED verifier) \/ Verify]_verifyVars
    /\ WF_verifyVars(Labctl /\ UNCHANGED verifier)

\* An executable may also come back.
RestoringVerifySpec ==
    VerifyInit /\ [][((Next \/ RestoreEngine) /\ UNCHANGED verifier) \/ Verify]_verifyVars

-----------------------------------------------------------------------------
(* Properties.                                                             *)

\* Evidence is refused for cause only.  Before any file is looked at: the wall
\* clock was set back, or a recorded path is unfit.  At the suite: its path
\* leads out of the root through a link, or its bytes are not those captured.
\* At a scenario: the same of its workload, or the engine has another version
\* than labctl; the build is never unstable, because Execute has seen to it.
\* At the executable: it was named, and it is another one.
RefusedForItsFault ==
    /\ verifier.at = "bad_evidence" => verifier.fault \in Faults
    /\ verifier.at = "bad_suite" => ~verifier.inside \/ verifier.suite # suite
    /\ verifier.at = "bad_scenario" =>
         \/ ~verifier.inside \/ Build[engineHash] \notin SameVersion
         \/ verifier.workloads[Verified] # experiments[Verified].workload
    /\ verifier.at = "bad_engine" => verifier.withEngine /\ verifier.engine # engineHash

\* A receipt is true, and evidence is refused for cause only.  If verification
\* passes, the evidence was free of faults, every file lay inside the root when
\* it was read, every engine process of the capture ran on the workload that
\* the verifier itself has read, in the order of the suite it has read, and,
\* with --engine, was the executable that the verifier has hashed.
ReceiptIsTrue ==
    /\ verifier.at = "passed" =>
         /\ verifier.fault = "none" /\ verifier.inside
         /\ Len(verifier.workloads) = Len(verifier.suite)
         /\ \A i \in DOMAIN verifier.suite :
              \A k \in DOMAIN experiments[i].runs :
                /\ experiments[i].scenario = verifier.suite[i]
                /\ experiments[i].runs[k].workload = verifier.workloads[i]
                /\ verifier.withEngine => experiments[i].runs[k].artifact = verifier.engine
    /\ RefusedForItsFault
=============================================================================
