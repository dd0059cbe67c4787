---------------------------- MODULE CaptureSuite ----------------------------
(***************************************************************************)
(* `labctl benchmark` and `labctl profile`: Execute, ExecuteProfile, the   *)
(* one-shot engine processes they start (runOneShotEngine) and the exit    *)
(* code (labctl-go/internal/benchmark, labctl-go/internal/app).  Every     *)
(* input is a file that somebody may change while the suite runs, a signal *)
(* may come at any moment, and another labctl may write the same output.   *)
(*                                                                         *)
(* A file's content stands for its SHA-256.  An engine process computes on *)
(* the workload it was sent; the fields it echoes, its timings and its     *)
(* result are either those validateEngineResult accepts or not.            *)
(* Persistence is one step here; PersistEvidence has its steps.            *)
(***************************************************************************)
EXTENDS Naturals, Sequences

CONSTANTS
    Scenarios,    \* scenarios, each with its own workload file
    Suites,       \* the contents the suite file may have
    Artifacts,    \* the contents the engine executable may have
    Builds,       \* build identities: version, profile, target, rustc, source
    Build,        \* the identity each executable reports
    Aligned,      \* those with the source commit and state of this labctl
    MaxEdits      \* bound on the changes of input files during a run

ASSUME SuiteAssumption ==
    /\ Suites \subseteq Seq(Scenarios) /\ MaxEdits \in Nat
    /\ Build \in [Artifacts -> Builds] /\ Aligned \subseteq Builds

VARIABLES
    mode,         \* "benchmark" or "profile"
    suiteFile, workloadFile, engineFile,
                  \* the input files as they are now
    past,         \* executables that have been at the engine path
    edits,        \* changes of input files so far
    cancelled,    \* "no"; "early": before the last engine process; "late"
    pc,           \* where Execute or ExecuteProfile is
    suite,        \* the suite as it was read
    engineHash,   \* the first hash of the executable
    workload,     \* the workload of this scenario as it was read
    runs,         \* the accepted engine runs of this scenario
    experiments,  \* the finished scenarios
    child,        \* the engine process
    evidence,     \* the file at the output path: "none", "another" labctl's,
                  \* or "ours", which holds suite, engineHash, experiments
    code          \* the exit code

inputVars == <<mode, suiteFile, workloadFile, engineFile, past, edits>>
readVars  == <<suite, engineHash, workload>>
vars == <<mode, suiteFile, workloadFile, engineFile, past, edits, cancelled, pc,
          suite, engineHash, workload, runs, experiments, child, evidence, code>>

Version    == 0 .. MaxEdits
Run        == [artifact : Artifacts, workload : Version]
Process    == [status : {"none", "running", "answered", "failed"},
               artifact : Artifacts, workload : Version]
Experiment == [scenario : Scenarios, workload : Version, runs : Seq(Run)]

\* The engine runs a scenario needs: the fused baseline, then the profile.
RunsNeeded == IF mode = "profile" THEN 2 ELSE 1

\* The type invariant, with how far the loop variables may get.
TypeOK ==
    /\ mode \in {"benchmark", "profile"}
    /\ suiteFile \in Suites /\ engineFile \in Artifacts /\ past \subseteq Artifacts
    /\ workloadFile \in [Scenarios -> Version] /\ edits \in Version
    /\ cancelled \in {"no", "early", "late"}
    /\ pc \in {"check", "suite", "hash", "doctor", "scenario", "start", "wait",
               "record", "persist", "print", "done"}
    /\ suite \in Suites \cup {<<>>} /\ engineHash \in Artifacts
    /\ workload \in Version /\ child \in Process
    /\ runs \in Seq(Run) /\ Len(runs) <= RunsNeeded
    /\ experiments \in Seq(Experiment) /\ Len(experiments) <= Len(suite)
    /\ evidence \in {"none", "another", "ours"}
    /\ code \in 0 .. 2 /\ (pc # "done" => code = 0)

Init ==
    /\ mode \in {"benchmark", "profile"}
    /\ suiteFile \in Suites /\ engineFile \in Artifacts /\ past = {engineFile}
    /\ workloadFile = [s \in Scenarios |-> 0] /\ edits = 0
    /\ cancelled = "no" /\ pc = "check"
    /\ suite = <<>> /\ engineHash = engineFile /\ workload = 0
    /\ runs = <<>> /\ experiments = <<>>
    /\ child = [status |-> "none", artifact |-> engineFile, workload |-> 0]
    /\ evidence \in {"none", "another"} /\ code = 0

Cancelled == cancelled # "no"

Goto(label) == pc' = label /\ UNCHANGED code

\* commandError: every error of Execute ends the command with code 1.
Fail == pc' = "done" /\ code' = 1

-----------------------------------------------------------------------------
(* Before the first scenario.                                              *)

\* The flags (a usage error has code 2), validateOptions, the context, and
\* requireAbsent on the output path.
CheckOptions ==
    /\ pc = "check"
    /\ \/ pc' = "done" /\ code' = 2
       \/ Fail
       \/ ~Cancelled /\ evidence = "none" /\ Goto("suite")
    /\ UNCHANGED <<inputVars, readVars, cancelled, runs, experiments, child, evidence>>

\* Suite.Validate: at least one scenario, no name twice.
ValidSuite(s) == s # <<>> /\ \A i, j \in DOMAIN s : s[i] = s[j] => i = j

\* The suite file is read once; its hash is taken of the same bytes.
ReadSuite ==
    /\ pc = "suite"
    /\ \/ Fail /\ UNCHANGED suite
       \/ ValidSuite(suiteFile) /\ suite' = suiteFile /\ Goto("hash")
    /\ UNCHANGED <<inputVars, engineHash, workload, cancelled, runs, experiments,
                   child, evidence>>

HashEngine ==
    /\ pc = "hash"
    /\ \/ Fail /\ UNCHANGED engineHash
       \/ engineHash' = engineFile /\ Goto("doctor")
    /\ UNCHANGED <<inputVars, suite, workload, cancelled, runs, experiments, child,
                   evidence>>

\* doctor.Check: a cancelled probe counts as an unusable tool.
CheckEnvironment ==
    /\ pc = "doctor"
    /\ Fail \/ (~Cancelled /\ Goto("scenario"))
    /\ UNCHANGED <<inputVars, readVars, cancelled, runs, experiments, child, evidence>>

-----------------------------------------------------------------------------
(* One scenario after the other.                                           *)

Remaining == Len(experiments) < Len(suite)
Scenario  == suite[Len(experiments) + 1]

\* The workload file is read, projected and checked.
BeginScenario ==
    /\ pc = "scenario" /\ Remaining
    /\ \/ Fail /\ UNCHANGED <<workload, runs>>
       \/ /\ ~Cancelled
          /\ workload' = workloadFile[Scenario] /\ runs' = <<>> /\ Goto("start")
    /\ UNCHANGED <<inputVars, suite, engineHash, cancelled, experiments, child, evidence>>

\* The executable is what is at the path now.
Launch(content) ==
    child' = [status |-> "running", artifact |-> engineFile, workload |-> content]

\* Mutant: the request is made from the file instead of from what was read.
StartEngineRereads ==
    /\ pc = "start" /\ ~Cancelled /\ Launch(workloadFile[Scenario]) /\ Goto("wait")
    /\ UNCHANGED <<inputVars, readVars, cancelled, runs, experiments, evidence>>

\* runOneShotEngine up to the start of the process: the context, the size of
\* the request, and the start itself may all refuse.  The request carries the
\* workload that was read.
StartEngine ==
    /\ pc = "start"
    /\ \/ Fail /\ UNCHANGED child
       \/ ~Cancelled /\ Launch(workload) /\ Goto("wait")
    /\ UNCHANGED <<inputVars, readVars, cancelled, runs, experiments, evidence>>

\* Mutant: nobody kills the process.
KillEngineNever == FALSE /\ UNCHANGED vars

\* CommandContext kills the process once the context is done.
KillEngine ==
    /\ child.status = "running" /\ Cancelled
    /\ child' = [child EXCEPT !.status = "failed"]
    /\ UNCHANGED <<inputVars, readVars, cancelled, pc, runs, experiments, evidence, code>>

\* An answer is accepted if it is framed and valid, its source is the
\* controller's, and its build is that of the scenario's other run.
AcceptAnswer ==
    /\ child.status = "answered" /\ Build[child.artifact] \in Aligned
    /\ \A k \in DOMAIN runs : Build[runs[k].artifact] = Build[child.artifact]
    /\ runs' = Append(runs, [artifact |-> child.artifact, workload |-> child.workload])
    /\ Goto(IF Len(runs) + 1 < RunsNeeded THEN "start" ELSE "record")

\* Mutant: the command does not wait for the process it gives up.
WaitEngineNot ==
    /\ pc = "wait" /\ (child.status # "running" \/ Cancelled)
    /\ \/ Fail /\ UNCHANGED <<runs, child>>
       \/ AcceptAnswer /\ child' = [child EXCEPT !.status = "none"]
    /\ UNCHANGED <<inputVars, readVars, cancelled, experiments, evidence>>

\* Run returns when the process is gone and its output is drained.  An answer
\* that came before the kill may be accepted although the context is done.
WaitEngine ==
    /\ pc = "wait" /\ child.status \in {"answered", "failed"}
    /\ child' = [child EXCEPT !.status = "none"]
    /\ AcceptAnswer \/ (Fail /\ UNCHANGED runs)
    /\ UNCHANGED <<inputVars, readVars, cancelled, experiments, evidence>>

\* Summaries and, for a pair, equal results and the analysis.
RecordExperiment ==
    /\ pc = "record"
    /\ \/ Fail /\ UNCHANGED experiments
       \/ /\ experiments' = Append(experiments,
                [scenario |-> Scenario, workload |-> workload, runs |-> runs])
          /\ Goto("scenario")
    /\ UNCHANGED <<inputVars, readVars, cancelled, runs, child, evidence>>

-----------------------------------------------------------------------------
(* After the last scenario.                                                *)

\* Mutant: the second hash is not compared.
RehashEngineNot ==
    /\ pc = "scenario" /\ ~Remaining /\ Goto("persist")
    /\ UNCHANGED <<inputVars, readVars, cancelled, runs, experiments, child, evidence>>

\* The executable is hashed again; the clock must not have gone backwards.
RehashEngine ==
    /\ pc = "scenario" /\ ~Remaining
    /\ Fail \/ (engineFile = engineHash /\ Goto("persist"))
    /\ UNCHANGED <<inputVars, readVars, cancelled, runs, experiments, child, evidence>>

\* Mutant: evidence that is already there counts as success.
PersistAnyhow ==
    /\ pc = "persist" /\ Goto("print")
    /\ evidence' = IF evidence = "none" THEN "ours" ELSE evidence
    /\ UNCHANGED <<inputVars, readVars, cancelled, runs, experiments, child>>

\* persist: an error and no evidence, evidence, or evidence and a late error.
Persist ==
    /\ pc = "persist"
    /\ \/ Fail /\ UNCHANGED evidence
       \/ evidence = "none" /\ evidence' = "ours" /\ (Goto("print") \/ Fail)
    /\ UNCHANGED <<inputVars, readVars, cancelled, runs, experiments, child>>

\* The summary on stdout, and the exit.
PrintSummary ==
    /\ pc = "print"
    /\ Fail \/ Goto("done")
    /\ UNCHANGED <<inputVars, readVars, cancelled, runs, experiments, child, evidence>>

-----------------------------------------------------------------------------
(* The environment.                                                        *)

\* The engine process answers, or exits without a usable answer.
EngineEnds ==
    /\ child.status = "running"
    /\ \E status \in {"answered", "failed"} : child' = [child EXCEPT !.status = status]
    /\ UNCHANGED <<inputVars, readVars, cancelled, pc, runs, experiments, evidence, code>>

\* The last engine process of the suite has been started.
LastEngineStarted ==
    /\ pc \notin {"check", "suite", "hash", "doctor"}
    /\ \/ ~Remaining
       \/ /\ Len(experiments) + 1 = Len(suite)
          /\ \/ pc = "record"
             \/ pc = "wait" /\ Len(runs) + 1 = RunsNeeded

\* SIGINT or SIGTERM.
Signal ==
    /\ ~Cancelled /\ pc # "done"
    /\ cancelled' = IF LastEngineStarted THEN "late" ELSE "early"
    /\ UNCHANGED <<inputVars, readVars, pc, runs, experiments, child, evidence, code>>

Edit ==
    /\ edits < MaxEdits /\ edits' = edits + 1
    /\ UNCHANGED <<mode, readVars, cancelled, pc, runs, experiments, child, evidence, code>>

EditSuite(s) ==
    /\ s # suiteFile /\ suiteFile' = s /\ Edit
    /\ UNCHANGED <<workloadFile, engineFile, past>>

EditWorkload(s) ==
    /\ workloadFile' = [workloadFile EXCEPT ![s] = edits + 1] /\ Edit
    /\ UNCHANGED <<suiteFile, engineFile, past>>

ReplaceEngine(a) ==
    /\ engineFile' = a /\ past' = past \cup {a} /\ Edit
    /\ UNCHANGED <<suiteFile, workloadFile>>

\* A new build: its bytes are new.
RebuildEngine == \E a \in Artifacts \ past : ReplaceEngine(a)

\* An earlier executable is put back.
RestoreEngine == \E a \in past \ {engineFile} : ReplaceEngine(a)

\* Another labctl with the same output path is faster.
AnotherPublishes ==
    /\ evidence = "none" /\ evidence' = "another" /\ pc # "done"
    /\ UNCHANGED <<inputVars, readVars, cancelled, pc, runs, experiments, child, code>>

-----------------------------------------------------------------------------
Labctl ==
    \/ CheckOptions \/ ReadSuite \/ HashEngine \/ CheckEnvironment \/ BeginScenario
    \/ StartEngine \/ KillEngine \/ WaitEngine \/ RecordExperiment \/ RehashEngine
    \/ Persist \/ PrintSummary

Environment ==
    \/ EngineEnds \/ Signal \/ RebuildEngine \/ AnotherPublishes
    \/ (\E s \in Suites : EditSuite(s)) \/ (\E s \in Scenarios : EditWorkload(s))

Next == Labctl \/ Environment

Spec == Init /\ [][Next]_vars

\* labctl runs and SIGKILL is delivered; the engine owes nothing.
FairSpec == Spec /\ WF_vars(Labctl)

\* An executable may also come back.
RestoringSpec == Init /\ [][Next \/ RestoreEngine]_vars

-----------------------------------------------------------------------------
(* Properties.                                                             *)

Published == evidence = "ours"

\* Evidence is attributable to one executable of the controller's source: all
\* engine processes of a published capture ran the executable whose hash it
\* records, although every one of them was started from a path that could be
\* overwritten at any time.
EvidenceOfOneEngine ==
    Published => \A i \in DOMAIN experiments :
                   \A k \in DOMAIN experiments[i].runs :
                     /\ experiments[i].runs[k].artifact = engineHash
                     /\ Build[engineHash] \in Aligned

\* Evidence is self-contained: exactly the scenarios of the suite it names, in
\* order, each with all its engine runs, and each run on the very workload
\* whose hash is recorded, whatever happened to the files meanwhile.
EvidenceMatchesInputs ==
    Published =>
        /\ ValidSuite(suite) /\ Len(experiments) = Len(suite)
        /\ \A i \in DOMAIN experiments :
             LET e == experiments[i]
             IN  /\ e.scenario = suite[i] /\ Len(e.runs) = RunsNeeded
                 /\ \A k \in DOMAIN e.runs : e.runs[k].workload = e.workload

\* An interrupted capture leaves nothing: a signal before the last engine
\* process has been started means no evidence, ever, and Execute and
\* ExecuteProfile do not return while an engine process of theirs is alive.
InterruptedLeavesNothing ==
    /\ cancelled = "early" => ~Published
    /\ pc = "done" => child.status # "running"

\* Exit code 0 means that the output path names this run's evidence, also if
\* another labctl wanted the same path.
ZeroMeansPublished == pc = "done" /\ code = 0 => Published

\* A signal ends the command, also if the engine hangs.
SignalEndsCapture == Cancelled ~> (pc = "done")
=============================================================================
