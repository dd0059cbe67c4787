-------------------------- MODULE CaptureSuiteProofs --------------------------
(***************************************************************************)
(* Proofs about CaptureSuite and VerifyEvidence, for any suites, any       *)
(* executables and any number of changes of the input files.               *)
(*                                                                         *)
(* EvidenceOfOneEngine is not inductive: the executables are started long  *)
(* before the second hash is compared.  The argument is that the bytes of  *)
(* a new build are new: while the path still holds what was hashed first,  *)
(* nothing else has been there since, so nothing else was started; once it *)
(* holds something else, the second hash differs and nothing is published. *)
(***************************************************************************)
EXTENDS VerifyEvidence, TLAPS

\* All runs of a scenario were runs of one executable; all are of our source.
AllOf(rs, artifact) == \A k \in DOMAIN rs : rs[k].artifact = artifact
AllAligned(rs) == \A k \in DOMAIN rs : Build[rs[k].artifact] \in Aligned

Before == {"check", "suite", "hash", "doctor"}
Inside == {"start", "wait", "record"}
After  == {"persist", "print"}

\* What is there at each point of Execute: the suite is fixed before the first
\* scenario, and a process exists only while Execute waits for it.
FlowInv ==
    /\ pc \in Before => experiments = <<>> /\ runs = <<>>
    /\ pc \notin {"check", "suite", "done"} => ValidSuite(suite)
    /\ pc \in Inside => Remaining
    /\ pc \in {"start", "wait"} => Len(runs) < RunsNeeded
    /\ pc = "record" => Len(runs) = RunsNeeded
    /\ pc \in After => ~Remaining
    /\ pc # "wait" => child.status = "none"
    /\ pc = "print" => Published
    /\ Published => pc \in {"print", "done"} /\ ValidSuite(suite) /\ ~Remaining

\* What was read is what is run: the request carries the workload whose
\* identity is recorded.
InputsInv ==
    /\ pc \in Inside => \A k \in DOMAIN runs : runs[k].workload = workload
    /\ pc = "wait" => child.workload = workload
    /\ \A i \in DOMAIN experiments :
         /\ experiments[i].scenario = suite[i]
         /\ Len(experiments[i].runs) = RunsNeeded
         /\ \A k \in DOMAIN experiments[i].runs :
              experiments[i].runs[k].workload = experiments[i].workload

\* While the path holds the executable that was hashed, all processes were
\* that executable; from the second hash on that is so whatever it holds.
EngineInv ==
    /\ engineFile \in past /\ engineHash \in past
    /\ AllAligned(runs)
    /\ \A i \in DOMAIN experiments : AllAligned(experiments[i].runs)
    /\ engineFile = engineHash =>
         /\ child.status # "none" => child.artifact = engineHash
         /\ AllOf(runs, engineHash)
         /\ \A i \in DOMAIN experiments : AllOf(experiments[i].runs, engineHash)
    /\ pc \in After \/ Published =>
         \A i \in DOMAIN experiments : AllOf(experiments[i].runs, engineHash)

\* Whoever was interrupted early never gets to the last engine process.
SignalInv ==
    /\ cancelled = "early" /\ pc # "done" => ~LastEngineStarted
    /\ cancelled = "early" => ~Published

CaptureInv ==
    TypeOK /\ FlowInv /\ InputsInv /\ EngineInv /\ SignalInv /\ ZeroMeansPublished

\* What the verification keeps.
VerifierType ==
    [at : Places, fault : Faults \cup {"none"}, inside : BOOLEAN, withEngine : BOOLEAN,
     suite : Suites \cup {<<>>}, workloads : Seq(Version), engine : Artifacts]

\* The verification has read published evidence, which does not change any
\* more; what it has read agrees with it, and where it does not the receipt is
\* refused.
VerifyInv ==
    /\ verifier \in VerifierType
    /\ verifier.at # "idle" => pc = "done" /\ Published
    /\ verifier.at \in {"idle", "suite"} => verifier.workloads = <<>>
    /\ verifier.at \in {"idle", "suite", "scenario", "passed"} =>
         verifier.inside /\ verifier.fault = "none"
    /\ verifier.at \in {"scenario", "passed"} =>
         /\ verifier.suite = suite /\ Verified <= Len(suite)
         /\ \A i \in DOMAIN verifier.workloads :
              verifier.workloads[i] = experiments[i].workload
    /\ verifier.at = "passed" =>
         /\ Verified = Len(suite)
         /\ verifier.withEngine => verifier.engine = engineHash
    /\ RefusedForItsFault

-----------------------------------------------------------------------------
\* The scenario under way is one of the suite.
LEMMA ScenarioType ==
  ASSUME TypeOK, Remaining
  PROVE  Scenario \in Scenarios
  <1>1. suite \in Seq(Scenarios) /\ experiments \in Seq(Experiment)
    BY SuiteAssumption DEF TypeOK
  <1>2. Len(experiments) + 1 \in 1 .. Len(suite)
    BY <1>1 DEF Remaining
  <1> QED BY <1>1, <1>2 DEF Scenario

\* A run joins those of its scenario.
LEMMA AppendRun ==
  ASSUME NEW T, NEW rs \in Seq(T), NEW r \in T
  PROVE  /\ Append(rs, r) \in Seq(T)
         /\ Len(Append(rs, r)) = Len(rs) + 1
         /\ \A k \in DOMAIN rs : Append(rs, r)[k] = rs[k]
         /\ Append(rs, r)[Len(rs) + 1] = r
         /\ DOMAIN Append(rs, r) = DOMAIN rs \cup {Len(rs) + 1}
  OBVIOUS

\* Every step preserves the types.
LEMMA TypeStep ==
  ASSUME TypeOK, FlowInv, [Next]_vars
  PROVE  TypeOK'
  <1> USE SuiteAssumption DEF TypeOK, FlowInv, Run, Process, Experiment, Version,
          RunsNeeded, Remaining, Before, Inside,
             Goto, Fail, inputVars, readVars
  <1>1. CASE CheckOptions
    BY <1>1 DEF CheckOptions
  <1>2. CASE ReadSuite
    BY <1>2 DEF ReadSuite
  <1>3. CASE HashEngine
    BY <1>3 DEF HashEngine
  <1>4. CASE CheckEnvironment
    BY <1>4 DEF CheckEnvironment
  <1>5. CASE BeginScenario
    <2>1. Scenario \in Scenarios
      BY <1>5, ScenarioType DEF BeginScenario
    <2>2. workloadFile[Scenario] \in Version
      BY <2>1
    <2>3. CASE workload' = workloadFile[Scenario] /\ runs' = <<>> /\ Goto("start")
      BY <1>5, <2>2, <2>3 DEF BeginScenario
    <2>4. CASE Fail /\ UNCHANGED <<workload, runs>>
      BY <1>5, <2>4 DEF BeginScenario
    <2> QED BY <1>5, <2>3, <2>4 DEF BeginScenario
  <1>6. CASE StartEngine
    BY <1>6 DEF StartEngine, Launch
  <1>7. CASE KillEngine
    BY <1>7 DEF KillEngine
  <1>8. CASE WaitEngine
    <2> DEFINE r == [artifact |-> child.artifact, workload |-> child.workload]
    <2>1. child' \in Process /\ r \in Run
      BY <1>8 DEF WaitEngine
    <2>2. CASE AcceptAnswer
      <3>1. runs' \in Seq(Run) /\ Len(runs') = Len(runs) + 1
        BY <2>1, <2>2, AppendRun DEF AcceptAnswer
      <3> QED BY <1>8, <2>1, <2>2, <3>1, SMTT(30) DEF WaitEngine, AcceptAnswer
    <2>3. CASE Fail /\ UNCHANGED runs
      BY <1>8, <2>1, <2>3 DEF WaitEngine
    <2> QED BY <1>8, <2>2, <2>3 DEF WaitEngine
  <1>9. CASE RecordExperiment
    <2> DEFINE e == [scenario |-> Scenario, workload |-> workload, runs |-> runs]
    <2>0. Scenario \in Scenarios
      BY <1>9, ScenarioType DEF RecordExperiment
    <2>1. e \in Experiment
      BY <2>0
    <2> HIDE DEF e
    <2>2. ASSUME experiments' = Append(experiments, e), Goto("scenario") PROVE TypeOK'
      <3>1. experiments' \in Seq(Experiment) /\ Len(experiments') = Len(experiments) + 1
        BY <2>1, <2>2, AppendRun
      <3> QED BY <1>9, <2>2, <3>1 DEF RecordExperiment
    <2>3. CASE Fail /\ UNCHANGED experiments
      BY <1>9, <2>3 DEF RecordExperiment
    <2> QED BY <1>9, <2>2, <2>3 DEF RecordExperiment, e
  <1>10. CASE RehashEngine
    BY <1>10, SMTT(30) DEF RehashEngine, Remaining
  <1>11. CASE Persist
    BY <1>11, SMTT(30) DEF Persist
  <1>12. CASE PrintSummary
    BY <1>12 DEF PrintSummary
  <1>13. CASE EngineEnds
    BY <1>13 DEF EngineEnds
  <1>14. CASE Signal
    BY <1>14 DEF Signal
  <1>15. CASE RebuildEngine
    BY <1>15 DEF RebuildEngine, ReplaceEngine, Edit
  <1>16. CASE AnotherPublishes
    BY <1>16 DEF AnotherPublishes
  <1>17. ASSUME NEW s \in Suites, EditSuite(s) PROVE TypeOK'
    BY <1>17 DEF EditSuite, Edit
  <1>18. ASSUME NEW s \in Scenarios, EditWorkload(s) PROVE TypeOK'
    BY <1>18 DEF EditWorkload, Edit
  <1>19. CASE UNCHANGED vars
    BY <1>19 DEF vars
  <1> HIDE DEF TypeOK
  <1> QED BY <1>1, <1>2, <1>3, <1>4, <1>5, <1>6, <1>7, <1>8, <1>9, <1>10, <1>11, <1>12,
          <1>13, <1>14, <1>15, <1>16, <1>17, <1>18, <1>19
             DEF Next, Labctl, Environment

\* Every step preserves FlowInv.
LEMMA FlowStep ==
  ASSUME TypeOK, FlowInv, [Next]_vars
  PROVE  FlowInv'
  <1> USE SuiteAssumption DEF TypeOK, FlowInv, Run, Process, Experiment, Version,
          RunsNeeded, Remaining, Before, Inside, After, Published,
             Goto, Fail, inputVars, readVars
  <1>1. CASE CheckOptions
    BY <1>1 DEF CheckOptions
  <1>2. CASE ReadSuite
    BY <1>2 DEF ReadSuite
  <1>3. CASE HashEngine
    BY <1>3 DEF HashEngine
  <1>4. CASE CheckEnvironment
    BY <1>4 DEF CheckEnvironment
  <1>5. CASE BeginScenario
    <2>1. ASSUME runs' = <<>> PROVE Len(runs') < RunsNeeded'
      BY <1>5, <2>1 DEF BeginScenario
    <2> QED BY <1>5, <2>1 DEF BeginScenario
  <1>6. CASE StartEngine
    BY <1>6 DEF StartEngine, Launch
  <1>7. CASE KillEngine
    BY <1>7 DEF KillEngine
  <1>8. CASE WaitEngine
    <2> DEFINE r == [artifact |-> child.artifact, workload |-> child.workload]
    <2>1. child' \in Process /\ r \in Run
      BY <1>8 DEF WaitEngine
    <2>2. CASE AcceptAnswer
      <3>1. runs' \in Seq(Run) /\ Len(runs') = Len(runs) + 1
        BY <2>1, <2>2, AppendRun DEF AcceptAnswer
      <3> QED BY <1>8, <2>1, <2>2, <3>1 DEF WaitEngine, AcceptAnswer
    <2>3. CASE Fail /\ UNCHANGED runs
      BY <1>8, <2>1, <2>3 DEF WaitEngine
    <2> QED BY <1>8, <2>2, <2>3 DEF WaitEngine
  <1>9. CASE RecordExperiment
    BY <1>9 DEF RecordExperiment, Remaining, Scenario
  <1>10. CASE RehashEngine
    BY <1>10 DEF RehashEngine, Remaining
  <1>11. CASE Persist
    BY <1>11 DEF Persist
  <1>12. CASE PrintSummary
    BY <1>12 DEF PrintSummary
  <1>13. CASE EngineEnds
    BY <1>13 DEF EngineEnds
  <1>14. CASE Signal
    BY <1>14 DEF Signal
  <1>15. CASE RebuildEngine
    BY <1>15 DEF RebuildEngine, ReplaceEngine, Edit
  <1>16. CASE AnotherPublishes
    BY <1>16 DEF AnotherPublishes
  <1>17. ASSUME NEW s \in Suites, EditSuite(s) PROVE FlowInv'
    BY <1>17 DEF EditSuite, Edit
  <1>18. ASSUME NEW s \in Scenarios, EditWorkload(s) PROVE FlowInv'
    BY <1>18 DEF EditWorkload, Edit
  <1>19. CASE UNCHANGED vars
    BY <1>19 DEF vars
  <1> HIDE DEF FlowInv
  <1> QED BY <1>1, <1>2, <1>3, <1>4, <1>5, <1>6, <1>7, <1>8, <1>9, <1>10, <1>11, <1>12,
          <1>13, <1>14, <1>15, <1>16, <1>17, <1>18, <1>19
             DEF Next, Labctl, Environment

\* Every step preserves InputsInv: a run joins with the workload it was sent, and
\* a scenario is recorded with the workload its runs have.
LEMMA InputsStep ==
  ASSUME TypeOK, FlowInv, InputsInv, [Next]_vars
  PROVE  InputsInv'
  <1> USE SuiteAssumption DEF TypeOK, FlowInv, InputsInv, Run, Process, Experiment,
          RunsNeeded, Remaining, Before,
             Inside, After, Published, Goto, Fail, inputVars, readVars
  <1>1. CASE CheckOptions
    BY <1>1 DEF CheckOptions
  <1>2. CASE ReadSuite
    BY <1>2 DEF ReadSuite
  <1>3. CASE HashEngine
    BY <1>3 DEF HashEngine
  <1>4. CASE CheckEnvironment
    BY <1>4 DEF CheckEnvironment
  <1>5. CASE BeginScenario
    BY <1>5 DEF BeginScenario
  <1>6. CASE StartEngine
    BY <1>6 DEF StartEngine, Launch
  <1>7. CASE KillEngine
    BY <1>7 DEF KillEngine
  <1>8. CASE WaitEngine
    <2> DEFINE r == [artifact |-> child.artifact, workload |-> child.workload]
    <2>1. CASE AcceptAnswer
      <3>1. r \in Run /\ runs' = Append(runs, r)
        BY <2>1 DEF AcceptAnswer
      <3>2. /\ DOMAIN runs' = DOMAIN runs \cup {Len(runs) + 1}
            /\ \A k \in DOMAIN runs : runs'[k] = runs[k]
            /\ runs'[Len(runs) + 1] = r
        BY <3>1, AppendRun
      <3> QED BY <1>8, <2>1, <3>2 DEF WaitEngine, AcceptAnswer
    <2>2. CASE Fail /\ UNCHANGED runs
      BY <1>8, <2>2 DEF WaitEngine
    <2> QED BY <1>8, <2>1, <2>2 DEF WaitEngine
  <1>9. CASE RecordExperiment
    <2> DEFINE e == [scenario |-> Scenario, workload |-> workload, runs |-> runs]
    <2>1. CASE experiments' = Append(experiments, e) /\ Goto("scenario")
      <3>1. e \in Experiment
        BY <1>9, ScenarioType DEF RecordExperiment
      <3>2. /\ DOMAIN experiments' = DOMAIN experiments \cup {Len(experiments) + 1}
            /\ \A i \in DOMAIN experiments : experiments'[i] = experiments[i]
            /\ experiments'[Len(experiments) + 1] = e
        BY <2>1, <3>1, AppendRun
      <3>3. UNCHANGED <<mode, suite>> /\ pc' = "scenario"
        BY <1>9, <2>1 DEF RecordExperiment
      <3>4. /\ e.scenario = suite[Len(experiments) + 1] /\ Len(e.runs) = RunsNeeded
            /\ \A k \in DOMAIN e.runs : e.runs[k].workload = e.workload
        BY <1>9 DEF RecordExperiment, Scenario
      <3> HIDE DEF e
      <3> QED BY <3>2, <3>3, <3>4
    <2>2. CASE Fail /\ UNCHANGED experiments
      BY <1>9, <2>2 DEF RecordExperiment
    <2> QED BY <1>9, <2>1, <2>2 DEF RecordExperiment
  <1>10. CASE RehashEngine
    BY <1>10 DEF RehashEngine
  <1>11. CASE Persist
    BY <1>11 DEF Persist
  <1>12. CASE PrintSummary
    BY <1>12 DEF PrintSummary
  <1>13. CASE EngineEnds
    BY <1>13 DEF EngineEnds
  <1>14. CASE Signal
    BY <1>14 DEF Signal
  <1>15. CASE RebuildEngine
    BY <1>15 DEF RebuildEngine, ReplaceEngine, Edit
  <1>16. CASE AnotherPublishes
    BY <1>16 DEF AnotherPublishes
  <1>17. ASSUME NEW s \in Suites, EditSuite(s) PROVE InputsInv'
    BY <1>17 DEF EditSuite, Edit
  <1>18. ASSUME NEW s \in Scenarios, EditWorkload(s) PROVE InputsInv'
    BY <1>18 DEF EditWorkload, Edit
  <1>19. CASE UNCHANGED vars
    BY <1>19 DEF vars
  <1> HIDE DEF InputsInv
  <1> QED BY <1>1, <1>2, <1>3, <1>4, <1>5, <1>6, <1>7, <1>8, <1>9, <1>10,
             <1>11, <1>12, <1>13, <1>14, <1>15, <1>16, <1>17, <1>18, <1>19
             DEF Next, Labctl, Environment

\* Every step preserves EngineInv: a new build leaves the path different from
\* the recorded hash for good.
LEMMA EngineStep ==
  ASSUME TypeOK, FlowInv, EngineInv, [Next]_vars
  PROVE  EngineInv'
  <1> USE SuiteAssumption DEF TypeOK, FlowInv, EngineInv, AllOf, AllAligned, Run, Process,
          Experiment, RunsNeeded, Remaining, Before,
             Inside, After, Published, Goto, Fail, inputVars, readVars
  <1>1. CASE CheckOptions
    BY <1>1 DEF CheckOptions
  <1>2. CASE ReadSuite
    BY <1>2 DEF ReadSuite
  <1>3. CASE HashEngine
    BY <1>3 DEF HashEngine
  <1>4. CASE CheckEnvironment
    BY <1>4 DEF CheckEnvironment
  <1>5. CASE BeginScenario
    BY <1>5 DEF BeginScenario
  <1>6. CASE StartEngine
    BY <1>6 DEF StartEngine, Launch
  <1>7. CASE KillEngine
    BY <1>7 DEF KillEngine
  <1>8. CASE WaitEngine
    <2> DEFINE r == [artifact |-> child.artifact, workload |-> child.workload]
    <2>1. CASE AcceptAnswer
      <3>1. r \in Run /\ runs' = Append(runs, r)
        BY <2>1 DEF AcceptAnswer
      <3>2. /\ DOMAIN runs' = DOMAIN runs \cup {Len(runs) + 1}
            /\ \A k \in DOMAIN runs : runs'[k] = runs[k]
            /\ runs'[Len(runs) + 1] = r
        BY <3>1, AppendRun
      <3> QED BY <1>8, <2>1, <3>2, SMTT(30) DEF WaitEngine, AcceptAnswer
    <2>2. CASE Fail /\ UNCHANGED runs
      BY <1>8, <2>2 DEF WaitEngine
    <2> QED BY <1>8, <2>1, <2>2 DEF WaitEngine
  <1>9. CASE RecordExperiment
    <2> DEFINE e == [scenario |-> Scenario, workload |-> workload, runs |-> runs]
    <2>1. CASE experiments' = Append(experiments, e) /\ Goto("scenario")
      <3>1. e \in Experiment
        BY <1>9, ScenarioType DEF RecordExperiment
      <3>2. /\ DOMAIN experiments' = DOMAIN experiments \cup {Len(experiments) + 1}
            /\ \A i \in DOMAIN experiments : experiments'[i] = experiments[i]
            /\ experiments'[Len(experiments) + 1] = e
        BY <2>1, <3>1, AppendRun
      <3> QED BY <1>9, <2>1, <3>2 DEF RecordExperiment, Scenario
    <2>2. CASE Fail /\ UNCHANGED experiments
      BY <1>9, <2>2 DEF RecordExperiment
    <2> QED BY <1>9, <2>1, <2>2 DEF RecordExperiment
  <1>10. CASE RehashEngine
    BY <1>10 DEF RehashEngine
  <1>11. CASE Persist
    BY <1>11 DEF Persist
  <1>12. CASE PrintSummary
    BY <1>12 DEF PrintSummary
  <1>13. CASE EngineEnds
    BY <1>13 DEF EngineEnds
  <1>14. CASE Signal
    BY <1>14 DEF Signal
  <1>15. CASE RebuildEngine
    BY <1>15 DEF RebuildEngine, ReplaceEngine, Edit
  <1>16. CASE AnotherPublishes
    BY <1>16 DEF AnotherPublishes
  <1>17. ASSUME NEW s \in Suites, EditSuite(s) PROVE EngineInv'
    BY <1>17 DEF EditSuite, Edit
  <1>18. ASSUME NEW s \in Scenarios, EditWorkload(s) PROVE EngineInv'
    BY <1>18 DEF EditWorkload, Edit
  <1>19. CASE UNCHANGED vars
    BY <1>19 DEF vars
  <1> HIDE DEF EngineInv
  <1> QED BY <1>1, <1>2, <1>3, <1>4, <1>5, <1>6, <1>7, <1>8, <1>9, <1>10,
             <1>11, <1>12, <1>13, <1>14, <1>15, <1>16, <1>17, <1>18, <1>19
             DEF Next, Labctl, Environment

\* Every step preserves SignalInv: the two places where an engine process may be
\* started look at the context first.
LEMMA SignalStep ==
  ASSUME TypeOK, FlowInv, SignalInv, [Next]_vars
  PROVE  SignalInv'
  <1> USE SuiteAssumption DEF TypeOK, FlowInv, SignalInv, LastEngineStarted, Cancelled,
          Run, Process, Experiment, RunsNeeded, Remaining, Before,
             Inside, After, Published, Goto, Fail, inputVars, readVars
  <1>1. CASE CheckOptions
    BY <1>1 DEF CheckOptions
  <1>2. CASE ReadSuite
    BY <1>2 DEF ReadSuite
  <1>3. CASE HashEngine
    BY <1>3 DEF HashEngine
  <1>4. CASE CheckEnvironment
    BY <1>4 DEF CheckEnvironment
  <1>5. CASE BeginScenario
    BY <1>5 DEF BeginScenario
  <1>6. CASE StartEngine
    BY <1>6 DEF StartEngine, Launch
  <1>7. CASE KillEngine
    BY <1>7 DEF KillEngine
  <1>8. CASE WaitEngine
    <2>1. CASE AcceptAnswer
      <3>1. Len(runs') = Len(runs) + 1
        BY <2>1 DEF AcceptAnswer
      <3> QED BY <1>8, <2>1, <3>1 DEF WaitEngine, AcceptAnswer
    <2>2. CASE Fail /\ UNCHANGED runs
      BY <1>8, <2>2 DEF WaitEngine
    <2> QED BY <1>8, <2>1, <2>2 DEF WaitEngine
  <1>9. CASE RecordExperiment
    BY <1>9 DEF RecordExperiment
  <1>10. CASE RehashEngine
    BY <1>10 DEF RehashEngine
  <1>11. CASE Persist
    BY <1>11 DEF Persist
  <1>12. CASE PrintSummary
    BY <1>12 DEF PrintSummary
  <1>13. CASE EngineEnds
    BY <1>13 DEF EngineEnds
  <1>14. CASE Signal
    BY <1>14 DEF Signal
  <1>15. CASE RebuildEngine
    BY <1>15 DEF RebuildEngine, ReplaceEngine, Edit
  <1>16. CASE AnotherPublishes
    BY <1>16 DEF AnotherPublishes
  <1>17. ASSUME NEW s \in Suites, EditSuite(s) PROVE SignalInv'
    BY <1>17 DEF EditSuite, Edit
  <1>18. ASSUME NEW s \in Scenarios, EditWorkload(s) PROVE SignalInv'
    BY <1>18 DEF EditWorkload, Edit
  <1>19. CASE UNCHANGED vars
    BY <1>19 DEF vars
  <1> HIDE DEF SignalInv
  <1> QED BY <1>1, <1>2, <1>3, <1>4, <1>5, <1>6, <1>7, <1>8, <1>9, <1>10,
             <1>11, <1>12, <1>13, <1>14, <1>15, <1>16, <1>17, <1>18, <1>19
             DEF Next, Labctl, Environment

\* Every step preserves ZeroMeansPublished.
LEMMA ExitStep ==
  ASSUME TypeOK, FlowInv, ZeroMeansPublished, [Next]_vars
  PROVE  ZeroMeansPublished'
  <1> USE SuiteAssumption DEF TypeOK, FlowInv, ZeroMeansPublished, Run, Process,
          Experiment, RunsNeeded, Remaining, Before,
             Inside, After, Published, Goto, Fail, inputVars, readVars
  <1>1. CASE CheckOptions
    BY <1>1 DEF CheckOptions
  <1>2. CASE ReadSuite
    BY <1>2 DEF ReadSuite
  <1>3. CASE HashEngine
    BY <1>3 DEF HashEngine
  <1>4. CASE CheckEnvironment
    BY <1>4 DEF CheckEnvironment
  <1>5. CASE BeginScenario
    BY <1>5 DEF BeginScenario
  <1>6. CASE StartEngine
    BY <1>6 DEF StartEngine, Launch
  <1>7. CASE KillEngine
    BY <1>7 DEF KillEngine
  <1>8. CASE WaitEngine
    BY <1>8 DEF WaitEngine, AcceptAnswer
  <1>9. CASE RecordExperiment
    BY <1>9 DEF RecordExperiment
  <1>10. CASE RehashEngine
    BY <1>10 DEF RehashEngine
  <1>11. CASE Persist
    BY <1>11 DEF Persist
  <1>12. CASE PrintSummary
    BY <1>12 DEF PrintSummary
  <1>13. CASE EngineEnds
    BY <1>13 DEF EngineEnds
  <1>14. CASE Signal
    BY <1>14 DEF Signal
  <1>15. CASE RebuildEngine
    BY <1>15 DEF RebuildEngine, ReplaceEngine, Edit
  <1>16. CASE AnotherPublishes
    BY <1>16 DEF AnotherPublishes
  <1>17. ASSUME NEW s \in Suites, EditSuite(s) PROVE ZeroMeansPublished'
    BY <1>17 DEF EditSuite, Edit
  <1>18. ASSUME NEW s \in Scenarios, EditWorkload(s) PROVE ZeroMeansPublished'
    BY <1>18 DEF EditWorkload, Edit
  <1>19. CASE UNCHANGED vars
    BY <1>19 DEF vars
  <1> HIDE DEF ZeroMeansPublished
  <1> QED BY <1>1, <1>2, <1>3, <1>4, <1>5, <1>6, <1>7, <1>8, <1>9, <1>10,
             <1>11, <1>12, <1>13, <1>14, <1>15, <1>16, <1>17, <1>18, <1>19
             DEF Next, Labctl, Environment

-----------------------------------------------------------------------------
(* The capture.                                                            *)

\* The capture starts with nothing read and nothing written.
LEMMA CaptureInit ==
  ASSUME Init
  PROVE  CaptureInv
  <1>1. TypeOK
    BY SuiteAssumption
       DEF Init, TypeOK, Version, Run, Process, Experiment, RunsNeeded
  <1>2. FlowInv /\ InputsInv /\ SignalInv /\ ZeroMeansPublished
    BY DEF Init, FlowInv, InputsInv, SignalInv, ZeroMeansPublished, Published, Before,
           Inside, After
  <1>3. EngineInv
    BY DEF Init, EngineInv, AllOf, AllAligned, Published, After
  <1> QED BY <1>1, <1>2, <1>3 DEF CaptureInv

\* Every step of a capture preserves all parts of its invariant together.
LEMMA CaptureStep ==
  ASSUME CaptureInv, [Next]_vars
  PROVE  CaptureInv'
  BY TypeStep, FlowStep, InputsStep, EngineStep, SignalStep, ExitStep DEF CaptureInv

\* What the inductive invariant says about a published capture.
LEMMA CaptureImplies ==
  ASSUME CaptureInv
  PROVE  /\ EvidenceOfOneEngine /\ EvidenceMatchesInputs
         /\ InterruptedLeavesNothing /\ ZeroMeansPublished
  <1> USE DEF CaptureInv, TypeOK
  <1>1. EvidenceOfOneEngine
    BY DEF EngineInv, AllOf, AllAligned, EvidenceOfOneEngine
  <1>2. EvidenceMatchesInputs
    <2> SUFFICES ASSUME Published PROVE EvidenceMatchesInputs
      BY DEF EvidenceMatchesInputs
    <2>1. ValidSuite(suite) /\ Len(experiments) = Len(suite)
      BY SuiteAssumption DEF FlowInv, Remaining
    <2> QED BY <2>1 DEF InputsInv, EvidenceMatchesInputs
  <1>3. InterruptedLeavesNothing
    BY DEF FlowInv, SignalInv, InterruptedLeavesNothing
  <1> QED BY <1>1, <1>2, <1>3

\* CaptureInv is an invariant of a capture alone, and so all it implies.
THEOREM CapturesAreSound ==
  Spec => [](/\ EvidenceOfOneEngine /\ EvidenceMatchesInputs
             /\ InterruptedLeavesNothing /\ ZeroMeansPublished)
  <1>1. Init => CaptureInv
    BY CaptureInit
  <1>2. CaptureInv /\ [Next]_vars => CaptureInv'
    BY CaptureStep
  <1>3. CaptureInv => /\ EvidenceOfOneEngine /\ EvidenceMatchesInputs
                      /\ InterruptedLeavesNothing /\ ZeroMeansPublished
    BY CaptureImplies
  <1> QED BY <1>1, <1>2, <1>3, PTL DEF Spec

-----------------------------------------------------------------------------
(* The verification.                                                       *)

\* After Execute has returned, only the input files change.
LEMMA DoneIsFinal ==
  ASSUME CaptureInv, pc = "done", [Next]_vars
  PROVE  UNCHANGED <<mode, pc, suite, experiments, engineHash, evidence>>
  BY DEF CaptureInv, Next, Labctl, Environment, CheckOptions, ReadSuite,
         HashEngine, CheckEnvironment, BeginScenario, StartEngine, KillEngine,
         WaitEngine, RecordExperiment, RehashEngine, Persist, PrintSummary, EngineEnds,
         Signal, RebuildEngine, ReplaceEngine, AnotherPublishes, EditSuite,
         EditWorkload, Edit, inputVars, readVars, vars

\* At the start no verification has found anything.
LEMMA VerifyStart ==
  ASSUME VerifyInit
  PROVE  VerifyInv
  BY SuiteAssumption DEF VerifyInit, Init, VerifyInv, VerifierType, Places, Faults,
                         RefusedForItsFault

\* What the capture does, and what happens to the files later, leaves a
\* verification in order.
LEMMA CaptureKeepsVerify ==
  ASSUME CaptureInv, VerifyInv, [Next]_vars, UNCHANGED verifier
  PROVE  VerifyInv'
  <1>1. CASE verifier.at = "idle"
    BY <1>1 DEF VerifyInv, RefusedForItsFault
  <1>2. CASE verifier.at # "idle"
    <2>1. UNCHANGED <<pc, suite, experiments, engineHash, evidence>>
      BY <1>2, DoneIsFinal DEF VerifyInv
    <2> QED BY <1>2, <2>1 DEF VerifyInv, RefusedForItsFault, Verified, Published
  <1> QED BY <1>1, <1>2

\* Every step of the verification preserves VerifyInv.
LEMMA VerifierStep ==
  ASSUME CaptureInv, VerifyInv, Verify
  PROVE  VerifyInv'
  <1>0. UNCHANGED vars
    BY DEF Verify, ReadEvidence, VerifySuite, VerifyScenario, VerifyEngine, VerifyFails,
           Verifying
  <1> USE <1>0 DEF Verified, vars
  <1>t. verifier \in VerifierType
    BY DEF VerifyInv
  <1>1. CASE ReadEvidence
    BY <1>1, <1>t DEF ReadEvidence, Verifying, VerifyInv, Published, RefusedForItsFault,
            VerifierType, Places, Refusals
  <1>2. CASE VerifySuite
    <2>1. Published /\ ValidSuite(suite) /\ Len(experiments) = Len(suite)
      BY <1>2, CaptureImplies DEF VerifySuite, Verifying, VerifyInv, EvidenceMatchesInputs
    <2>2. PICK inside \in BOOLEAN :
            LET good == /\ suiteFile = suite /\ ValidSuite(suiteFile)
                        /\ Len(experiments) = Len(suiteFile)
            IN  verifier' = [Resolve(inside, good, "bad_suite") EXCEPT
                                !.suite = IF inside THEN suiteFile ELSE @]
      BY <1>2 DEF VerifySuite
    <2>3. suiteFile \in Suites /\ suite \in Seq(Scenarios)
      BY SuiteAssumption DEF CaptureInv, TypeOK
    <2>4. /\ verifier.workloads = <<>> /\ pc = "done" /\ verifier.inside
          /\ verifier.fault = "none"
      BY <1>2 DEF VerifySuite, Verifying, VerifyInv
    <2>5. CASE inside /\ suiteFile = suite
      <3>1. /\ verifier' \in VerifierType /\ verifier'.at = "scenario"
            /\ verifier'.suite = suite /\ verifier'.workloads = <<>>
            /\ verifier'.inside /\ verifier'.fault = "none"
        BY <1>t, <2>1, <2>2, <2>3, <2>4, <2>5 DEF Resolve, VerifierType, Places
      <3> QED BY <2>1, <2>3, <2>4, <3>1 DEF VerifyInv, RefusedForItsFault, Published
    <2>6. CASE ~(inside /\ suiteFile = suite)
      <3>1. /\ verifier' \in VerifierType /\ verifier'.at = "bad_suite"
            /\ ~verifier'.inside \/ verifier'.suite # suite
        BY <1>t, <2>2, <2>3, <2>6 DEF Resolve, VerifierType, Places, Refusals
      <3> QED BY <2>1, <2>4, <3>1 DEF VerifyInv, RefusedForItsFault, Published
    <2> QED BY <2>5, <2>6
  <1>3. CASE VerifyScenario
    <2> DEFINE n == Len(verifier.workloads) + 1
               e == experiments[n]
               file == workloadFile[verifier.suite[n]]
               good == /\ e.scenario = verifier.suite[n] /\ e.workload = file
                       /\ \A k \in DOMAIN e.runs : SoundBuild(Build[e.runs[k].artifact])
    <2>1. /\ verifier.at = "scenario" /\ verifier.suite = suite /\ Published /\ pc = "done"
          /\ verifier.inside /\ verifier.fault = "none"
          /\ n \in 1 .. Len(suite) /\ Len(experiments) = Len(suite)
          /\ suite \in Seq(Scenarios) /\ experiments \in Seq(Experiment)
          /\ e.scenario = suite[n] /\ workloadFile \in [Scenarios -> Version]
      <3>1. /\ verifier.at = "scenario" /\ verifier.suite = suite /\ Published /\ pc = "done"
            /\ verifier.inside /\ verifier.fault = "none"
        BY <1>3 DEF VerifyScenario, Verifying, VerifyInv
      <3>2. suite \in Seq(Scenarios) /\ experiments \in Seq(Experiment)
        BY SuiteAssumption DEF CaptureInv, TypeOK
      <3>3. n \in 1 .. Len(suite)
        <4>1. Len(verifier.workloads) < Len(verifier.suite)
          BY <1>3 DEF VerifyScenario
        <4>2. verifier.workloads \in Seq(Version)
          BY <1>t DEF VerifierType
        <4> QED BY <3>1, <3>2, <4>1, <4>2
      <3>4. /\ Len(experiments) = Len(suite)
            /\ \A i \in DOMAIN experiments : experiments[i].scenario = suite[i]
        BY <3>1, CaptureImplies DEF EvidenceMatchesInputs
      <3> QED BY <3>1, <3>2, <3>3, <3>4 DEF CaptureInv, TypeOK
    <2>2. file \in Version
      BY <2>1
    <2>3. PICK inside \in BOOLEAN :
            verifier' = [Resolve(inside, good, "bad_scenario") EXCEPT
                            !.workloads = IF inside THEN Append(@, file) ELSE @]
      BY <1>3 DEF VerifyScenario
    <2>4. ~good => e.workload # file \/ Build[engineHash] \notin SameVersion
      <3>1. /\ \A i \in DOMAIN experiments : \A k \in DOMAIN experiments[i].runs :
                 experiments[i].runs[k].artifact = engineHash /\ Build[engineHash] \in Aligned
            /\ \A i \in DOMAIN experiments : Len(experiments[i].runs) = RunsNeeded
        BY <2>1, CaptureImplies DEF EvidenceOfOneEngine, EvidenceMatchesInputs
      <3>2. experiments[1].runs \in Seq(Run) /\ 1 \in DOMAIN experiments[1].runs
        <4>1. 1 \in DOMAIN experiments /\ experiments[1] \in Experiment
          BY <2>1
        <4>2. experiments[1].runs \in Seq(Run) /\ Len(experiments[1].runs) >= 1
          BY <3>1, <4>1 DEF Experiment, RunsNeeded
        <4> QED BY <4>2
      <3>3. experiments[1].runs[1].artifact = engineHash
        BY <2>1, <3>1, <3>2
      <3>4. n \in DOMAIN experiments
        BY <2>1
      <3> QED BY <2>1, <3>1, <3>3, <3>4 DEF SoundBuild
    <2> HIDE DEF good
    <2>5. /\ Append(verifier.workloads, file) \in Seq(Version)
          /\ DOMAIN Append(verifier.workloads, file) = DOMAIN verifier.workloads \cup {n}
          /\ \A i \in DOMAIN verifier.workloads :
               Append(verifier.workloads, file)[i] = verifier.workloads[i]
          /\ Append(verifier.workloads, file)[n] = file
          /\ Len(Append(verifier.workloads, file)) = n
      <3>1. verifier.workloads \in Seq(Version)
        BY <1>t DEF VerifierType
      <3> QED BY <2>2, <3>1, AppendRun
    <2>6. CASE ~inside
      <3>1. /\ verifier' \in VerifierType /\ verifier'.at = "bad_scenario"
            /\ ~verifier'.inside
        BY <1>t, <2>3, <2>6 DEF Resolve, VerifierType, Places, Refusals
      <3> QED BY <2>1, <3>1 DEF VerifyInv, RefusedForItsFault, Published
    <2>7. CASE inside /\ good
      <3>1. e.workload = file
        BY <2>7 DEF good
      <3>2. verifier' = [verifier EXCEPT !.workloads = Append(@, file)]
        BY <1>t, <2>1, <2>3, <2>7 DEF Resolve, VerifierType
      <3>3. /\ verifier' \in VerifierType /\ verifier'.at = "scenario"
            /\ verifier'.suite = suite /\ verifier'.inside /\ verifier'.fault = "none"
            /\ verifier'.workloads = Append(verifier.workloads, file)
        BY <1>t, <2>1, <2>5, <3>2 DEF VerifierType
      <3>4. \A i \in DOMAIN verifier.workloads :
              verifier.workloads[i] = experiments[i].workload
        BY <2>1 DEF VerifyInv
      <3> QED BY <2>1, <2>5, <3>1, <3>3, <3>4 DEF VerifyInv, RefusedForItsFault, Published
    <2>8. CASE inside /\ ~good
      <3>1. /\ verifier' \in VerifierType /\ verifier'.at = "bad_scenario"
            /\ verifier'.workloads = Append(verifier.workloads, file)
        BY <1>t, <2>3, <2>5, <2>8 DEF Resolve, VerifierType, Places, Refusals
      <3>2. \/ Build[engineHash] \notin SameVersion
            \/ verifier'.workloads[n] # experiments[n].workload
        BY <2>4, <2>5, <2>8, <3>1
      <3>3. Len(verifier'.workloads) = n
        BY <2>5, <3>1
      <3> QED BY <2>1, <3>1, <3>2, <3>3 DEF VerifyInv, RefusedForItsFault, Published
    <2> QED BY <2>6, <2>7, <2>8
  <1>4. CASE VerifyEngine
    BY <1>4, <1>t DEF VerifyEngine, Verifying, VerifyInv, Published, RefusedForItsFault,
            CaptureInv, TypeOK, VerifierType, Places, Refusals
  <1>5. CASE VerifyFails
    BY <1>5, <1>t DEF VerifyFails, Verifying, VerifyInv, Published, RefusedForItsFault,
            VerifierType, Places
  <1> QED BY <1>1, <1>2, <1>3, <1>4, <1>5 DEF Verify

\* A verification that has passed is true of what it has read, and one that has
\* refused has a cause.
LEMMA VerifyImplies ==
  ASSUME CaptureInv, VerifyInv
  PROVE  ReceiptIsTrue
  <1>1. ASSUME verifier.at = "passed"
        PROVE  /\ verifier.fault = "none" /\ verifier.inside
               /\ Len(verifier.workloads) = Len(verifier.suite)
               /\ \A i \in DOMAIN verifier.suite : \A k \in DOMAIN experiments[i].runs :
                    /\ experiments[i].scenario = verifier.suite[i]
                    /\ experiments[i].runs[k].workload = verifier.workloads[i]
                    /\ verifier.withEngine =>
                         experiments[i].runs[k].artifact = verifier.engine
    <2>1. Published /\ verifier.suite = suite /\ Len(verifier.workloads) = Len(suite)
      BY <1>1 DEF VerifyInv, Verified
    <2>2. /\ suite \in Seq(Scenarios) /\ experiments \in Seq(Experiment)
          /\ verifier.workloads \in Seq(Version)
      BY SuiteAssumption DEF CaptureInv, TypeOK, VerifyInv, VerifierType
    <2>3. DOMAIN suite = DOMAIN experiments /\ DOMAIN suite = DOMAIN verifier.workloads
      BY <2>1, <2>2, CaptureImplies DEF EvidenceMatchesInputs
    <2>4. ASSUME NEW i \in DOMAIN suite, NEW k \in DOMAIN experiments[i].runs
          PROVE  /\ experiments[i].scenario = suite[i]
                 /\ experiments[i].runs[k].workload = experiments[i].workload
                 /\ experiments[i].runs[k].artifact = engineHash
      BY <2>1, <2>3, <2>4, CaptureImplies DEF EvidenceMatchesInputs, EvidenceOfOneEngine
    <2> QED BY <1>1, <2>1, <2>3, <2>4 DEF VerifyInv
  <1> QED BY <1>1 DEF VerifyInv, ReceiptIsTrue

\* Every step of the capture and of the verification preserves both invariants.
LEMMA VerifyStep ==
  ASSUME CaptureInv, VerifyInv, [(Next /\ UNCHANGED verifier) \/ Verify]_verifyVars
  PROVE  CaptureInv' /\ VerifyInv'
  <1>1. CASE Verify
    <2>1. UNCHANGED vars
      BY <1>1 DEF Verify, ReadEvidence, VerifySuite, VerifyScenario, VerifyEngine,
                  VerifyFails, Verifying
    <2> QED BY <1>1, <2>1, CaptureStep, VerifierStep
  <1>2. CASE [Next]_vars /\ UNCHANGED verifier
    BY <1>2, CaptureStep, CaptureKeepsVerify
  <1> QED BY <1>1, <1>2 DEF verifyVars

\* CaptureInv and VerifyInv hold throughout a capture and its verification.
LEMMA VerifyInvariant == VerifySpec => [](CaptureInv /\ VerifyInv)
  <1>1. VerifyInit => CaptureInv /\ VerifyInv
    BY CaptureInit, VerifyStart DEF VerifyInit
  <1>2. CaptureInv /\ VerifyInv /\ [(Next /\ UNCHANGED verifier) \/ Verify]_verifyVars
          => (CaptureInv /\ VerifyInv)'
    BY VerifyStep
  <1> QED BY <1>1, <1>2, PTL DEF VerifySpec

-----------------------------------------------------------------------------
(* The theorems.                                                           *)

\* The evidence of Execute and ExecuteProfile is attributable to one executable
\* of the controller's source, although every process was started from a path
\* that could be overwritten at any time: comparing two hashes is enough, as
\* long as no earlier executable is put back.
THEOREM OneEngine == VerifySpec => []EvidenceOfOneEngine
  BY VerifyInvariant, CaptureImplies, PTL

\* Evidence holds exactly the scenarios of its suite, in order, each with all
\* its runs on the workload recorded with it, whatever happens to the files
\* while Execute and ExecuteProfile read them.
THEOREM MatchesInputs == VerifySpec => []EvidenceMatchesInputs
  BY VerifyInvariant, CaptureImplies, PTL

\* A signal before the last engine process leaves no evidence, and no process
\* of runOneShotEngine outlives the command.
THEOREM Interrupted == VerifySpec => []InterruptedLeavesNothing
  BY VerifyInvariant, CaptureImplies, PTL

\* Exit code 0 of benchmark and profile means that the output path names the
\* evidence of this run.
THEOREM ZeroPublishes == VerifySpec => []ZeroMeansPublished
  BY VerifyInvariant, CaptureImplies, PTL

\* A receipt of VerifyEvidence is true of the files it has read, all of them
\* inside the repository, and evidence that labctl has published is refused for a
\* fault of what was just looked at: the evidence itself, the suite, a workload
\* (resolveVerifiedRepositoryFile included), or the executable.
THEOREM ReceiptsAreTrue == VerifySpec => []ReceiptIsTrue
  BY VerifyInvariant, VerifyImplies, PTL
=============================================================================
