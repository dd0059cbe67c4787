---------------------------- MODULE Measurement ----------------------------
(***************************************************************************)
(* One engine process of `labctl benchmark` or `labctl profile` and the    *)
(* times it reports: the engine's execute and run_iteration                *)
(* (engine-rs/crates/paraflow-engine/src/benchmark.rs and profile.rs), and *)
(* RunEngine, RunProfileEngine and their validation in labctl              *)
(* (labctl-go/internal/benchmark/engine.go and profile_engine.go).  Both   *)
(* read the monotonic clock of the host.                                   *)
(***************************************************************************)
EXTENDS Statistics

CONSTANTS
    MaxClock,     \* bound on the clock
    MaxRetained,  \* bound on the retained samples
    Times         \* the times tried in answers that no clock has made

ASSUME MeasurementAssumption ==
    MaxClock \in 0 .. U64 - 1 /\ MaxRetained \in Nat /\ Times \subseteq Uint64

Modes == {"benchmark", "profile"}

\* A profile has five parts; three show as much.
Parts(mode) == IF mode = "profile" THEN 3 ELSE 2

\* The parts of an iteration; their sum, which only a profile reports; and the
\* time around them.
Sample(ordinal, parts, sum, total) ==
    [ordinal |-> ordinal, parts |-> parts, sum |-> sum, total |-> total]

\* A request to an engine; or an answer as it stands, from wherever: "form" is
\* whether all fields besides the times are what was asked for, the result valid.
MeasurementInit ==
    \/ /\ \E mode \in Modes, asked \in 1 .. MaxRetained, warmups \in 0 .. 1 :
            input = [kind |-> "measure", mode |-> mode, asked |-> asked,
                     warmups |-> warmups, now |-> 0]
       /\ report = [verdict |-> "launched", started |-> 0, samples |-> <<>>]
    \/ /\ \E mode \in Modes, form \in BOOLEAN, n \in 0 .. 2, ordinals \in BOOLEAN,
             experiment, orchestration \in Times :
            \E first, second, total \in [1 .. n -> Times], sums \in {0, U64 - 1} :
              input = [kind |-> "answer", mode |-> mode, asked |-> MaxRetained, form |-> form,
                       experiment |-> experiment, orchestration |-> orchestration,
                       samples |-> [i \in 1 .. n |->
                         Sample(IF ordinals THEN i - 1 ELSE 0, <<first[i], second[i]>>,
                                IF sums = 0 THEN (first[i] + second[i]) % U64 ELSE sums,
                                total[i])]]
       /\ report = Unanswered

-----------------------------------------------------------------------------
(* The engine.                                                             *)

Measuring(verdict) == input.kind = "measure" /\ report.verdict = verdict
Passes(d) == input.now + d <= MaxClock /\ input' = [input EXCEPT !.now = @ + d]

\* The process starts, the request is decoded, the oracle runs; then the
\* experiment's clock.
EngineBegins(d) ==
    /\ Measuring("launched") /\ Passes(d)
    /\ report' = [report EXCEPT !.verdict = "running", !.started = input.now + d]

\* run_iteration: the parts, one after the other, and what lies between them.
\* An iteration with another result than the oracle's ends it all; so would a
\* profile smaller than its parts, which such a clock cannot produce.
RunIteration(parts, between) ==
    LET total == TrueSum(parts) + between
        ordinal == Len(report.samples)
    IN  /\ Measuring("running") /\ ordinal < input.asked
        /\ input.now + total <= MaxClock
        /\ \/ report' = [report EXCEPT !.verdict = "mismatch"] /\ UNCHANGED input
           \/ /\ input' = [input EXCEPT !.now = @ + total,
                                        !.warmups = IF @ > 0 THEN @ - 1 ELSE 0]
              /\ report' = IF input.warmups > 0 THEN report
                           ELSE [report EXCEPT !.samples =
                                   Append(@, Sample(ordinal, parts, TrueSum(parts), total))]

\* The experiment's time, behind the last sample.
EngineEnds(d) ==
    /\ Measuring("running") /\ Len(report.samples) = input.asked /\ Passes(d)
    /\ report' = [verdict |-> "answered", samples |-> report.samples,
                  experiment |-> input.now + d - report.started]

-----------------------------------------------------------------------------
(* labctl.                                                                 *)

\* The time of a sample, if its own times are in order.
SampleTotal(mode, sample, index) ==
    LET sum == sumUint64(sample.parts)
    IN  IF \/ sample.ordinal # index - 1 \/ sum = Error \/ sample.total < sum
           \/ mode = "profile" /\ sample.sum # sum
          THEN Error ELSE sample.total

\* Mutant: the retained times are added up without a check.
retainedTotalWraps(mode, samples) ==
    LET total[n \in 0 .. Len(samples)] ==
          IF n = 0 THEN 0
          ELSE IF total[n - 1] = Error \/ SampleTotal(mode, samples[n], n) = Error THEN Error
          ELSE (total[n - 1] + SampleTotal(mode, samples[n], n)) % U64
    IN  total[Len(samples)]

retainedTotal(mode, samples) ==
    LET total[n \in 0 .. Len(samples)] ==
          IF n = 0 THEN 0
          ELSE IF total[n - 1] = Error \/ SampleTotal(mode, samples[n], n) = Error THEN Error
          ELSE addUint64(total[n - 1], SampleTotal(mode, samples[n], n))
    IN  total[Len(samples)]

\* validateEngineResult and validateProfileEngineResult.
validateEngineResult(mode, asked, samples, experiment) ==
    /\ Len(samples) = asked
    /\ retainedTotal(mode, samples) # Error
    /\ experiment >= retainedTotal(mode, samples)

Judged(accepted, samples, experiment, orchestration) ==
    [verdict |-> IF accepted THEN "accepted" ELSE "refused", samples |-> samples,
     experiment |-> experiment, orchestration |-> orchestration]

\* RunEngine, RunProfileEngine, after the process has ended: the time since
\* before its start must not be less than the engine's own.
RunEngine(d) ==
    /\ Measuring("answered") /\ Passes(d)
    /\ report' = Judged(
         /\ validateEngineResult(input.mode, input.asked, report.samples, report.experiment)
         /\ input.now + d >= report.experiment,
         report.samples, report.experiment, input.now + d)

\* The same checks, on an answer as it stands; in evidence too.
JudgeAnswer ==
    /\ Asked("answer")
    /\ Answer(Judged(
         /\ input.form
         /\ validateEngineResult(input.mode, input.asked, input.samples, input.experiment)
         /\ input.orchestration >= input.experiment,
         input.samples, input.experiment, input.orchestration))

MeasurementNext ==
    \/ \E d \in 0 .. 1 : EngineBegins(d) \/ EngineEnds(d) \/ RunEngine(d)
    \/ /\ Measuring("running")
       /\ \E parts \in [1 .. Parts(input.mode) -> 0 .. 1], d \in 0 .. 1 : RunIteration(parts, d)
    \/ JudgeAnswer

-----------------------------------------------------------------------------
(* Properties.                                                             *)

\* The times of an answer fit into each other, in numbers without bound.
Conserved(mode, asked, r) ==
    /\ Len(r.samples) = asked
    /\ \A i \in DOMAIN r.samples :
         LET s == r.samples[i]
         IN  /\ s.ordinal = i - 1 /\ TrueSum(s.parts) <= s.total
             /\ mode = "profile" => s.sum = TrueSum(s.parts)
    /\ TrueSum([i \in DOMAIN r.samples |-> r.samples[i].total]) <= r.experiment
    /\ r.experiment <= r.orchestration

\* Times are conserved across the two processes: labctl accepts an answer only
\* if parts, samples, experiment and its own time fit into each other, also
\* where 64-bit sums would wrap around; and whatever the clock does short of
\* going backwards, standing still included, it never refuses what an engine
\* has measured (run_iteration, validateEngineResult, RunEngine).
TimesAreConserved ==
    /\ input.kind = "measure" =>
         /\ report.verdict # "refused"
         /\ report.verdict = "accepted" => Conserved(input.mode, input.asked, report)
    /\ input.kind = "answer" /\ report # Unanswered =>
         (report.verdict = "accepted" <=> input.form /\ Conserved(input.mode, input.asked, report))
=============================================================================
