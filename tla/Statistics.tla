----------------------------- MODULE Statistics -----------------------------
(***************************************************************************)
(* The integer statistics of labctl: the summary of a sample set           *)
(* (labctl-go/internal/benchmark/stats.go) and the analysis of a stage     *)
(* profile (labctl-go/internal/benchmark/profile_stats.go).  All of it is  *)
(* unsigned 64-bit arithmetic that must neither wrap nor panic, checked    *)
(* here with a smaller width on every small input.                         *)
(***************************************************************************)
EXTENDS Calculation, Integers, Sequences, FiniteSets

CONSTANTS
    Scale,        \* 10_000 basis points; also the 1_000 of the milli ratios
    Portable,     \* maxPortableJSONInteger
    U32,          \* math.MaxUint32
    MaxSamples,   \* bound on the samples of a summary
    Stages,       \* stages of a profile, generation first
    Fused,        \* the fused medians tried
    Deviations,   \* the median deviations tried
    Spans,        \* the medians of the whole profile tried
    Records       \* the record counts tried

ASSUME WidthAssumption ==
    /\ U64 \in Nat /\ Scale \in 1 .. U32 /\ U32 \in 1 .. Portable /\ Portable \in 1 .. U64 - 1
    /\ MaxSamples \in Nat /\ Stages \in Nat \ {0, 1}
    /\ Fused \cup Deviations \cup Spans \cup Records \subseteq 0 .. U64 - 1

Error == -1       \* a call returned an error
Panic == -2       \* bits.Div64 panicked

\* Every sample set, and every profile with these other figures; that the
\* deviation of the whole profile is not that of the fused runs is tried where
\* every record is accepted.  The results of the two runs are equal, differ,
\* or one is not valid.
StatisticsInit ==
    /\ report = Unanswered
    /\ \/ \E n \in 1 .. MaxSamples : \E s \in [1 .. n -> Uint64] :
            input = [kind |-> "samples", values |-> s]
       \/ \E s \in [1 .. Stages -> Uint64], f \in Fused, d, e \in Deviations,
             t \in Spans, r \in Records, results \in {"equal", "different", "invalid"} :
            \E a \in 0 .. r :
              /\ results = "equal" \/ (d = 0 /\ t > 0)
              /\ e = d \/ a = r
              /\ input = [kind |-> "profile", values |-> s, fused |-> f, deviation |-> d,
                          span |-> t, spanDeviation |-> e, records |-> r, accepted |-> a,
                          results |-> results]

-----------------------------------------------------------------------------
(* Summaries.                                                              *)

\* The ways to order n samples.
Orders == [n \in 1 .. MaxSamples |->
    {p \in [1 .. n -> 1 .. n] : \A i, j \in 1 .. n : p[i] = p[j] => i = j}]

\* sort.Slice: the values in an order in which they ascend.
Sorted(s) ==
    CHOOSE t \in {[k \in DOMAIN s |-> s[p[k]]] : p \in Orders[Len(s)]} :
        \A k \in 2 .. Len(s) : t[k - 1] <= t[k]

\* Mutant: the midpoint of the two middle values as half their sum.
MedianByHalfSum(sorted) ==
    LET middle == Len(sorted) \div 2
    IN  IF Len(sorted) % 2 = 1 THEN sorted[middle + 1]
        ELSE ((sorted[middle] + sorted[middle + 1]) % U64) \div 2

integerMedian(sorted) ==
    LET middle == Len(sorted) \div 2
        lower == sorted[middle]
        upper == sorted[middle + 1]
    IN  IF Len(sorted) % 2 = 1 THEN sorted[middle + 1]
        ELSE (lower + (upper - lower) \div 2) % U64

Distance(a, b) == IF a >= b THEN a - b ELSE b - a

summarizeValues(values) ==
    LET sorted == Sorted(values)
        median == integerMedian(sorted)
        deviations == [i \in DOMAIN sorted |-> Distance(sorted[i], median)]
    IN  [min |-> sorted[1], median |-> median,
         mad |-> integerMedian(Sorted(deviations)), max |-> sorted[Len(sorted)]]

Summarize ==
    /\ Asked("samples")
    /\ Answer([verdict |-> "summary", of |-> summarizeValues(input.values)])

-----------------------------------------------------------------------------
(* The analysis of a profile.                                              *)

addUint64(left, right) ==
    IF U64 - 1 - left < right THEN Error ELSE left + right

sumUint64(s) ==
    LET total[n \in 0 .. Len(s)] ==
          IF n = 0 THEN 0
          ELSE IF total[n - 1] = Error THEN Error
          ELSE addUint64(total[n - 1], s[n])
    IN  total[Len(s)]

\* bits.Mul64 and bits.Div64 of value * Scale by d: a quotient that does not
\* fit 64 bits is a panic, so is a division by zero.
Overflows(value, d) == (value * Scale) \div U64 >= d
Quotient(value, d) == IF Overflows(value, d) THEN Panic ELSE (value * Scale) \div d
Residual(value, d) == (value * Scale) % d

scaledRatio(numerator, denominator) ==
    IF denominator = 0 \/ Overflows(numerator, denominator) THEN Error
    ELSE IF Quotient(numerator, denominator) > Portable THEN Error
    ELSE Quotient(numerator, denominator)

ratioBasisPoints(numerator, denominator) ==
    LET ratio == scaledRatio(numerator, denominator)
    IN  IF ratio > U32 THEN Error ELSE ratio

\* Mutant: what is left over goes to the first stages.
ShareRankByPosition(residuals, i) == i - 1

\* The place of stage i among the residuals, sorted stably, largest first.
ShareRank(residuals, i) ==
    Cardinality({j \in DOMAIN residuals :
        residuals[j] > residuals[i] \/ (residuals[j] = residuals[i] /\ j < i)})

\* apportionBasisPoints, of values with a positive total: every stage gets
\* its floor, the largest residuals one more.
apportionBasisPoints(values, total) ==
    LET floors == [i \in DOMAIN values |-> Quotient(values[i], total)]
        residuals == [i \in DOMAIN values |-> Residual(values[i], total)]
        remaining == Scale - sumUint64(floors)
    IN  [i \in DOMAIN values |->
            IF ShareRank(residuals, i) < remaining THEN floors[i] + 1 ELSE floors[i]]

dominant(values) ==
    LET best[n \in DOMAIN values] ==
          IF n = 1 THEN 1
          ELSE IF values[n] > values[best[n - 1]] THEN n ELSE best[n - 1]
    IN  best[Len(values)]

\* AnalyzeScenario: any error ends it.
Analyze ==
    /\ Asked("profile")
    /\ LET medians == input.values
           pipeline == Tail(medians)
           total == sumUint64(medians)
           staged == sumUint64(pipeline)
           ratios == [fusedPerRecord  |-> scaledRatio(input.fused, input.records),
                      stagedPerRecord |-> scaledRatio(staged, input.records),
                      observer        |-> scaledRatio(staged, input.fused),
                      fusedMAD        |-> ratioBasisPoints(input.deviation, input.fused),
                      profileMAD      |-> ratioBasisPoints(input.spanDeviation, input.span),
                      selectivity     |-> ratioBasisPoints(input.accepted, input.records)]
       IN  Answer(
             IF \/ input.records = 0 \/ input.results # "equal"
                \/ total \in {Error, 0} \/ input.fused = 0 \/ input.span = 0
               THEN [verdict |-> "refused"]
             ELSE IF \E f \in DOMAIN ratios : ratios[f] = Error
               THEN [verdict |-> "refused"]
             ELSE [verdict |-> "analysis", total |-> total, staged |-> staged,
                   ratios |-> ratios, shares |-> apportionBasisPoints(medians, total),
                   dominant |-> dominant(medians),
                   dominantPipeline |-> dominant(pipeline) + 1])

StatisticsNext == Summarize \/ Analyze

-----------------------------------------------------------------------------
(* Properties: the answers against definitions over unbounded integers.    *)

\* The k-th smallest of the values, without sorting them.
OrderStatistic(s, k) ==
    CHOOSE v \in {s[i] : i \in DOMAIN s} :
        /\ Cardinality({i \in DOMAIN s : s[i] < v}) < k
        /\ k <= Cardinality({i \in DOMAIN s : s[i] <= v})

Median(s) ==
    (OrderStatistic(s, (Len(s) + 1) \div 2) + OrderStatistic(s, Len(s) \div 2 + 1)) \div 2

\* The summary is exact for samples in any order and up to the largest
\* 64-bit value: "Even-sized medians use the floor of the arithmetic
\* midpoint", and the deviation is the median of the distances to it.
SummaryIsExact ==
    input.kind = "samples" /\ report # Unanswered =>
        LET s == input.values
            m == Median(s)
        IN  report.of = [min |-> OrderStatistic(s, 1), median |-> m,
                         mad |-> Median([i \in DOMAIN s |-> Distance(s[i], m)]),
                         max |-> OrderStatistic(s, Len(s))]

TrueSum(s) ==
    LET total[n \in 0 .. Len(s)] == IF n = 0 THEN 0 ELSE total[n - 1] + s[n]
    IN  total[Len(s)]

\* The shares add up to the whole, each is its exact quota rounded down or up,
\* and a stage with a larger median never has a smaller share.
SharesAreProportional(v, s, total) ==
    /\ TrueSum(s) = Scale
    /\ \A i \in DOMAIN v :
         /\ s[i] * total <= v[i] * Scale + total - 1
         /\ v[i] * Scale <= s[i] * total + total - 1
         /\ \A j \in DOMAIN v : v[i] > v[j] => s[i] >= s[j]

\* q is n * Scale / d, rounded down.
IsScaledFloor(q, n, d) == q \in Nat /\ q * d <= n * Scale /\ n * Scale < (q + 1) * d

\* No division panicked and every ratio is the exact floor of what its name says.
RatiosAreExact(ratios, staged) ==
    /\ IsScaledFloor(ratios.fusedPerRecord, input.fused, input.records)
    /\ IsScaledFloor(ratios.stagedPerRecord, staged, input.records)
    /\ IsScaledFloor(ratios.observer, staged, input.fused)
    /\ IsScaledFloor(ratios.fusedMAD, input.deviation, input.fused)
    /\ IsScaledFloor(ratios.profileMAD, input.spanDeviation, input.span)
    /\ IsScaledFloor(ratios.selectivity, input.accepted, input.records)
    /\ ratios.selectivity <= Scale

\* The first of the largest values from position first on.
IsFirstLargest(d, first) ==
    \A i \in first .. Stages :
        /\ input.values[i] <= input.values[d]
        /\ i < d => input.values[i] < input.values[d]

\* An analysis is refused only where it must be: an empty workload, results
\* that differ, nothing measured, a true sum beyond 64 bits or a ratio beyond
\* what its field carries.
RefusedForCause(staged) ==
    LET Exceeds(n, d, limit) == n * Scale >= (limit + 1) * d
    IN  \/ 0 \in {input.records, input.fused, input.span} \/ input.results # "equal"
        \/ TrueSum(input.values) \notin 1 .. U64 - 1
        \/ Exceeds(input.fused, input.records, Portable)
        \/ Exceeds(staged, input.records, Portable) \/ Exceeds(staged, input.fused, Portable)
        \/ Exceeds(input.deviation, input.fused, U32)
        \/ Exceeds(input.spanDeviation, input.span, U32)

\* The analysis of a profile agrees with arithmetic that cannot overflow, ties
\* and stages of zero included: the sums are true, each of the six ratios is the
\* exact floor for its own operands, the shares are apportioned fairly, and the
\* dominant stages are the first largest (AnalyzeScenario, scaledRatio,
\* apportionBasisPoints, dominant); no input makes the 128-bit division panic,
\* and nothing else is refused.
AnalysisIsExact ==
    input.kind = "profile" /\ report # Unanswered =>
        LET staged == TrueSum(Tail(input.values))
        IN  /\ report.verdict = "refused" <=> RefusedForCause(staged)
            /\ report.verdict = "analysis" =>
                 /\ report.total = TrueSum(input.values) /\ report.staged = staged
                 /\ SharesAreProportional(input.values, report.shares, report.total)
                 /\ RatiosAreExact(report.ratios, staged)
                 /\ IsFirstLargest(report.dominant, 1)
                 /\ IsFirstLargest(report.dominantPipeline, 2)
=============================================================================
