--------------------------- MODULE ResponseCodec ---------------------------
(***************************************************************************)
(* DecodeResponse and DecodeResult of                                      *)
(* labctl-go/internal/protocol/protocol.go: which frames of the engine are *)
(* an answer to the request, and which results can be true of a workload.  *)
(* The text has passed module JsonCheck.  A field of the envelope is <<>>  *)
(* when absent and <<v>> otherwise; a field that is null holds the zero    *)
(* value of its Go type.  All refusals are the same ProtocolError.         *)
(***************************************************************************)
EXTENDS Calculation, Integers, Sequences, FiniteSets

CONSTANTS
    Counts,          \* the counts tried in results and workloads
    MaxRecords,      \* maxSafeJSONInteger
    MaxCategories,   \* maxCategoryCount
    MaxMessage       \* maxErrorMessageRunes

ASSUME CodecAssumption ==
    Counts \subseteq Uint64 /\ {MaxRecords, MaxCategories, MaxMessage} \subseteq Nat

\* What is wrong with the form of a result before its numbers are looked at:
\* the strict decoding, hexUint64, or one of the checks of validateResult.
ResultForms == {"ok", "undecodable", "other_schema", "incomplete", "other_encoding",
                "bad_bits", "nan", "minus_inf"}

Result(form, accepted, histogram) ==
    [form |-> form, accepted |-> accepted, histogram |-> histogram]

NullResult == Result("other_schema", 0, <<>>)

\* An error object: its code, the length of its message, and its issues.
Issues == [field : {"absent", "null"}, list : {<<>>}] \cup
          [field : {"array"},
           list : {<<>>} \cup {<<"good", i>> : i \in {"good", "code", "message", "path"}}]
RemoteErrors == [form : {"ok", "undecodable", "unknown_code"},
                 message : {0, 1, MaxMessage, MaxMessage + 1}, issues : Issues]
NullError == [form |-> "unknown_code", message |-> 0,
              issues |-> [field |-> "absent", list |-> <<>>]]

\* The workload of the execute request in the examples, and two results.
Workload(named, records, categories) ==
    [named |-> named, records |-> records, categories |-> categories]
Job == Workload(TRUE, 2, 2)
GoodResult == Result("ok", 2, <<1, 1>>)
BadResult == Result("ok", 2, <<1, 2>>)

Absent == {<<>>}
Responses ==
    [kind : {"response"}, request : {"execute", "shutdown"},
     schema : {"own", "other"}, id : {"own", "other"},
     type : {"completed", "error", "shutdown_ack", "other"},
     name : Absent \cup {<<n>> : n \in {"null", "own", "other"}},
     execution : Absent \cup {<<b>> : b \in {"null", "scalar", "other"}},
     result : Absent \cup {<<r>> : r \in {NullResult, GoodResult, BadResult}},
     error : Absent \cup {<<e>> : e \in RemoteErrors \cup {NullError}}]

\* Every response; and every result of up to three categories, which captures
\* hold too.
CodecInit ==
    /\ report = Unanswered
    /\ \/ input \in Responses
       \/ \E form \in ResultForms, accepted \in Counts, n \in 0 .. 3 :
            \E h \in [1 .. n -> Counts], named \in BOOLEAN,
               records \in Counts, categories \in 0 .. 3 :
              /\ named \/ form = "ok"
              /\ input = [kind |-> "result", result |-> Result(form, accepted, h),
                          workload |-> Workload(named, records, categories)]

-----------------------------------------------------------------------------
Refused == -1

\* Mutant: the counts are added up and compared at the end.
HistogramTotalWraps(histogram, records) ==
    LET total[n \in 0 .. Len(histogram)] ==
          IF n = 0 THEN 0 ELSE (total[n - 1] + histogram[n]) % U64
    IN  total[Len(histogram)]

\* The loop over the histogram refuses a count before it can wrap the sum.
HistogramTotal(histogram, records) ==
    LET total[n \in 0 .. Len(histogram)] ==
          IF n = 0 THEN 0
          ELSE IF total[n - 1] = Refused \/ histogram[n] > records - total[n - 1]
            THEN Refused
          ELSE total[n - 1] + histogram[n]
    IN  total[Len(histogram)]

validateResult(wire, workload) ==
    /\ workload.named /\ workload.records <= MaxRecords
    /\ workload.categories \in 1 .. MaxCategories
    /\ wire.form = "ok"
    /\ wire.accepted <= workload.records
    /\ Len(wire.histogram) = workload.categories
    /\ HistogramTotal(wire.histogram, workload.records) = wire.accepted

-----------------------------------------------------------------------------
present(field) == field # <<>>

\* A pointer: null leaves it nil.
NamePresent == input.name \notin {<<>>, <<"null">>}

validMessage(length) == length \in 1 .. MaxMessage

decodeCompleted ==
    /\ input.request = "execute"
    /\ input.name = <<"own">>
    /\ input.execution = <<"scalar">>
    /\ present(input.result) /\ ~present(input.error)
    /\ validateResult(input.result[1], Job)

decodeRemoteError ==
    /\ input.request = "execute"
    /\ ~NamePresent /\ ~present(input.execution) /\ ~present(input.result)
    /\ present(input.error)
    /\ LET e == input.error[1]
       IN  /\ e.form = "ok" /\ validMessage(e.message)
           /\ e.issues.field # "null"
           /\ e.issues.field = "array" =>
                e.issues.list # <<>> /\ \A i \in DOMAIN e.issues.list : e.issues.list[i] = "good"

decodeShutdownAck ==
    /\ input.request = "shutdown"
    /\ ~NamePresent /\ ~present(input.execution)
    /\ ~present(input.result) /\ ~present(input.error)

Verdict(accepted) == [verdict |-> IF accepted THEN "accepted" ELSE "refused"]

DecodeResponse ==
    /\ Asked("response")
    /\ Answer(Verdict(
         /\ input.schema = "own" /\ input.id = "own"
         /\ \/ input.type = "completed" /\ decodeCompleted
            \/ input.type = "error" /\ decodeRemoteError
            \/ input.type = "shutdown_ack" /\ decodeShutdownAck))

DecodeResult ==
    /\ Asked("result")
    /\ Answer(Verdict(validateResult(input.result, input.workload)))

CodecNext == DecodeResponse \/ DecodeResult

-----------------------------------------------------------------------------
(* Properties.                                                             *)

Accepted(kind) == input.kind = kind /\ report.verdict = "accepted"

TrueTotal(histogram) ==
    LET total[n \in 0 .. Len(histogram)] == IF n = 0 THEN 0 ELSE total[n - 1] + histogram[n]
    IN  total[Len(histogram)]

\* A result that is accepted can be true of the workload: no more records than
\* there are, one count per category, and counts that add up, also where the
\* 64-bit sum would wrap around.  A result that can be true is not refused, and
\* a frame is the answer to one request only: what gets through with one kind
\* would not get through with another (validateResult, DecodeResponse).
AcceptedResultsAreConsistent ==
    /\ input.kind = "result" /\ report # Unanswered =>
         LET r == input.result
             w == input.workload
         IN  Accepted("result") <=>
               /\ r.form = "ok" /\ w.named
               /\ w.records <= MaxRecords /\ w.categories \in 1 .. MaxCategories
               /\ TrueTotal(r.histogram) = r.accepted /\ r.accepted <= w.records
               /\ Len(r.histogram) = w.categories
    /\ Accepted("response") =>
         /\ input.request = "execute" <=> input.type # "shutdown_ack"
         /\ Cardinality({f \in {"result", "error"} : present(input[f])}) =
              IF input.request = "execute" THEN 1 ELSE 0

\* "Unknown fields and mixed message variants are rejected": an error or an
\* acknowledgement has no field of another variant, whatever its value
\* (decodeRemoteError, decodeShutdownAck).
MixedVariantsAreRejected ==
    Accepted("response") /\ input.type # "completed" =>
        \A f \in {"name", "execution", "result"} : input[f] = <<>>
=============================================================================
