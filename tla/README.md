# ParaFlow in TLA+

ParaFlow measures data-parallel kernels. A Go controller, `labctl`, drives a
Rust process, `paraflow-engine`, over newline-delimited JSON on its standard
pipes, and turns what it measured into evidence files that are published once
and never replaced. The kernels are sequential; what is hard to get right is the
boundary between the two processes and the way evidence reaches the disk. That
is where this development starts.

Paths below are relative to the repository; `session.go` is
`labctl-go/internal/worker/session.go`, `server.rs` is
`engine-rs/crates/paraflow-engine/src/server.rs`, `persist.go` is
`labctl-go/internal/benchmark/persist.go`.

## Inventory

| Component | State | Operations | What is hard | What makes it correct |
|---|---|---|---|---|
| Worker session (`session.go`) | one-slot token channel, `stateMu` with open/closed/poisoned, request counter, three pipes, the child, `waitDone`, `stderrDone`, three `sync.Once` | `Start`, `Execute`, `Shutdown`, `Close`, `StderrTail` | concurrent callers, a transaction goroutine per call, contexts ending anywhere, `Close` beside a call, a child that hangs, lies or dies | one request in flight; a response answers its own request; whoever gives up on the child reaps it; closed and poisoned are final; cancellation and `Close` end calls |
| Job protocol (`internal/protocol`, `internal/jsoncheck`, crate `paraflow-protocol`) | the keys of the objects being scanned | encode a request, decode and validate a response | null against absent, nested keys, sums that wrap | only a response with the right ID, kind and fields is accepted; an accepted result can be true |
| Engine `serve` loop (`server.rs`) | the frame buffer | read a frame, decode, execute, respond | end of file inside a frame, error paths, exit status | each request is answered once, with its own ID |
| `labctl run` (`internal/app/app.go`, `cmd/labctl/main.go`) | the signal context | start, execute, shut down, print, deferred close | a signal or an engine crash at any moment | nothing is left behind, exit code 0 means done |
| Evidence persistence (`persist.go`) | files and directory entries, cached and on disk | make directory, check, create, write, sync, link, remove, sync directory | several processes, kills, failing calls, power loss | whole files only, no replacement, success is durable |
| Frame readers and buffers (`frame.go`, `server.rs`, `benchmark/engine.go`) | a partial frame; a bounded tail | read a fragment; write | boundaries of limits and chunks | the result does not depend on the chunking; bounds hold |
| Benchmark capture, profile report (`benchmark/execute.go`, `profile_execute.go`, `engine.go`, `profile_engine.go`) | the capture under construction, the engine's hash | run each scenario, summarise, persist | an artifact that changes, cancellation, a clock that goes back | no capture mixes artifacts; none is partial |
| Statistics (`stats.go`, `profile_stats.go`) | none | median, MAD, apportionment, ratios | 64-bit overflow, ties | exact against the definitions |
| Offline verification (`verify.go`) | none | recompute a capture or report | agreement with the producer | accepts what the producer writes, refuses what was changed |
| One-shot engine commands (`benchmark.rs`, `profile.rs`) | counters of a sampling run | warm-up, samples, totals | conservation of times, overflow | totals add up |
| Scalar pipeline, generation, contract (`scalar/`, `generation/`, crate `paraflow-contracts`) | accumulators | generate, transform, filter, aggregate | fused against staged evaluation | both agree |
| Command dispatch (`internal/app/app.go`) | the options read so far | read arguments, work, write | any order of arguments, output that cannot be written | a command runs on what was written; the exit code is true |
| Doctor (`internal/doctor`) | the results so far; the block of `/proc/cpuinfo` being read | probe the tools, describe the host | cancellation and time-outs, versions, the last block | ready means ready, also when interrupted |
| Build information (`internal/buildinfo`) | none | defaults and formatting | none | not modelled |

Interaction: `labctl run` calls the session; session and engine share two pipes
and a process; the session's goroutines share the token, `stateMu`, the pipes
and the child; benchmark and profile commands start one-shot engine processes
and call the persistence code; several `labctl` processes share a file system.

## Modules

| Module | Models |
|---|---|
| `WorkerSession` | `worker.Session` with an arbitrary child |
| `EngineServer` | the `serve` loop of the engine |
| `EngineSession` | `WorkerSession` and `EngineServer` over the same pipes and process |
| `RunCommand` | `labctl run` over `EngineSession` |
| `PersistEvidence` | `persistJSONNoOverwrite` and the file system under it |
| `FrameReader` | `readFrame` of the session and `read_frame` of the engine, byte by byte |
| `CaptureSuite` | `labctl benchmark` and `labctl profile` with their one-shot engines |
| `VerifyEvidence` | `labctl verify` on what `CaptureSuite` has published |
| `ChildOutput` | what is kept of a child's stdout and stderr, and the pipes |
| `SerialSession` | abstract: what a session promises its callers |
| `Statistics` | medians, deviations, ratios, apportionment |
| `Measurement` | the engine's sampling and clocks, and labctl's validation of the times |
| `JsonCheck` | the scan for duplicate keys |
| `ResponseCodec` | `DecodeResponse` and `DecodeResult` |
| `CommandLine` | dispatch, argument loops, exit codes |
| `Doctor` | `doctor.Check` and the host description |
| `Calculation` | what the six sequential modules share: an input, a report, a word of `U64` values |
| `WorkerSessionProofs`, `EngineSessionProofs`, `RunCommandProofs` | theorems about the session, about the session with the engine, about `labctl run`; each extends the one before |
| `PersistEvidenceProofs`, `FrameReaderProofs`, `ChildOutputProofs` | theorems about the module of the same name |
| `CaptureSuiteProofs` | theorems about `CaptureSuite` and `VerifyEvidence` |
| `CalculationsProofs` | theorems about the six sequential modules, as `MCCalculations` puts them together |
| `MC...` | values of the constants for TLC |

### WorkerSession

`pc` and `op` say where each caller is and in which method; `txn` is the phase of
the transaction goroutine a call has spawned and `result` its one-slot channel.
The grain is one channel operation, one critical section of `stateMu`, or one
system call.

* `Start`: `StartCall` (everything up to the launch; its failures leave nothing
  behind, the branch that kills and waits included) and `StartReturn` (the last
  look at the context). The two watching goroutines are `WaitReturns` and
  `StderrDrained`.
* `acquire`: `RequestCall`, `AcquireSelect`, `AcquireRecheck`. A select whose
  cases are both ready may take either.
* `checkOpen`: `CheckOpen`, and `CheckFindsExit` / `CheckExited` for the path that
  waits for the stderr goroutine with `stateMu` held (`mu`).
* `nextRequestID` and the encoding: `RequestFails`, `SendRequest`. The counter has
  width `SeqModulus` (2^64 in the code).
* `transact`: the goroutine is `TxnWrite`, `TxnWritten`, `TxnWriteFails`,
  `TxnRead`, `TxnReadFails`; the caller is `TakeResult`, `AwaitCancelled`,
  `AbandonRequest`, `DrainResult`. A frame may be cut anywhere: inside the JSON
  text ("prefix"), before its newline ("payload"), or not at all ("line").
* `Shutdown` after the acknowledgement: `MarkClosed`, `CloseInput`,
  `ShutdownSelect`, `ShutdownReturn`. `Close`: `CloseCall`, `MarkClosed`.
* `killAndReap`: `CloseInput`, `KillChild`, `Reap`, `ReapStderr`.
* The child answers anything or nothing (`ChildWrites`), closes its pipe ends
  (`ChildHangsUp`) or exits (`ChildExits`).

`Execute` and `Shutdown` end in a switch on the kind of the response whose default
poisons the session. `DecodeResponse` refuses those kinds before (an error
response to a shutdown, an acknowledgement of an execute, and so on), so the
defaults are unreachable and have no action. Texts (the cause of the poisoning,
the stderr tail in an error) are left out. The response payload is abstracted to
its kind and ID, or "garbage" when any other check of the decoder fails; those
checks are module `ResponseCodec`.

`SerialSession` says what all this is for: a server of one request at a time,
which may be stopped by anybody at any time and is then stopped for good, and
which a caller may leave without its answer only by stopping it. The refinement
mapping takes the holder of the token for the caller being served, and its place
in the method for the phase; "answered" needs a response with the caller's own ID.

### EngineServer and EngineSession

`engine.pos` counts the frames `read_frame` has consumed. At end of file
`read_frame` returns an unterminated rest as a frame, so a request that was cut
just before its newline is still executed; one that was cut earlier does not
decode and ends the process with a failure. Two error paths have no action since
no state of the composition takes them: a response above the frame limit (the
largest result the contract permits is far below it), and a write to a closed
stdout (the session closes its end only after the process was reaped). That the
engine's results pass the validation in `protocol.go` is an assumption of this
composition: the payload is only looked at in `ResponseCodec`.

### RunCommand

`step` is how far `runWorkload` is. The calls of the session are the actions of
`WorkerSession`, constrained to the command's one context: a call that begins
after the signal returns at once, and the signal cancels the call under way.

### PersistEvidence

Every system call is an action with its failures. `dir` and `data` are what
processes see, `diskDir` and `disk` what survives a power failure; anything may be
written back at any time. The file system is external and modelled by what the
code relies on: `link` refuses an existing name, `fsync` makes a file's content or
a directory's entries durable, a directory reaches the disk as a whole. A
directory that `MkdirAll` has just made may vanish with its content, because the
code does not sync its parent; so `OkMeansDurable` speaks of directories that were
there before ("old"), and of a nil return in a new directory nothing is claimed.

### FrameReader

Both readers of newline-delimited frames over a stream of ordinary bytes, CR and
LF. `ReadSlice` returns a line, a full buffer or the rest; `fill_buf` any number
of bytes. The two differ at the end of file: `readFrame` reports an unterminated
rest as truncated, `read_frame` returns it as a frame, its CR included. The
other modules read whole frames atomically; this one is why they may.

### CaptureSuite

`Execute` and `ExecuteProfile` in one module (`mode`), one action per file read,
process start, process end and error exit. The suite, the workloads and the
executable are files that change under the run (`EditSuite`, `EditWorkload`,
`RebuildEngine`); their contents stand for their hashes. `runs` are the accepted
answers of the current scenario, one for a benchmark and two for a profile.
`KillEngine` is `CommandContext`; `WaitEngine` is the return of `Run` and all
checks of the answer, whose fields, timings and result are valid or not by choice.
`cancelled` records only for the properties whether the signal came before the
last engine process was started; the code sees a done context in either case.
Persistence is one step with the three outcomes `PersistEvidence` has.

### VerifyEvidence

Extends `CaptureSuite` by one verification of the published evidence, one action
per file read, while files go on changing. `verifyCapture` and
`verifyProfileReport` make two kinds of checks. Those that repeat on the stored
data what the capture has checked on the same data (summaries, analysis, sample
times, results) have the same outcome, and are modelled where they are computed.
The others compare the evidence with the repository and with this labctl, and are
the actions here. Some of them refuse what `Execute` publishes, although no file
has changed:

* the recorded path of the suite must be a repository path
  (`validRepositoryJSONPath`: relative, no backslash, suffix `.json`, at most 512
  runes), and that of the executable must not be blank (`Faults`);
* the completion must not precede the start on the wall clock; `Execute` compares
  the monotonic readings that `time.Now` carries, which are not stored;
* suite and workloads must be inside the root after their links are followed
  (`Resolve`, for `resolveVerifiedRepositoryFile`); `Execute` compares paths as
  text, so it publishes a suite whose workload is a link that leads out;
* the engine must have labctl's version; `Execute` compares commit and source
  state only.

Which of the first three is the case is up to the environment, and the model tries
each. `ReceiptIsTrue` states that a verdict of refusal has one of these causes or a
file that has changed: an unstable build, a missing experiment or a workload of
another scenario is never one. A file that is missing or cannot be read ends the
verification without a verdict (`VerifyFails`), and nothing is said of it. labctl
verifies with the root of the capture, and a recorded path, cleaned as text, is
taken to name the file that `Execute` read.

### ChildOutput

A child that writes to two pipes of a finite size and blocks on a full one, and
the goroutines that drain them, in pieces of any size. A byte of stderr is its
position, so that `TailIsTheEnd` can say which bytes are kept. `boundedTail` and
`tailBuffer` are the same algorithm; `oneShot` tells the session's child, whose
stdout is the frames of `FrameReader`, from a one-shot engine, whose stdout goes
through `cappedBuffer` and `oneShotResponsePayload`.

### The sequential modules

`Statistics`, `Measurement`, `JsonCheck`, `ResponseCodec`, `CommandLine` and
`Doctor` model code that runs on one goroutine and shares nothing. Each puts its
question into `input` and its answer into `report`; loops that read something
(tokens, arguments, lines, probes, clock readings) take one step per item, and
`input` records what was read so that the properties can compare the answer with
the whole of it. The 64-bit word is `U64` values wide, the scale of 10,000 basis
points is `Scale`, and the limits of 2^32 and 2^53 are `U32` and `Portable`.

* `Statistics`: `integerMedian`, `summarizeValues`, `scaledRatio`,
  `apportionBasisPoints`, `dominant` and `AnalyzeScenario`, overflow checks and
  the panic of `bits.Div64` included, against definitions by counting and by
  cross-multiplication; each of the six ratios for its own operands. `Scale` stands
  for both scales of the code, 10,000 and 1,000. `sort.Slice` is a choice among the
  orders in which the values ascend.
* `Measurement`: an engine process that reads a clock which passes by any amount,
  and, separately, answers with arbitrary times, to which the same validation
  applies. Accepted times nest: parts in a sample, samples in the experiment, the
  experiment in the orchestration; and what an engine has measured is accepted.
* `JsonCheck`: the recursion of `scanJSONValue` is a stack. The reference finds
  the parent of each token by counting brackets. Acceptance, duplicates and
  trailing data are exact; of a text refused for its syntax the reference says that
  what was read is no value, which holds of an incomplete one too.
* `ResponseCodec`: every combination of present, null and absent fields; results
  with counts that wrap.
* `CommandLine`: the argument loops. `run`, `help`, `version` and `doctor` have a
  fixed form, of which only the exit code is a property; an executed command
  succeeds or fails by choice.
* `Doctor`: `tools` has one tool of each kind in the table of `doctor.go`. A
  signal may come between probes or end one.

## Runs

| Run | Bounds | Shows |
|---|---|---|
| `session_safety` | 2 symmetric callers with all methods, IDs 1 and 2, 1 queued response | serialisation, IDs, correlation, reaping, finality; implements `SerialSession` |
| `session_liveness` | a runner and a closer, ID 1 | cancellation and `Close` end what they should; an answer that has arrived is returned |
| `engine` | 2 symmetric callers, IDs 1 and 2, an engine that may crash | both ends understand each other; at most once; no error without a cause; implements `WorkerSession` |
| `engine_liveness` | 2 runners, an engine that may crash | every request is answered |
| `run` | one command, IDs up to 3 | nothing left behind, honest exit code, a signal ends it |
| `persist` | 3 symmetric writers, 2 power failures | whole, unreplaced, durable evidence |
| `frames` | streams of up to 7 bytes, frames of up to 3, buffer of 2 | frames are the lines of the stream, refusals are justified, memory is bounded |
| `capture` | 2 scenarios, suites of up to 2 (an empty one and one with a duplicate included), 4 executables of 3 build identities, 2 changes of files | evidence is of one executable and of the recorded inputs, whole, absent after an interruption; a receipt is true; a signal ends the command |
| `capture_restored` | the same, and an executable may come back | violated as expected, see below |
| `child_output` | pipes of 3 bytes, a tail of 2, payloads of up to 2, 6 bytes of output | the tail is the end, an answer is one payload, nobody waits for ever |
| `calculations` | a word of 14 values, 4 samples, 3 stages, 8 tokens, 8 arguments, versions of 0 to 2, 5 lines | the sequential modules agree with their references |
| `codec_mixed` | the responses alone | violated as expected, see below |

Two callers are enough for every pairwise race: a caller holding the token meets
one that waits for it, and one that closes; the theorems cover any number. IDs 1
and 2 allow a request after a finished or failed one and then the exhaustion of
the counter. One queued response suffices for a stale one to be there before the
next request is sent; a session reads one response per request. Three writers
allow one that publishes, one that loses the race at the link, and one that comes
after a power failure. Seven bytes allow a line one byte too long with its CR LF
and another after it; a buffer of two cuts a frame of three in every way, so the
CR and the LF of a frame of the maximum length come in different fragments.
Two changes of files allow one between any two reads and another after it, and
four executables a rebuild with the same identity, with another version and from
another source. Six bytes of output are more than pipe and tail hold together
and one more than the capped buffer keeps. A word of 14 values is wider than the
scale of 10, as 2^64 is wider than 10,000, but not wider than its square, so that
products do not fit a word and sums of two medians wrap; four samples have a
middle pair with a neighbour on each side; three stages can tie. Eight tokens hold an object
in an object with a key after it; eight arguments hold all four flags with their values.

### Findings

`docs/specifications/benchmark-v1.md` says that the executable is hashed before
the first and after the last scenario and that "any mutation aborts persistence".
Two hashes cannot see an executable that is replaced in between and put back:
`capture_restored` publishes a capture whose only experiment ran another
executable (of the same commit and source state) than the one recorded. With
`RebuildEngine` alone, where new bytes are always new, `EvidenceOfOneEngine` holds.

`docs/plans/day-04.md` says that "mixed message variants are rejected", and the
schema of the error response admits no additional property. The decoder looks for
foreign fields after decoding: `execution`, `result` and `error` are raw and count
as present even when null, but `workload_name` is a pointer, which null leaves
nil. `codec_mixed` shows an error response with `"workload_name": null` that is
accepted.

### Deadlock

Deadlock is not checked where the system may stop: a cancelled `Start` leaves no
session to call, and a command or a stream ends.

### Fairness

`FairSpec` assumes that a goroutine that can run does, that the kernel delivers
SIGKILL, and that a dead child's stderr ends (the engine starts no descendants
that could keep the pipe open). Nothing is assumed of callers, contexts, the child, or
of writes into a pipe the child does not read. `SysFairSpec` adds that the engine
runs, which is what `RequestsAnswered` is about; `RunFairSpec` does not. In
`CaptureSuite` and `VerifyEvidence` labctl runs and its SIGKILL arrives; the engine
owes nothing, and nobody need verify. In `ChildOutput` the draining goroutines run
and the kernel completes a write for which the pipe has room; the child need not
write, exit or succeed.

## Proofs

Every safety property a theorem states is also an invariant or an action property
of a run, but for `NoGoroutineOutlivesItsCall` and `DeliveredAnswerKept`, which TLC
checked on the session's instance too, and every inductive invariant named here was checked by TLC before it
was proved. Nothing is assumed but the named assumptions on the constants, which
TLC evaluates in the runs. Three chains of theorems build on each other:

    RunSpec => SysSpec => Spec => SerialSession      CommandIsASession, EngineRefines, Implements
    VerifySpec => CaptureSuite's invariants          VerifyInvariant
    MCCalculations's Spec, one kind of input each    KindInvariant

### The session (`WorkerSessionProofs`)

For any set of callers, any roles, any counter width of at least 2 and an
arbitrary child.

* `TypeCorrect`: the types are not inductive alone (a frame's type needs the
  method of the caller that writes it), so they are proved together with
  `Control`, which relates `pc`, `op`, `out`, `txn` and `result` of one caller.
  `GoroutinesEnd` follows from it.
* `Serialised`: `OneInFlight` is inductive relative to `Control`.
* `SessionInvariant`: who may be where in which state of the session; from it
  `StaysStopped`, since in a poisoned session nobody is between `checkOpen` and
  `nextRequestID`. That a poisoned session has no such caller needs `OneInFlight`.
* `GivingUpReaps`: `ReapInv` says how much of the child is gone at each point of
  `killAndReap`; pipes stay closed and a reaped child stays reaped.
* `AnswersAreKept`: `DeliveredAnswerKept`, the safety half of `DeliveredAnswerReturns`.
  An answer in the channel stays until its own caller takes it, and no step in
  between poisons the session: by `OneInFlight` nobody else is in a transaction or
  finds the child gone, by `SessionInv` nobody is still in `Start`, and the inner
  select keeps the caller itself from leaving.
* `IdsIncrease`: `IdInv` adds that everything written is below the next number, a
  frame still to be written above everything written, and a frame being written
  is the last one. It rests on `OneInFlight`.
* `Correlated`: `AnswerInv` follows an answer from the goroutine's channel to the
  caller. The request must still be on the wire, whole, when the result is taken;
  that nobody appends to a frame in between is `OneInFlight`.
* `FinalShutdown`: `FinalInv` says that the frame of a transaction under way, and
  of a shutdown that has been acknowledged but has not yet returned, is the last
  one. What makes it stable is that the caller keeps the token until the session
  is closed, so that nobody gets past `checkOpen` afterwards.
* `Implements`: every step is first classified (`StepKinds`: quiet, or one caller
  enters, is admitted, sends, is answered or leaves), then each class is matched
  with the abstract action (`KindsRefine`). The abstract record of sent IDs is a
  function of the wire, so `WireGrows` is needed for the step that sends.

### Session and engine (`EngineSessionProofs`)

For any callers, any pipe capacity, and a crash of the engine at any moment.

* `EngineRefines`: an engine step is a `ChildWrites`, a `ChildExits` or a stutter
  of the session's arbitrary child. It needs `StreamInv`, that the engine's
  answer is one a child can give.
* `NeverMisunderstood`: `StreamInv` says that everything but the last frame has
  been read, and that what the engine works on, holds ready or has written is the
  answer to that frame; `SyncInv` says that the stream is settled between two
  requests. Both break without poisoning: a caller that left a transaction behind
  must not be followed by another request.
* `RunsAtMostOnce`: `HistoryInv`, the IDs the engine has run are below the frame
  it has not yet run; `ToldInv`, whoever reports a result was run.
* `WorkHasItsCaller`: `WorkInv`, a working engine has a token holder whose frame
  is the last one.
* `AlarmsAreTrue`: `OpenInv` says that an open session has touched neither the
  input nor the process, and that its engine is up unless it crashed or has
  acknowledged a shutdown; `AlarmInv` follows a transport error to the caller.

### `labctl run` (`RunCommandProofs`)

`CommandIsASession` reduces the command to one caller of the pair, whatever the
signal does, and imports everything above. `OrderInv` is the order of the calls;
`LeftInv` what is left of the child after each, for `LeavesNothing`; `JobInv`
counts the frames and the runs of the engine, and `DoneInv` keeps them after the
shutdown, for `ZeroIsEarned`.

### Evidence (`PersistEvidenceProofs`, `CaptureSuiteProofs`)

`PersistEvidenceProofs` holds for any number of writers and power failures.
`EvidenceComplete` is not inductive, since a power failure replaces the cache by
the disk: `PublishInv` says the same of the disk, and that a file is complete
before it is synced and synced before it is linked; `NamesInv` follows a writer's
two names to the durable state that `SuccessIsDurable` claims. `NoOverwrite` needs
only the types.

`CaptureSuiteProofs` holds for any suites, any executables with any identities and
any number of changes of any file. `EvidenceOfOneEngine` speaks of the moment of
publication, long after the engines were started. `EngineInv` is what carries it:
while the path holds the executable that was hashed first, every engine so far was
that one, because new bytes are always new (`past`, the same assumption under
which the run passes; `capture_restored` shows what happens without it); once it
holds another, the second hash differs. `FlowInv`, `InputsInv` and `SignalInv` give
the other three. `VerifyInv` adds that a verification under way has read what the
evidence records, that what it has read was inside the root, and why it has
refused; evidence and hash do not change once the
command is done (`DoneIsFinal`).

### Streams (`FrameReaderProofs`, `ChildOutputProofs`)

For any limit, buffer size, capacity, pipe size and length of the stream, and any
cutting of it. `ReadersReturnLines` rests on `PartialInv`: in the middle of a
frame the payload is the slice of the stream between two positions, has no
newline, and exceeds the limit only by a CR. That the first newline of the rest
is where the line ends is a least-element argument (`Least`). `TailKept` rests on
`TailWriteEnd`: each of the three branches of `boundedTail.Write` maps the end of
what came before to the end of it all. `AnswersAreOnePayload` rests on `CappedInv`
(the buffer holds the first `MaxFrame + 3` bytes and knows whether there were
more) and on `PayloadAccepted`, the case analysis of `oneShotResponsePayload`.

### Sequential code (`CalculationsProofs`)

For any width of the word. The sums of `validateResult`, `sumUint64` and
`retainedTotal` are recursive functions with an overflow check in each step, the
references are sums of natural numbers without one. The library's induction
theorems cannot be instantiated here, so three lemmas provide the principle with
sets in place of predicates: `Least` (a set of numbers has a least element, from
the library's well-foundedness of <), `Induct`, and `Recursion` (a recursively
defined function exists and satisfies its equation). From them: the sums exist and
grow (`SumsAre`, `SumsGrow`); the checked sum is the true one if that fits the
word, and an error otherwise (`HistogramTotalIs`, `sumUint64Is`,
`retainedTotalIs`). `ResultsAreConsistent` follows by the order of the checks.
`MeasurementsConserveTime` needs `MeasureInv`: what has been measured so far fits
between the first and the latest reading of the clock, and so fits the word. The
assumption is that the clock's reading is a word.

*Analysis.* `AnalysesAreExact` holds for every number of stages, scale and width
(`WidthAssumption`: the scale is at most 2^32, 2^32 at most 2^53, and 2^53 a word).
`scaledRatioIs` and `ratioBasisPointsIs` show that the division fails exactly where
the quotient does not fit and is a floor otherwise, and that no call reaches the
panic of `bits.Div64`. For the shares, `SumDivided` adds the quotas up: what the
floors leave of the scale, times the total, is the sum of the residuals, so fewer
units are left than stages have a residual. `RanksOrdered` and `RanksTaken` make the
stable order by residual a bijection to 1 .. Stages, `FirstRanks` counts its first
places, and `SharesAre` concludes that every unit goes to a stage with a residual
and the shares add up to the scale. All six ratios are floors by the one lemma
`scaledRatioIs`, each with its own operands. `dominantIs` is the loop of `dominant`.

*Summaries.* `OrderExists`: the ranks of the values are an order in which they
ascend, so `Sorted` is not empty-handed. `StatisticKept`: the k-th smallest value,
defined by counting, does not depend on the order, because an order maps the
positions that count onto each other (`OrderCounts`); `StatisticIs`: of values that
ascend it is the k-th. `integerMedianIs` is the arithmetic of the midpoint, which
does not leave the word. From these follow the least, the largest, the median and
the median of the distances.

*Command lines.* `CommandInv` says of a line that is being read that it keeps the
rules so far and that the options are what stands behind its flags (`SuiteRead` for
`benchmark` and `profile`, `VerifyRead` for `verify`); of a line that was accepted
that it is a good one; of a line that was refused that it is none. The last needs
that a mistake cannot be mended by what follows (`SuiteRefuses`, `WordRefused`,
`FlagRefused`), and that at the end the three flags, or the path, decide
(`SuiteEnds`, `VerifyEnds`).

*Doctor.* `ProbingInv` ties the results to the probes that have been made and
`ready` to all of them; `DigitsCompare` and `WeightIs` compare versions as numbers.
`HostInv` says that the scan of `/proc/cpuinfo` holds the ids in force at the last
line, the pairs of the blocks that were closed, and the first names; `HostGrows`
is one more line, and `commit` at the end of the file adds the last block.

*JSON.* `JsonInv` gives the stack its meaning. There is a list P of positions, the
delimiters that are open, from the outside to the inside (`Matched`); frame d of the
stack knows the closing delimiter and the keys of the value that P[d] opens, and the
frame on top whether a key comes next, which is a matter of how many children P[d]
has had (`OnTop`, `Below`). The parent of a token, which the reference finds by
counting brackets, is then the last of P (`MatchedParent`); a token that opens adds
its position, one that closes takes the last away (`MatchedOpen`, `MatchedClose`).
`KeyIs` shows that the scan looks for a key exactly where the reference sees one,
`RepeatsNext` and `AllFineNext` what a token adds to the two questions about the
whole text. The assumption is that strings, numbers and delimiters are different
tokens (`JsonAssumption`), which is how `decoder.Token` returns them.

### Only model-checked

The liveness properties: fairness and ENABLED are out of the prover's reach. Of
`DeliveredAnswerReturns` the safety half is proved (`AnswersAreKept`). Every
safety property that a passing run checks is also stated by a theorem.

## Plan

The model is complete as far as it is meant to go (see below), and its safety
properties are proved. A change of the code that adds an option, a field of the
report or a check of an answer goes into the module first, then into the run and
its mutants, and last into the inductive invariant named above.

## Not modelled

* The scalar pipeline and the generation of data: sequential arithmetic on floats
  and 64-bit mixing. It is out of TLC's reach, and with the rounding abstracted
  away, fused and staged evaluation would agree by construction.
* The workload contract: range checks of single fields, without state or order.
* `buildinfo`: defaults and formatting of three strings. `CaptureSuite` and
  `VerifyEvidence` compare the identities it yields.
* In `doctor`, the kernel version and the commands of systems other than Linux:
  single reads whose failure is "unknown". Nor is it modelled that `CombinedOutput`
  waits for every process that inherited the pipe, so that a tool which leaves a
  child behind outlasts the two seconds of a probe; the code sets no `WaitDelay`.
* Evidence that somebody has edited: `verify` recomputes every derived field, so
  the question is whether a stored field agrees with a computed one.
* JSON text below the level of tokens (escapes, UTF-8, number syntax), and that
  `encoding/json` matches field names without regard to case. Formatting and help
  output, the schema checker under `tools/`, the continuous-integration scripts.
