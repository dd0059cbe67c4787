---------------------------- MODULE ChildOutput ----------------------------
(***************************************************************************)
(* What labctl keeps of the output of a child process.  stderr is drained  *)
(* into a buffer that remembers only its last bytes: boundedTail of the    *)
(* session (labctl-go/internal/worker/frame.go), tailBuffer of a one-shot  *)
(* engine (labctl-go/internal/benchmark/engine.go).  The stdout of a       *)
(* one-shot engine goes into a cappedBuffer that keeps its first bytes.    *)
(* The child blocks when a pipe is full; the goroutines that drain them    *)
(* read any number of bytes at a time.                                     *)
(*                                                                         *)
(* A byte of stderr is its position.  A byte of stdout is "x" (no space),  *)
(* "cr" or "lf".                                                           *)
(***************************************************************************)
EXTENDS Integers, Sequences

CONSTANTS
    PipeSize,     \* what the kernel buffers of each stream
    Capacity,     \* stderrTailBytes
    MaxFrame,     \* MaxFrameBytes
    MaxOutput     \* bound on the bytes the child writes

ASSUME OutputAssumption ==
    /\ PipeSize \in Nat \ {0} /\ Capacity \in Nat \ {0} /\ MaxFrame \in Nat
    /\ MaxOutput \in Nat

VARIABLES
    oneShot,      \* a one-shot engine; otherwise the child of a session
    child,        \* "running", or how it ended: "ok", "fail"
    want,         \* the stream a write of the child is under way on
    written,      \* bytes written to stderr
    drained,      \* bytes of stderr read by the goroutine
    tail,         \* the bytes the tail buffer holds
    stdout,       \* bytes written to stdout
    read,         \* bytes of stdout read by the goroutine
    kept,         \* the bytes the capped buffer holds
    overflowed,   \* it has dropped some
    errDone,      \* stderr met its end: stderrDone is closed
    verdict       \* what runOneShotEngine makes of it

errVars == <<written, drained, tail, errDone>>
outVars == <<stdout, read, kept, overflowed>>
vars == <<oneShot, child, want, errVars, outVars, verdict>>

Byte == {"x", "cr", "lf"}

\* newCappedBuffer leaves room for a CR LF and one byte too many.
Limit == MaxFrame + 3

Init ==
    /\ oneShot \in BOOLEAN /\ child = "running" /\ want = "none"
    /\ written = 0 /\ drained = 0 /\ tail = <<>> /\ errDone = FALSE
    /\ stdout = <<>> /\ read = 0 /\ kept = <<>> /\ overflowed = FALSE
    /\ verdict = "none"

-----------------------------------------------------------------------------
(* The child.                                                              *)

\* It begins to write on a stream.
ChildBegins(stream) ==
    /\ child = "running" /\ want = "none" /\ want' = stream
    /\ stream = "stderr" \/ oneShot
    /\ written + Len(stdout) < MaxOutput
    /\ UNCHANGED <<oneShot, child, errVars, outVars, verdict>>

\* The pipe takes the next byte.  A longer write is as many of these.
ChildWritesErr ==
    /\ want = "stderr" /\ written - drained < PipeSize
    /\ want' = "none" /\ written' = written + 1
    /\ UNCHANGED <<oneShot, child, drained, tail, errDone, outVars, verdict>>

ChildWritesOut(b) ==
    /\ want = "stdout" /\ Len(stdout) - read < PipeSize
    /\ want' = "none" /\ stdout' = Append(stdout, b)
    /\ UNCHANGED <<oneShot, child, errVars, read, kept, overflowed, verdict>>

\* It exits or is killed, perhaps inside a write.
ChildExits(how) ==
    /\ child = "running" /\ child' = how /\ want' = "none"
    /\ UNCHANGED <<oneShot, errVars, outVars, verdict>>

-----------------------------------------------------------------------------
(* The buffers.                                                            *)

Last(s, n) == SubSeq(s, Len(s) - n + 1, Len(s))

\* Mutant: room is made for the new bytes by dropping one byte too few.
TailWriteLong(bytes, data) ==
    LET overflow == Len(bytes) + Len(data) - Capacity - 1
    IN  IF Len(data) >= Capacity THEN Last(data, Capacity)
        ELSE IF overflow > 0 THEN SubSeq(bytes, overflow + 1, Len(bytes)) \o data
        ELSE bytes \o data

\* boundedTail.Write, tailBuffer.Write: a long write replaces everything, a
\* short one first drops as many of the oldest bytes as do not fit.
TailWrite(bytes, data) ==
    LET overflow == Len(bytes) + Len(data) - Capacity
    IN  IF Len(data) >= Capacity THEN Last(data, Capacity)
        ELSE IF overflow > 0 THEN SubSeq(bytes, overflow + 1, Len(bytes)) \o data
        ELSE bytes \o data

\* cappedBuffer.Write keeps what fits and notes that something did not.
CappedOverflows(data) == Len(kept) + Len(data) > Limit
CappedKeeps(data) ==
    LET room == Limit - Len(kept)
    IN  IF Len(data) <= room THEN kept \o data ELSE kept \o SubSeq(data, 1, room)

-----------------------------------------------------------------------------
(* The goroutines that drain the pipes.                                    *)

\* Mutant: stderr is read only after the child has exited.
DrainErrAfterExit(n) ==
    /\ child # "running" /\ n \in 1 .. written - drained
    /\ tail' = TailWrite(tail, [i \in 1 .. n |-> drained + i])
    /\ drained' = drained + n
    /\ UNCHANGED <<oneShot, child, want, written, errDone, outVars, verdict>>

\* io.Copy moves the next bytes from the pipe to the tail.
DrainErr(n) ==
    /\ n \in 1 .. written - drained
    /\ tail' = TailWrite(tail, [i \in 1 .. n |-> drained + i])
    /\ drained' = drained + n
    /\ UNCHANGED <<oneShot, child, want, written, errDone, outVars, verdict>>

\* It meets the end of file behind the last byte.
DrainErrEnds ==
    /\ child # "running" /\ drained = written /\ ~errDone /\ errDone' = TRUE
    /\ UNCHANGED <<oneShot, child, want, written, drained, tail, outVars, verdict>>

DrainOut(n) ==
    /\ n \in 1 .. Len(stdout) - read
    /\ LET data == SubSeq(stdout, read + 1, read + n)
       IN  /\ kept' = CappedKeeps(data)
           /\ overflowed' = (overflowed \/ CappedOverflows(data))
    /\ read' = read + n
    /\ UNCHANGED <<oneShot, child, want, errVars, stdout, verdict>>

-----------------------------------------------------------------------------
(* The end of runOneShotEngine.                                            *)

EndsIn(s, b) == s # <<>> /\ s[Len(s)] = b
Front(s) == SubSeq(s, 1, Len(s) - 1)
Strip(s, b) == IF EndsIn(s, b) THEN Front(s) ELSE s

\* Mutant: the limit is applied to what was sent, terminator included.
PayloadVerdictOfRaw(raw) ==
    LET payload == IF EndsIn(raw, "lf") THEN Strip(Front(raw), "cr") ELSE raw
    IN  IF Len(raw) > MaxFrame + 1 THEN "too_large"
        ELSE IF EndsIn(payload, "cr") \/ EndsIn(payload, "lf") THEN "terminator"
        ELSE IF \A i \in DOMAIN payload : payload[i] # "x" THEN "empty"
        ELSE "accepted"

\* oneShotResponsePayload, and the check that something is left of it: one
\* LF or CR LF is dropped, and no further one is allowed.
PayloadVerdict(raw) ==
    LET payload == IF EndsIn(raw, "lf") THEN Strip(Front(raw), "cr") ELSE raw
    IN  IF Len(raw) > MaxFrame + 2 THEN "too_large"
        ELSE IF EndsIn(payload, "cr") \/ EndsIn(payload, "lf") THEN "terminator"
        ELSE IF Len(payload) > MaxFrame THEN "too_large"
        ELSE IF \A i \in DOMAIN payload : payload[i] # "x" THEN "empty"
        ELSE "accepted"

\* Run returns when the child has exited and both pipes are drained.
RunReturns ==
    /\ oneShot /\ verdict = "none"
    /\ child # "running" /\ errDone /\ read = Len(stdout)
    /\ verdict' = IF child = "fail" THEN "process"
                  ELSE IF overflowed THEN "too_large"
                  ELSE PayloadVerdict(kept)
    /\ UNCHANGED <<oneShot, child, want, errVars, outVars>>

-----------------------------------------------------------------------------
Drain == (\E n \in 1 .. PipeSize : DrainErr(n)) \/ DrainErrEnds
DrainStdout == \E n \in 1 .. PipeSize : DrainOut(n)
ChildWrites == ChildWritesErr \/ \E b \in Byte : ChildWritesOut(b)

Next ==
    \/ \E stream \in {"stdout", "stderr"} : ChildBegins(stream)
    \/ ChildWrites
    \/ \E how \in {"ok", "fail"} : ChildExits(how)
    \/ Drain \/ DrainStdout \/ RunReturns

\* The goroutines and the kernel run; the child promises nothing but to
\* finish a write that the pipe takes.
FairSpec ==
    /\ Init /\ [][Next]_vars
    /\ WF_vars(ChildWrites)
    /\ WF_vars(Drain) /\ WF_vars(DrainStdout) /\ WF_vars(RunReturns)

-----------------------------------------------------------------------------
(* Properties.                                                             *)

Least(a, b) == IF a < b THEN a ELSE b

\* However the stream was cut into writes, the tail holds exactly the last
\* Capacity bytes drained so far, in order (boundedTail.Write).  When the
\* session's calls get past stderrDone, or Run returns, that is the end of all
\* the child ever wrote: no last words are lost between its exit and the drain.
TailIsTheEnd ==
    LET n == Least(drained, Capacity)
    IN  /\ tail = [i \in 1 .. n |-> drained - n + i]
        /\ errDone \/ verdict # "none" => drained = written

\* A response is accepted if and only if the engine exited with success and
\* its output is a non-blank payload of at most MaxFrame bytes with one
\* optional LF or CR LF behind it.  The capped buffer, three bytes larger
\* than the limit, never decides this, nor does the size of the reads.
AnswerIsOnePayload ==
    verdict # "none" =>
        (verdict = "accepted" <=>
            /\ child = "ok"
            /\ \E n \in 1 .. Least(MaxFrame, Len(stdout)) :
                 /\ SubSeq(stdout, n + 1, Len(stdout)) \in {<<>>, <<"lf">>, <<"cr", "lf">>}
                 /\ stdout[n] = "x")

\* Parent and child never wait for each other: a write of the child finishes,
\* because its output is drained whatever else labctl waits for, and once the
\* child has exited its output ends and a one-shot run returns.
OutputFlows ==
    /\ (want # "none") ~> (want = "none")
    /\ (child # "running") ~> errDone /\ (oneShot => verdict # "none")
=============================================================================
