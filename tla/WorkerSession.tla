--------------------------- MODULE WorkerSession ---------------------------
(***************************************************************************)
(* The Go side of the worker boundary: worker.Session, which owns one      *)
(* `paraflow-engine serve` child process, serialises concurrent callers to *)
(* one request in flight, and turns every doubt about the stream into a    *)
(* killed and reaped child (labctl-go/internal/worker/session.go).         *)
(*                                                                         *)
(* Every goroutine is an actor: each caller of Start, Execute, Shutdown or *)
(* Close, the transaction goroutine a caller spawns, the goroutine that    *)
(* waits for the child and the one that drains its stderr.  The child is   *)
(* an untrusted process: it may answer, answer wrongly, answer twice,      *)
(* hang, close its pipes, or exit at any moment.                           *)
(*                                                                         *)
(* The grain of atomicity is one channel operation, one critical section   *)
(* of stateMu, or one system call on a pipe or on the process.             *)
(***************************************************************************)
EXTENDS Naturals, Sequences

CONSTANTS
    Callers,      \* goroutines that hold the *Session
    NoCaller,     \* "stateMu is free"
    Roles,        \* the methods each of them may call
    SeqModulus,   \* 2^64 in the code: the width of the request sequence
    PipeReplies   \* bound on the frames the child has queued on stdout

ASSUME CallersAssumption ==
    /\ NoCaller \notin Callers
    /\ Roles \in [Callers -> SUBSET {"start", "execute", "shutdown", "close"}]
ASSUME ModulusAssumption == SeqModulus \in Nat /\ SeqModulus >= 2
ASSUME PipeAssumption    == PipeReplies \in Nat

VARIABLES
    handle,       \* Start has returned the session to its caller
    token,        \* the one-slot channel holds its token
    mu,           \* the goroutine that keeps stateMu across a wait
    state,        \* sessionOpen, sessionClosed, sessionPoisoned
    sequence,     \* the next request number; 0 after the last one
    inputOpen,    \* the parent's write end of the child's stdin
    outputOpen,   \* the parent's read end of the child's stdout
    stdin,        \* all request frames written so far, oldest first
    stdout,       \* response frames the session has not consumed
    child,        \* the process and the goroutines that watch it
    pc, op,       \* where each caller is, and in which method
    cancelled,    \* the context of its call is done
    reqId,        \* the request ID of its current or last call
    out,          \* what the call returns, decided before it returns
    txn,          \* the phase of its transaction goroutine
    result        \* the one-slot result channel; full in phase "done"

lockVars == <<handle, token, mu>>
pipeVars == <<inputOpen, outputOpen, stdin, stdout>>
callVars == <<pc, op, cancelled, reqId, out>>
txnVars  == <<txn, result>>
vars == <<handle, token, mu, state, sequence, inputOpen, outputOpen, stdin,
          stdout, child, pc, op, cancelled, reqId, out, txn, result>>

-----------------------------------------------------------------------------
(* Types.                                                                  *)

Ids == 0 .. SeqModulus - 1

\* A request frame, as far as it got into the pipe: cut inside the JSON text,
\* the whole text, or the text with its newline.
Frame == [id : Ids, op : {"execute", "shutdown"},
          part : {"prefix", "payload", "line"}]

\* A whole response frame; "garbage" is one that does not decode at all:
\* oversized, malformed, with an unknown field, at odds with the workload, or
\* with an ID that no request ever has.
Reply == [kind : {"completed", "error", "shutdown_ack"}, id : Ids \ {0}]
            \cup {[kind |-> "garbage", id |-> 0]}

\* What a call returns.  "ctx" is a context error before the transaction,
\* "ctx_transact" one that abandoned it, "ctx_exit" one after the
\* acknowledgement of a shutdown.  "id" is the ID the response carried.
Kinds == {"none", "started", "start_failed", "start_aborted", "ctx", "closed",
          "poisoned", "exhausted", "local", "completed", "remote", "transport",
          "protocol", "ctx_transact", "acked", "shutdown_ok", "exit_error",
          "ctx_exit", "close_ok"}
Outcome == [kind : Kinds, id : Ids]
Plain(k) == [kind |-> k, id |-> 0]

PCs == {"idle", "started", "select", "recheck", "check", "exited", "request",
        "await", "prefer", "close_input", "kill", "reap", "stderr", "drain",
        "acked", "closing", "exit_wait", "exit_stderr", "mark"}

Child == [proc : {"unstarted", "running", "exited"},
          status : {"none", "ok", "fail", "killed"},
          killed : BOOLEAN,          \* killOnce has fired
          waitDone : BOOLEAN,        \* Cmd.Wait has returned
          stderrDone : BOOLEAN]      \* stderr was drained to its end

\* Every variable has its type; the request number stays within its width.
TypeOK ==
    /\ handle \in BOOLEAN /\ token \in BOOLEAN
    /\ mu \in Callers \cup {NoCaller}
    /\ state \in {"open", "closed", "poisoned"}
    /\ sequence \in Ids
    /\ inputOpen \in BOOLEAN /\ outputOpen \in BOOLEAN
    /\ stdin \in Seq(Frame) /\ stdout \in Seq(Reply)
    /\ child \in Child
    /\ pc \in [Callers -> PCs]
    /\ op \in [Callers -> {"none", "start", "execute", "shutdown", "close"}]
    /\ cancelled \in [Callers -> BOOLEAN]
    /\ reqId \in [Callers -> Ids]
    /\ out \in [Callers -> Outcome]
    /\ txn \in [Callers -> {"none", "write", "writing", "read", "done"}]
    /\ result \in [Callers -> Outcome]

Init ==
    /\ handle = FALSE /\ token = TRUE /\ mu = NoCaller
    /\ state = "open" /\ sequence = 1
    /\ inputOpen = TRUE /\ outputOpen = TRUE
    /\ stdin = <<>> /\ stdout = <<>>
    /\ child = [proc |-> "unstarted", status |-> "none", killed |-> FALSE,
                waitDone |-> FALSE, stderrDone |-> FALSE]
    /\ pc = [c \in Callers |-> "idle"] /\ op = [c \in Callers |-> "none"]
    /\ cancelled = [c \in Callers |-> FALSE]
    /\ reqId = [c \in Callers |-> 0]
    /\ out = [c \in Callers |-> Plain("none")]
    /\ txn = [c \in Callers |-> "none"]
    /\ result = [c \in Callers |-> Plain("none")]

-----------------------------------------------------------------------------
(* Helpers.                                                                *)

At(c, label) == pc[c] = label

\* The caller goes on inside its method.
Goto(c, label) ==
    pc' = [pc EXCEPT ![c] = label] /\ UNCHANGED <<op, cancelled, reqId, out>>

\* It goes on, and what it will return is decided.
Decide(c, label, o) ==
    /\ pc' = [pc EXCEPT ![c] = label] /\ out' = [out EXCEPT ![c] = o]
    /\ UNCHANGED <<op, cancelled, reqId>>

\* It returns o; its context is forgotten.
Return(c, o) ==
    /\ pc' = [pc EXCEPT ![c] = "idle"] /\ out' = [out EXCEPT ![c] = o]
    /\ cancelled' = [cancelled EXCEPT ![c] = FALSE]
    /\ UNCHANGED <<op, reqId>>

\* An idle caller calls method m.  It is then at label, or has already
\* returned when the label is "idle".
Begin(c, m, label, o) ==
    /\ At(c, "idle")
    /\ pc' = [pc EXCEPT ![c] = label] /\ out' = [out EXCEPT ![c] = o]
    /\ op' = [op EXCEPT ![c] = m] /\ reqId' = [reqId EXCEPT ![c] = 0]
    /\ UNCHANGED cancelled

\* The deferred release: the send blocks while the slot is full.
Release == ~token /\ token' = TRUE

\* Mutant: poisoning does not look at the state it overwrites.
MarkPoisonedAlways == state' = "poisoned"

\* Mutant: the session is not marked at all.
MarkPoisonedNot == UNCHANGED state

\* markPoisoned: a closed session stays closed.
MarkPoisoned == state' = IF state = "open" THEN "poisoned" ELSE state

\* A call that must first kill and reap the child, and then returns o.
KillAndReap(c, o) == Decide(c, "close_input", o)

-----------------------------------------------------------------------------
(* Start.                                                                  *)

\* Start up to the launch: a context that is already done, or a failure to
\* create the pipes, launch the child or drop the child's pipe ends (which
\* kills and waits for it), leaves nothing behind.
StartCall(c) ==
    /\ child.proc = "unstarted"
    /\ \/ \E k \in {"ctx", "start_failed"} : Begin(c, "start", "idle", Plain(k))
          /\ UNCHANGED child
       \/ Begin(c, "start", "started", Plain("none"))
          /\ child' = [child EXCEPT !.proc = "running"]
    /\ UNCHANGED <<lockVars, state, sequence, pipeVars, txnVars>>

\* Start's last look at its context.
StartReturn(c) ==
    /\ At(c, "started")
    /\ IF cancelled[c]
         THEN MarkPoisoned /\ KillAndReap(c, Plain("start_aborted"))
              /\ UNCHANGED handle
         ELSE handle' = TRUE /\ Return(c, Plain("started")) /\ UNCHANGED state
    /\ UNCHANGED <<token, mu, sequence, pipeVars, child, txnVars>>

-----------------------------------------------------------------------------
(* acquire: one caller at a time gets past it.                             *)

\* Execute or Shutdown is called; a context that is already done returns
\* before the select.
RequestCall(c, o) ==
    /\ handle
    /\ Begin(c, o, "idle", Plain("ctx")) \/ Begin(c, o, "select", Plain("none"))
    /\ UNCHANGED <<lockVars, state, sequence, pipeVars, child, txnVars>>

\* The select of acquire; both cases may be ready.
AcquireSelect(c) ==
    /\ At(c, "select")
    /\ \/ cancelled[c] /\ Return(c, Plain("ctx")) /\ UNCHANGED token
       \/ token /\ token' = FALSE /\ Goto(c, "recheck")
    /\ UNCHANGED <<handle, mu, state, sequence, pipeVars, child, txnVars>>

\* Mutant: the error path of the second look forgets the token.
AcquireRecheckLeaks(c) ==
    /\ At(c, "recheck")
    /\ IF cancelled[c] THEN Return(c, Plain("ctx")) ELSE Goto(c, "check")
    /\ UNCHANGED <<lockVars, state, sequence, pipeVars, child, txnVars>>

\* The second look at the context, with the token in hand.
AcquireRecheck(c) ==
    /\ At(c, "recheck")
    /\ IF cancelled[c] THEN Return(c, Plain("ctx")) /\ Release
                            ELSE Goto(c, "check") /\ UNCHANGED token
    /\ UNCHANGED <<handle, mu, state, sequence, pipeVars, child, txnVars>>

-----------------------------------------------------------------------------
(* checkOpen and nextRequestID.                                            *)

\* checkOpen, under stateMu, of a session that is not open or whose child
\* still runs.
CheckOpen(c) ==
    /\ At(c, "check") /\ mu = NoCaller
    /\ \/ state # "open" /\ Return(c, Plain(state)) /\ Release
       \/ state = "open" /\ ~child.waitDone /\ Goto(c, "request")
          /\ UNCHANGED token
    /\ UNCHANGED <<handle, mu, state, sequence, pipeVars, child, txnVars>>

\* checkOpen finds the child reaped: it closes stdout and, without giving
\* stateMu back, waits for the stderr drain before it poisons the session.
CheckFindsExit(c) ==
    /\ At(c, "check") /\ mu = NoCaller
    /\ state = "open" /\ child.waitDone
    /\ mu' = c /\ outputOpen' = FALSE
    /\ Goto(c, "exited")
    /\ UNCHANGED <<handle, token, state, sequence, inputOpen, stdin, stdout,
                   child, txnVars>>

\* Mutant: this return does not unlock stateMu.
CheckExitedKeepsMutex(c) ==
    /\ At(c, "exited") /\ child.stderrDone
    /\ state' = "poisoned"
    /\ Return(c, Plain("poisoned")) /\ Release
    /\ UNCHANGED <<handle, mu, sequence, pipeVars, child, txnVars>>

CheckExited(c) ==
    /\ At(c, "exited") /\ child.stderrDone
    /\ state' = "poisoned" /\ mu' = NoCaller
    /\ Return(c, Plain("poisoned")) /\ Release
    /\ UNCHANGED <<handle, sequence, pipeVars, child, txnVars>>

\* Mutants: nobody looks for the last number; the increment does not wrap.
NeverExhausted == FALSE
NextSequenceUnbounded == sequence + 1

Exhausted == sequence = 0
NextSequence == (sequence + 1) % SeqModulus

\* nextRequestID and the encoding of the frame fail: the numbers are used up,
\* or the workload of an Execute cannot be projected or encoded.  The latter
\* spends the number and leaves the session as it was.
RequestFails(c) ==
    /\ At(c, "request")
    /\ \/ Exhausted /\ Return(c, Plain("exhausted")) /\ UNCHANGED sequence
       \/ ~Exhausted /\ op[c] = "execute" /\ Return(c, Plain("local"))
          /\ sequence' = NextSequence
    /\ Release
    /\ UNCHANGED <<handle, mu, state, pipeVars, child, txnVars>>

\* They succeed, and transact spawns the transaction goroutine.
SendRequest(c) ==
    /\ At(c, "request") /\ ~Exhausted
    /\ sequence' = NextSequence
    /\ pc' = [pc EXCEPT ![c] = "await"] /\ reqId' = [reqId EXCEPT ![c] = sequence]
    /\ txn' = [txn EXCEPT ![c] = "write"]
    /\ UNCHANGED <<lockVars, state, pipeVars, child, op, cancelled, out, result>>

-----------------------------------------------------------------------------
(* transact: the transaction goroutine.                                    *)

TxnGoto(c, phase) == txn' = [txn EXCEPT ![c] = phase] /\ UNCHANGED result

TxnDone(c, o) ==
    txn' = [txn EXCEPT ![c] = "done"] /\ result' = [result EXCEPT ![c] = o]

\* The caller has received the result; the goroutine has ended.
TxnReceived(c) ==
    txn' = [txn EXCEPT ![c] = "none"] /\ result' = [result EXCEPT ![c] = Plain("none")]

\* writeAll, first part: the pipe takes some bytes of the frame, possibly all
\* but its newline.  It may block for ever when the child does not read.
TxnWrite(c) ==
    /\ txn[c] = "write" /\ inputOpen /\ child.proc = "running"
    /\ \E part \in {"prefix", "payload"} :
         stdin' = Append(stdin, [id |-> reqId[c], op |-> op[c], part |-> part])
    /\ TxnGoto(c, "writing")
    /\ UNCHANGED <<lockVars, state, sequence, inputOpen, outputOpen, stdout,
                   child, callVars>>

\* writeAll, last part: the frame is complete.
TxnWritten(c) ==
    /\ txn[c] = "writing" /\ inputOpen /\ child.proc = "running"
    /\ stdin' = [stdin EXCEPT ![Len(stdin)] =
                    [id |-> reqId[c], op |-> op[c], part |-> "line"]]
    /\ TxnGoto(c, "read")
    /\ UNCHANGED <<lockVars, state, sequence, inputOpen, outputOpen, stdout,
                   child, callVars>>

\* The write fails once this end was closed or the child is gone.
TxnWriteFails(c) ==
    /\ txn[c] \in {"write", "writing"}
    /\ ~inputOpen \/ child.proc = "exited"
    /\ TxnDone(c, Plain("transport"))
    /\ UNCHANGED <<lockVars, state, sequence, pipeVars, child, callVars>>

\* The kinds of response that answer a request, and what they mean to it.
Answers(o) == IF o = "execute" THEN {"completed", "error"} ELSE {"shutdown_ack"}
Meaning == [completed |-> "completed", error |-> "remote", shutdown_ack |-> "acked"]

\* Mutant: the ID of the response is not compared.
DecodeResponseAnyId(reply, id, o) ==
    IF reply.kind \in Answers(o)
      THEN [kind |-> Meaning[reply.kind], id |-> reply.id]
      ELSE Plain("protocol")

\* DecodeResponse: the response must carry the ID of the request and be of a
\* kind that answers it; everything else is a protocol error.
DecodeResponse(reply, id, o) ==
    IF reply.id = id /\ reply.kind \in Answers(o)
      THEN [kind |-> Meaning[reply.kind], id |-> reply.id]
      ELSE Plain("protocol")

\* readFrame finds a whole frame.  It may do so after stdout was closed: the
\* buffered reader can already hold the bytes.
TxnRead(c) ==
    /\ txn[c] = "read" /\ stdout # <<>>
    /\ TxnDone(c, DecodeResponse(Head(stdout), reqId[c], op[c]))
    /\ stdout' = Tail(stdout)
    /\ UNCHANGED <<lockVars, state, sequence, inputOpen, outputOpen, stdin,
                   child, callVars>>

\* readFrame fails: closed pipe, or end of file with no whole frame left.
TxnReadFails(c) ==
    /\ txn[c] = "read"
    /\ ~outputOpen \/ (child.proc = "exited" /\ stdout = <<>>)
    /\ TxnDone(c, Plain("transport"))
    /\ UNCHANGED <<lockVars, state, sequence, pipeVars, child, callVars>>

-----------------------------------------------------------------------------
(* transact: the caller.                                                   *)

\* One of the two selects receives the result.  An error poisons the session;
\* a completed or remote result is returned; an acknowledgement goes on.
TakeResult(c) ==
    LET o == result[c]
    IN  /\ pc[c] \in {"await", "prefer"} /\ txn[c] = "done"
        /\ TxnReceived(c)
        /\ \/ o.kind \in {"transport", "protocol"} /\ mu = NoCaller
              /\ MarkPoisoned /\ KillAndReap(c, o) /\ UNCHANGED token
           \/ o.kind \in {"completed", "remote"}
              /\ Return(c, o) /\ Release /\ UNCHANGED state
           \/ o.kind = "acked" /\ Decide(c, "acked", o)
              /\ UNCHANGED <<token, state>>
        /\ UNCHANGED <<handle, mu, sequence, pipeVars, child>>

\* The outer select may choose the end of the context instead.
AwaitCancelled(c) ==
    /\ At(c, "await") /\ cancelled[c]
    /\ Goto(c, "prefer")
    /\ UNCHANGED <<lockVars, state, sequence, pipeVars, child, txnVars>>

\* Mutant: there is no inner select.
NothingEverToPrefer(c) == TRUE

\* The default of the inner select: the transaction has not completed.
NothingToPrefer(c) == txn[c] # "done"

\* Mutant: the call returns without killing the child or draining.
AbandonRequestAtOnce(c) ==
    /\ At(c, "prefer") /\ NothingToPrefer(c) /\ mu = NoCaller
    /\ MarkPoisoned
    /\ Return(c, Plain("ctx_transact")) /\ Release
    /\ UNCHANGED <<handle, mu, sequence, pipeVars, child, txnVars>>

AbandonRequest(c) ==
    /\ At(c, "prefer") /\ NothingToPrefer(c) /\ mu = NoCaller
    /\ MarkPoisoned
    /\ KillAndReap(c, Plain("ctx_transact"))
    /\ UNCHANGED <<lockVars, sequence, pipeVars, child, txnVars>>

\* The receive that waits for the abandoned goroutine and drops its result.
DrainResult(c) ==
    /\ At(c, "drain") /\ txn[c] = "done"
    /\ TxnReceived(c)
    /\ Return(c, out[c]) /\ Release
    /\ UNCHANGED <<handle, mu, state, sequence, pipeVars, child>>

-----------------------------------------------------------------------------
(* Shutdown after the acknowledgement, and Close.                          *)

\* Close takes no token: it may run beside a call in flight.
CloseCall(c) ==
    /\ handle
    /\ Begin(c, "close", "mark", Plain("close_ok"))
    /\ UNCHANGED <<lockVars, state, sequence, pipeVars, child, txnVars>>

\* Both methods set the state to closed, whatever it was.
MarkClosed(c) ==
    /\ pc[c] \in {"acked", "mark"} /\ mu = NoCaller
    /\ state' = "closed"
    /\ Goto(c, IF At(c, "acked") THEN "closing" ELSE "close_input")
    /\ UNCHANGED <<lockVars, sequence, pipeVars, child, txnVars>>

\* closeInput, in Shutdown and in killAndReap.
CloseInput(c) ==
    /\ pc[c] \in {"closing", "close_input"}
    /\ inputOpen' = FALSE
    /\ Goto(c, IF At(c, "closing") THEN "exit_wait" ELSE "kill")
    /\ UNCHANGED <<lockVars, state, sequence, outputOpen, stdin, stdout, child, txnVars>>

\* The select on the exit of the child; both cases may be ready.
ShutdownSelect(c) ==
    /\ At(c, "exit_wait")
    /\ \/ child.waitDone /\ outputOpen' = FALSE /\ Goto(c, "exit_stderr")
       \/ cancelled[c] /\ KillAndReap(c, Plain("ctx_exit"))
          /\ UNCHANGED outputOpen
    /\ UNCHANGED <<lockVars, state, sequence, inputOpen, stdin, stdout, child, txnVars>>

\* Mutant: the exit status is not looked at.
ShutdownReturnAnyStatus(c) ==
    /\ At(c, "exit_stderr") /\ child.stderrDone
    /\ Return(c, [kind |-> "shutdown_ok", id |-> out[c].id])
    /\ Release
    /\ UNCHANGED <<handle, mu, state, sequence, pipeVars, child, txnVars>>

\* Shutdown returns nil only if the child exited with status zero.
ShutdownReturn(c) ==
    /\ At(c, "exit_stderr") /\ child.stderrDone
    /\ Return(c, [kind |-> IF child.status = "ok" THEN "shutdown_ok" ELSE "exit_error",
                  id   |-> out[c].id])
    /\ Release
    /\ UNCHANGED <<handle, mu, state, sequence, pipeVars, child, txnVars>>

-----------------------------------------------------------------------------
(* killAndReap, after closeInput.                                          *)

\* Mutant: closing stdin is thought to be enough to end the child.
KillChildNot(c) ==
    /\ At(c, "kill")
    /\ Goto(c, "reap")
    /\ UNCHANGED <<lockVars, state, sequence, pipeVars, child, txnVars>>

\* killOnce: the first goroutine signals the child.
KillChild(c) ==
    /\ At(c, "kill")
    /\ child' = [child EXCEPT !.killed = TRUE]
    /\ Goto(c, "reap")
    /\ UNCHANGED <<lockVars, state, sequence, pipeVars, txnVars>>

\* Mutant: nobody waits for the child.
ReapWithoutWait(c) ==
    /\ At(c, "reap")
    /\ outputOpen' = FALSE
    /\ Goto(c, "stderr")
    /\ UNCHANGED <<lockVars, state, sequence, inputOpen, stdin, stdout, child, txnVars>>

\* The receive from waitDone, and closeOutput.
Reap(c) ==
    /\ At(c, "reap") /\ child.waitDone
    /\ outputOpen' = FALSE
    /\ Goto(c, "stderr")
    /\ UNCHANGED <<lockVars, state, sequence, inputOpen, stdin, stdout, child, txnVars>>

\* The receive from stderrDone, and the way back into the method that called:
\* an abandoned transaction is still to be drained.
ReapStderr(c) ==
    /\ At(c, "stderr") /\ child.stderrDone
    /\ \/ op[c] \in {"start", "close"}
          /\ Return(c, out[c]) /\ UNCHANGED token
       \/ op[c] \in {"execute", "shutdown"} /\ out[c].kind # "ctx_transact"
          /\ Return(c, out[c]) /\ Release
       \/ out[c].kind = "ctx_transact"
          /\ Goto(c, "drain") /\ UNCHANGED token
    /\ UNCHANGED <<handle, mu, state, sequence, pipeVars, child, txnVars>>

-----------------------------------------------------------------------------
(* The environment: contexts, the operating system, the watching           *)
(* goroutines, and the untrusted child.                                    *)

Cancel(c) ==
    /\ ~At(c, "idle") /\ op[c] # "close" /\ ~cancelled[c]
    /\ cancelled' = [cancelled EXCEPT ![c] = TRUE]
    /\ UNCHANGED <<lockVars, state, sequence, pipeVars, child, pc, op, reqId, out,
                   txnVars>>

ChildStep(next) ==
    child' = next /\ UNCHANGED <<lockVars, state, sequence, pipeVars, callVars, txnVars>>

\* The kernel delivers SIGKILL.
ChildKilled ==
    /\ child.killed /\ child.proc = "running"
    /\ ChildStep([child EXCEPT !.proc = "exited", !.status = "killed"])

\* The goroutine around Cmd.Wait.
WaitReturns ==
    /\ child.proc = "exited" /\ ~child.waitDone
    /\ ChildStep([child EXCEPT !.waitDone = TRUE])

\* The goroutine that copies stderr meets the end of the pipe.
StderrDrained ==
    /\ child.proc = "exited" /\ ~child.stderrDone
    /\ ChildStep([child EXCEPT !.stderrDone = TRUE])

\* The child exits on its own.
ChildExits(how) ==
    /\ child.proc = "running"
    /\ ChildStep([child EXCEPT !.proc = "exited", !.status = how])

\* The child writes a whole frame, asked for or not.
ChildWrites(r) ==
    /\ child.proc = "running" /\ Len(stdout) < PipeReplies
    /\ stdout' = Append(stdout, r)
    /\ UNCHANGED <<lockVars, state, sequence, inputOpen, outputOpen, stdin,
                   child, callVars, txnVars>>

\* The child closes its end of a pipe and lives on: the write breaks, or the
\* read meets the end of file behind the last whole frame.
ChildHangsUp(c) ==
    /\ child.proc = "running"
    /\ txn[c] \in {"write", "writing"} \/ (txn[c] = "read" /\ stdout = <<>>)
    /\ TxnDone(c, Plain("transport"))
    /\ UNCHANGED <<lockVars, state, sequence, pipeVars, child, callVars>>

-----------------------------------------------------------------------------
\* What a caller's goroutine does by itself once it was called.
CallerStep(c) ==
    \/ StartReturn(c) \/ AcquireSelect(c) \/ AcquireRecheck(c)
    \/ CheckOpen(c) \/ CheckFindsExit(c) \/ CheckExited(c)
    \/ RequestFails(c) \/ SendRequest(c)
    \/ TakeResult(c) \/ AwaitCancelled(c) \/ AbandonRequest(c) \/ DrainResult(c)
    \/ MarkClosed(c) \/ CloseInput(c) \/ ShutdownSelect(c) \/ ShutdownReturn(c)
    \/ KillChild(c) \/ Reap(c) \/ ReapStderr(c)

TxnEnds(c) == TxnWriteFails(c) \/ TxnRead(c) \/ TxnReadFails(c)

Calls(c) ==
    \/ "start" \in Roles[c] /\ StartCall(c)
    \/ \E o \in Roles[c] \cap {"execute", "shutdown"} : RequestCall(c, o)
    \/ "close" \in Roles[c] /\ CloseCall(c)
    \/ Cancel(c)

SessionNext ==
    \/ \E c \in Callers : \/ Calls(c) \/ CallerStep(c)
                          \/ TxnWrite(c) \/ TxnWritten(c) \/ TxnEnds(c)
    \/ ChildKilled \/ WaitReturns \/ StderrDrained

UntrustedChild ==
    \/ \E r \in Reply : ChildWrites(r)
    \/ \E how \in {"ok", "fail"} : ChildExits(how)
    \/ \E c \in Callers : ChildHangsUp(c)

Next == SessionNext \/ UntrustedChild

Spec == Init /\ [][Next]_vars

\* Goroutines that can run do run, the kernel delivers the kill, and the
\* child's end of stderr closes with it (the engine starts no descendants).
\* Nothing is promised of callers, contexts, writes into a pipe the child
\* does not read, or of the child.
Fairness ==
    /\ \A c \in Callers : WF_vars(CallerStep(c)) /\ WF_vars(TxnEnds(c))
    /\ WF_vars(ChildKilled) /\ WF_vars(WaitReturns) /\ WF_vars(StderrDrained)

FairSpec == Spec /\ Fairness

-----------------------------------------------------------------------------
(* Properties.                                                             *)

\* The caller has the token and owes its release.
Holding(c) ==
    \/ pc[c] \in {"recheck", "check", "exited", "request", "await",
                       "prefer", "drain", "acked", "closing", "exit_wait",
                       "exit_stderr"}
    \/ /\ pc[c] \in {"close_input", "kill", "reap", "stderr"}
       /\ op[c] \in {"execute", "shutdown"}

\* One request in flight: the token is in its slot exactly when no caller
\* owes its release, never two callers hold it, and a transaction goroutine
\* (which owns the pipes) only runs for the caller that holds it.  No path
\* out of Execute or Shutdown loses or duplicates the token, so the session
\* can neither interleave two requests nor lock every later caller out.
OneInFlight ==
    /\ token <=> \A c \in Callers : ~Holding(c)
    /\ \A c, d \in Callers : Holding(c) /\ Holding(d) => c = d
    /\ \A c \in Callers : txn[c] # "none" => Holding(c)

\* Request IDs identify requests: the frames written to the child carry
\* strictly increasing, nonzero IDs, although a local failure spends an ID
\* and the counter wraps (nextRequestID refuses instead of wrapping).
RequestIdsIncrease ==
    \A i \in DOMAIN stdin :
        /\ stdin[i].id > 0
        /\ \A j \in DOMAIN stdin : i < j => stdin[i].id < stdin[j].id

\* A call that reports an answer was answered: the response carried the ID
\* of the call's own request, and that request went out whole, newline
\* included.  A response left over from another request never gets through.
AnswersCorrelate ==
    \A c \in Callers :
        out[c].kind \in {"completed", "remote", "acked", "shutdown_ok"} =>
            /\ out[c].id = reqId[c]
            /\ \E i \in DOMAIN stdin :
                 stdin[i] = [id |-> reqId[c], op |-> op[c], part |-> "line"]

\* Nothing of the child survives a call that gave up on it: when Close, a
\* failed Start, or an Execute or Shutdown that hit a transport, protocol or
\* in-flight context error returns, the child is reaped, both pipes are
\* closed and the stderr goroutine has ended.
GiveUpReaps ==
    \A c \in Callers :
        /\ At(c, "idle")
        /\ out[c].kind \in {"start_aborted", "transport", "protocol",
                                 "ctx_transact", "ctx_exit", "close_ok",
                                 "exit_error"}
        => child.waitDone /\ child.stderrDone /\ ~inputOpen /\ ~outputOpen

\* No call returns while its transaction goroutine is still using the pipes.
NoGoroutineOutlivesItsCall ==
    \A c \in Callers : At(c, "idle") => txn[c] = "none"

\* A Shutdown that returns nil was acknowledged, the child exited cleanly and
\* is reaped, and its request is the last one the child was ever sent.
ShutdownIsFinal ==
    \A c \in Callers :
        out[c].kind = "shutdown_ok" =>
            /\ state = "closed" /\ child.waitDone /\ child.status = "ok"
            /\ stdin[Len(stdin)].id = reqId[c]

\* A session that stopped working stays stopped: closed is final, poisoned
\* can only become closed, and once it is poisoned no request ID is issued.
NeverReopened ==
    [][ /\ state = "closed" => state' = "closed"
        /\ state = "poisoned" => state' # "open" /\ sequence' = sequence
      ]_vars

\* The answer to the request of c is in the channel and c is at its selects.
Delivered(c) ==
    /\ pc[c] \in {"await", "prefer"} /\ txn[c] = "done"
    /\ result[c].kind \in {"completed", "remote"}

\* An answer in the channel is safe until its caller has it: whatever the
\* context, Close, the child and the other callers do, every step leaves it
\* there or hands it to the caller of the very request, and none poisons the
\* open session (transact, markPoisoned).
DeliveredAnswerKept ==
    [][ \A c \in Callers : Delivered(c) =>
          /\ reqId'[c] = reqId[c]
          /\ \/ Delivered(c)' /\ result'[c] = result[c]
             \/ At(c, "idle")' /\ out'[c] = result[c]
          /\ state = "open" => state' # "poisoned" ]_vars

\* The caller that is being served, and how far: "answered" needs a response
\* with its own ID, whatever becomes of the call afterwards.
Served == IF token THEN NoCaller ELSE CHOOSE c \in Callers : Holding(c)
ServedPhase ==
    LET c == Served
        o == IF out[c].kind = "none" THEN result[c] ELSE out[c]
    IN  IF c = NoCaller THEN "free"
        ELSE IF pc[c] \in {"recheck", "check", "exited"} THEN "entered"
        ELSE IF o.kind \in {"completed", "remote", "acked", "exit_error", "ctx_exit"}
          THEN "answered"
        ELSE IF stdin # <<>> /\ stdin[Len(stdin)].id = reqId[c] THEN "sent"
        ELSE "admitted"

Promise == INSTANCE SerialSession WITH
    serving <- Served,
    phase   <- ServedPhase,
    stopped <- state # "open",
    wire    <- [i \in DOMAIN stdin |-> stdin[i].id]

\* The session keeps its promise: to its callers the goroutines, the token,
\* the mutex and the reaping of the child are one server of one request at a
\* time, which sends nothing behind a request that stayed unanswered.
ImplementsSerialSession == Promise!Spec

\* Cancellation works: a call whose context is done returns, whatever the
\* child does (hangs, does not read, does not write, ignores its stdin).
CancelledCallReturns ==
    \A c \in Callers : cancelled[c] ~> At(c, "idle")

\* "Prefer an already-completed transaction over a simultaneous context
\* cancellation": an answer that was there before the call saw the end of its
\* context is what the call returns in the end, under the ID of its request,
\* and the session is not poisoned for it, although the context, a concurrent
\* Close and the death of the child may all come in between.
DeliveredAnswerReturns ==
    \A c \in Callers, id \in Ids \ {0} :
        Delivered(c) /\ reqId[c] = id
        ~> /\ At(c, "idle") /\ reqId[c] = id /\ state # "poisoned"
           /\ out[c].kind \in {"completed", "remote"} /\ out[c].id = id

\* Close returns, also when it races other calls for stateMu or the kill, and
\* it "can interrupt an in-flight Execute": a call that waits for the child
\* while another goroutine closes the session returns too.
CloseInterrupts ==
    \A c \in Callers :
        \/ At(c, "mark")
        \/ At(c, "await") /\ \E d \in Callers : At(d, "mark")
        ~> At(c, "idle")
=============================================================================
