----------------------------- MODULE RunCommand -----------------------------
(***************************************************************************)
(* `labctl run --engine <path> <workload.json>`: runWorkload of            *)
(* labctl-go/internal/app/app.go drives one session through Start, Execute,*)
(* Shutdown and the deferred Close, under the one context that main        *)
(* cancels on SIGINT or SIGTERM, and turns what happened into an exit code.*)
(***************************************************************************)
EXTENDS EngineSession

CONSTANT Main   \* the goroutine of the command

ASSUME MainAssumption ==
    Callers = {Main} /\ Roles = [c \in {Main} |-> {"start", "execute", "shutdown", "close"}]

VARIABLES
    step,       \* how far runWorkload is; a call is under way when the caller is not idle
    code,       \* the exit code, "none" until it is known
    printed,    \* the result has been written to standard output
    ctxDone     \* a signal has arrived

cmdVars == <<step, code, printed, ctxDone>>
runVars == <<sysVars, cmdVars>>

RunInit == SysInit /\ step = "args" /\ code = "none" /\ printed = FALSE /\ ctxDone = FALSE

Idle == At(Main, "idle")

\* The process of the command goes to its next step.
Then(next, exit) == step' = next /\ code' = exit /\ UNCHANGED <<sysVars, ctxDone>>

\* Arguments, the workload file and its projection are looked at before any
\* child exists.
RunArgs ==
    /\ step = "args"
    /\ \/ \E exit \in {"1", "2"} : Then("exit", exit)
       \/ Then("start", "none")
    /\ UNCHANGED printed

\* The calls.  They all get the command's context: one that begins when the
\* context is done returns at once.
RunStart ==
    /\ step = "start" /\ op[Main] = "none"
    /\ StartCall(Main)
    /\ ctxDone <=> out'[Main].kind = "ctx"
    /\ UNCHANGED <<engine, cmdVars>>

\* Mutant: the requests get a context of their own.
RunRequestNoContext(o) ==
    /\ step = o /\ Idle /\ op[Main] # o
    /\ RequestCall(Main, o)
    /\ pc'[Main] # "idle"
    /\ UNCHANGED <<engine, cmdVars>>

RunRequest(o) ==
    /\ step = o /\ Idle /\ op[Main] # o
    /\ RequestCall(Main, o)
    /\ ctxDone <=> pc'[Main] = "idle"
    /\ UNCHANGED <<engine, cmdVars>>

RunClose ==
    /\ step = "close" /\ Idle /\ op[Main] # "close"
    /\ CloseCall(Main)
    /\ UNCHANGED <<engine, cmdVars>>

\* What follows each call.
Returned(o) == step = o /\ Idle /\ op[Main] = o

RunStarted ==
    /\ Returned("start")
    /\ IF out[Main].kind = "started" THEN Then("execute", "none")
                                          ELSE Then("exit", "1")
    /\ UNCHANGED printed

\* Mutant: Close is not deferred.
RunExecutedNoClose ==
    /\ Returned("execute")
    /\ IF out[Main].kind = "completed" THEN Then("shutdown", "none")
                                            ELSE Then("exit", "1")
    /\ UNCHANGED printed

RunExecuted ==
    /\ Returned("execute")
    /\ IF out[Main].kind = "completed" THEN Then("shutdown", "none")
                                            ELSE Then("close", "1")
    /\ UNCHANGED printed

\* Mutant: the error of Shutdown is dropped.
RunShutDownAnyhow == Returned("shutdown") /\ Then("print", "none") /\ UNCHANGED printed

RunShutDown ==
    /\ Returned("shutdown")
    /\ IF out[Main].kind = "shutdown_ok" THEN Then("print", "none")
                                              ELSE Then("close", "1")
    /\ UNCHANGED printed

\* writeRunResult; the write may fail.
RunPrint ==
    /\ step = "print"
    /\ \E ok \in BOOLEAN : Then("close", IF ok THEN "0" ELSE "1") /\ printed' = ok

\* The deferred Close has returned.
RunClosed == Returned("close") /\ Then("exit", code) /\ UNCHANGED printed

\* The signal reaches the call under way, and every later one.
RunSignal ==
    /\ ~ctxDone /\ ctxDone' = TRUE
    /\ IF Idle \/ op[Main] = "close" THEN UNCHANGED vars ELSE Cancel(Main)
    /\ UNCHANGED <<engine, step, code, printed>>

RunStep == \/ RunArgs \/ RunStart \/ RunStarted
           \/ \E o \in {"execute", "shutdown"} : RunRequest(o)
           \/ RunExecuted \/ RunShutDown \/ RunPrint \/ RunClose \/ RunClosed

\* What the goroutines of the session do once a call was made.
GoroutineStep ==
    \/ CallerStep(Main) \/ TxnWrite(Main) \/ TxnWritten(Main) \/ TxnEnds(Main)
    \/ ChildKilled \/ WaitReturns \/ StderrDrained

RunNext ==
    \/ RunStep \/ RunSignal
    \/ GoroutineStep /\ UNCHANGED <<engine, cmdVars>>
    \/ (EngineStep \/ EngineCrashes) /\ ByProcess /\ UNCHANGED cmdVars

RunSpec == RunInit /\ [][RunNext]_runVars

\* The command and the session run; the engine need not.
Inner(A) == A /\ UNCHANGED <<engine, cmdVars>>
RunFairSpec ==
    /\ RunSpec
    /\ WF_runVars(RunStep)
    /\ WF_runVars(Inner(CallerStep(Main))) /\ WF_runVars(Inner(TxnEnds(Main)))
    /\ WF_runVars(Inner(ChildKilled)) /\ WF_runVars(Inner(WaitReturns))
    /\ WF_runVars(Inner(StderrDrained))

-----------------------------------------------------------------------------
(* Properties.                                                             *)

\* No way out of the command leaves a child, a pipe or a goroutine behind.
NothingLeftBehind ==
    step = "exit" =>
        \/ child.proc = "unstarted"
        \/ /\ child.waitDone /\ child.stderrDone
           /\ ~inputOpen /\ ~outputOpen /\ txn[Main] = "none"

\* A result is printed, and the exit code is zero, only after the engine ran
\* the job once and then exited cleanly on an acknowledged shutdown.
ZeroMeansDone ==
    printed \/ code = "0" =>
        /\ child.status = "ok" /\ child.waitDone
        /\ Len(engine.executed) = 1 /\ Len(stdin) = 2

\* An interrupted command ends, even if the engine hangs.
SignalEndsRun == ctxDone ~> step = "exit"
=============================================================================
