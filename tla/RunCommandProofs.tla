-------------------------- MODULE RunCommandProofs --------------------------
(***************************************************************************)
(* Proofs about RunCommand, `labctl run` with its session and its engine,  *)
(* for any width of the request sequence and any capacity of the pipe.     *)
(*                                                                         *)
(* The command is one caller of the session, so everything proved of the   *)
(* pair in EngineSessionProofs holds here.  What is added is the order in  *)
(* which runWorkload makes its calls, and what each of them has found.     *)
(***************************************************************************)
EXTENDS RunCommand, EngineSessionProofs

\* The calls come in the order of runWorkload, each after the success of the
\* one before it.
OrderInv ==
    /\ step \in {"args", "start", "execute", "shutdown", "print", "close", "exit"}
    /\ code \in {"none", "0", "1", "2"}
    /\ step \in {"args", "print", "exit"} => Idle
    /\ step = "args" => op[Main] = "none"
    /\ step = "start" => op[Main] \in {"none", "start"}
    /\ step = "execute" =>
         \/ op[Main] = "start" /\ Idle
         \/ op[Main] = "execute"
    /\ step = "shutdown" =>
         \/ op[Main] = "execute" /\ Idle /\ out[Main].kind = "completed"
         \/ op[Main] = "shutdown"
    /\ step = "print" => op[Main] = "shutdown" /\ out[Main].kind = "shutdown_ok"
    /\ step = "close" => Idle \/ op[Main] = "close"
    /\ printed => code = "0"
    /\ code = "0" => step \in {"close", "exit"}

\* What is left of the child.
Gone == child.waitDone /\ child.stderrDone /\ ~inputOpen /\ ~outputOpen

\* A Start that failed has left no child, and at the exit there is none.
LeftInv ==
    /\ op[Main] = "none" => Idle /\ child.proc = "unstarted"
    /\ op[Main] = "start" /\ Idle /\ out[Main].kind # "started" =>
         child.proc = "unstarted" \/ Gone
    /\ op[Main] = "close" => out[Main].kind = "close_ok"
    /\ step = "exit" => child.proc = "unstarted" \/ Gone

\* The requests the command has written, and what the engine made of them.
JobInv ==
    /\ op[Main] \in {"none", "start"} => stdin = <<>> /\ engine.executed = <<>>
    /\ op[Main] = "execute" =>
         /\ Len(stdin) <= 1 /\ (stdin # <<>> => stdin[1].op = "execute")
         /\ pc[Main] \in Asking \/ txn[Main] = "write" => stdin = <<>>
         /\ engine.pos < Len(stdin) \/ engine.pc = "execute" => engine.executed = <<>>
         /\ Len(engine.executed) <= 1
    /\ op[Main] = "shutdown" =>
         /\ Len(engine.executed) = 1 /\ Len(stdin) \in {1, 2}
         /\ pc[Main] \in Asking \/ txn[Main] = "write" => Len(stdin) = 1
         /\ stdin[1].op = "execute" /\ (Len(stdin) = 2 => stdin[2].op = "shutdown")
         /\ Len(stdin) = 1 => stdin[1].id # reqId[Main]

\* The job is done: it ran once, and the engine exited cleanly on a shutdown.
Done ==
    /\ child.status = "ok" /\ child.waitDone /\ child.proc = "exited"
    /\ Len(engine.executed) = 1 /\ Len(stdin) = 2
DoneInv == step = "print" \/ code = "0" => Done

-----------------------------------------------------------------------------
(* The command is a session with one caller.                               *)

\* The command is the one caller of its session.
LEMMA MainCalls == Main \in Callers /\ Callers = {Main}
                   /\ Roles[Main] = {"start", "execute", "shutdown", "close"}
  BY MainAssumption

\* A step of the command is a step of the pair.
LEMMA RunSimulates ==
  ASSUME [RunNext]_runVars
  PROVE  [SysNext]_sysVars
  <1> USE MainCalls
  <1>1. CASE RunArgs \/ RunStarted \/ RunExecuted \/ RunShutDown \/ RunPrint \/ RunClosed
    BY <1>1 DEF RunArgs, RunStarted, RunExecuted, RunShutDown, RunPrint, RunClosed, Then
  <1>2. CASE RunStart
    BY <1>2 DEF RunStart, SysNext, SessionNext, Calls
  <1>3. ASSUME NEW o \in {"execute", "shutdown"}, RunRequest(o) PROVE [SysNext]_sysVars
    BY <1>3 DEF RunRequest, SysNext, SessionNext, Calls
  <1>4. CASE RunClose
    BY <1>4 DEF RunClose, SysNext, SessionNext, Calls
  <1>5. CASE RunSignal
    BY <1>5 DEF RunSignal, SysNext, SessionNext, Calls, sysVars
  <1>6. CASE GoroutineStep /\ UNCHANGED <<engine, cmdVars>>
    BY <1>6 DEF GoroutineStep, SysNext, SessionNext
  <1>7. CASE (EngineStep \/ EngineCrashes) /\ ByProcess /\ UNCHANGED cmdVars
    BY <1>7 DEF SysNext
  <1>8. CASE UNCHANGED runVars
    BY <1>8 DEF runVars
  <1> QED BY <1>1, <1>2, <1>3, <1>4, <1>5, <1>6, <1>7, <1>8 DEF RunNext, RunStep

\* So all that is proved of the session and the engine holds of the command.
THEOREM CommandIsASession == RunSpec => SysSpec
  <1>1. RunInit => SysInit
    BY DEF RunInit
  <1>2. [RunNext]_runVars => [SysNext]_sysVars
    BY RunSimulates
  <1> QED BY <1>1, <1>2, PTL DEF RunSpec, SysSpec

\* The facts the proofs below take from there.
PairFacts ==
    /\ SessionFacts /\ EngineType /\ StreamInv /\ SyncInv
    /\ HistoryInv /\ ToldInv /\ WorkInv

\* They hold throughout.
LEMMA CommandFacts == RunSpec => []PairFacts
  <1>1. /\ SessionFacts /\ EngineType /\ StreamInv /\ SyncInv
        /\ HistoryInv /\ ToldInv /\ WorkInv
        => PairFacts
    BY DEF PairFacts
  <1> QED BY <1>1, CommandIsASession, PairInvariant, HistoryInvariant, WorkInvariant, PTL

-----------------------------------------------------------------------------
(* The order of the calls.                                                 *)

\* The goroutines leave an idle caller alone and never change its method.
LEMMA GoroutinesOnly ==
  ASSUME TypeOK, Control, GoroutineStep
  PROVE  /\ UNCHANGED op
         /\ Idle => UNCHANGED <<pc, out, stdin, txn, reqId>>
  <1> USE MainCalls DEF Idle, At, callVars, txnVars, pipeVars
  <1>1. CASE CallerStep(Main)
    <2>1. ~Idle
      BY <1>1 DEF CallerStep, StartReturn, AcquireSelect, AcquireRecheck,
           CheckOpen, CheckFindsExit, CheckExited, RequestFails, SendRequest, TakeResult,
           AwaitCancelled, AbandonRequest, DrainResult, MarkClosed, CloseInput,
           ShutdownSelect, ShutdownReturn, KillChild, Reap, ReapStderr
    <2>2. UNCHANGED op
      BY <1>1 DEF CallerStep, StartReturn, AcquireSelect, AcquireRecheck,
           CheckOpen, CheckFindsExit, CheckExited, RequestFails, SendRequest, TakeResult,
           AwaitCancelled, AbandonRequest, DrainResult, MarkClosed, CloseInput,
           ShutdownSelect, ShutdownReturn, KillChild, Reap, ReapStderr, Goto, Return,
           Decide, KillAndReap
    <2> QED BY <2>1, <2>2
  <1>2. CASE TxnWrite(Main) \/ TxnWritten(Main) \/ TxnEnds(Main)
    <2>1. txn[Main] # "none" /\ UNCHANGED op
      BY <1>2 DEF TxnWrite, TxnWritten, TxnEnds, TxnWriteFails, TxnRead, TxnReadFails
    <2>2. ~Idle
      BY <2>1 DEF Control, ControlOf, KillChain
    <2> QED BY <2>1, <2>2
  <1>3. CASE ChildKilled \/ WaitReturns \/ StderrDrained
    BY <1>3 DEF ChildKilled, WaitReturns, StderrDrained, ChildStep
  <1> QED BY <1>1, <1>2, <1>3 DEF GoroutineStep

\* Every step preserves OrderInv.
LEMMA OrderStep ==
  ASSUME PairFacts, OrderInv, [RunNext]_runVars
  PROVE  OrderInv'
  <1> USE MainCalls DEF OrderInv, Idle, At, cmdVars, Begin, callVars
  <1>0. TypeOK /\ Control /\ pc[Main] \in PCs
    BY DEF PairFacts, SessionFacts, TypeOK
  <1>1. CASE RunArgs \/ RunStarted \/ RunExecuted \/ RunShutDown \/ RunPrint \/ RunClosed
    BY <1>1 DEF RunArgs, RunStarted, RunExecuted, RunShutDown, RunPrint, RunClosed, Then,
                Returned, sysVars, vars
  <1>2. CASE RunStart
    BY <1>0, <1>2 DEF RunStart, StartCall, TypeOK
  <1>3. ASSUME NEW o \in {"execute", "shutdown"}, RunRequest(o) PROVE OrderInv'
    BY <1>0, <1>3 DEF RunRequest, RequestCall, TypeOK
  <1>4. CASE RunClose
    BY <1>0, <1>4 DEF RunClose, CloseCall, TypeOK
  <1>5. CASE RunSignal
    BY <1>5 DEF RunSignal, Cancel, vars
  <1>6. CASE GoroutineStep /\ UNCHANGED <<engine, cmdVars>>
    BY <1>0, <1>6, GoroutinesOnly
  <1>7. CASE (EngineStep \/ EngineCrashes) /\ ByProcess /\ UNCHANGED cmdVars
    BY <1>7 DEF ByProcess
  <1>8. CASE UNCHANGED runVars
    BY <1>8 DEF runVars, sysVars, vars
  <1> HIDE DEF OrderInv
  <1> QED BY <1>1, <1>2, <1>3, <1>4, <1>5, <1>6, <1>7, <1>8 DEF RunNext, RunStep

-----------------------------------------------------------------------------
(* What is left behind.                                                    *)

\* What is gone stays gone, and only Start makes a child.
LEMMA GoneStays ==
  ASSUME TypeOK, [SysNext]_sysVars
  PROVE  /\ Gone => Gone'
         /\ child.proc = "unstarted" =>
              child'.proc = "unstarted" \/ \E c \in Callers : StartCall(c)
  <1> USE DEF Gone, TypeOK, Child, pipeVars
  <1>1. ASSUME NEW c \in Callers, Calls(c)
        PROVE  /\ Gone => Gone'
               /\ child.proc = "unstarted" => child'.proc = "unstarted" \/ StartCall(c)
    BY <1>1 DEF Calls, StartCall, RequestCall, CloseCall, Cancel
  <1>2. ASSUME NEW c \in Callers, CallerStep(c)
        PROVE  (Gone => Gone') /\ child'.proc = child.proc
    <2>1. CASE \/ StartReturn(c) \/ AcquireSelect(c) \/ AcquireRecheck(c) \/ CheckOpen(c)
               \/ CheckFindsExit(c) \/ CheckExited(c) \/ RequestFails(c) \/ SendRequest(c)
      <3>1. UNCHANGED child
        BY <2>1 DEF StartReturn, AcquireSelect, AcquireRecheck, CheckOpen,
             CheckFindsExit, CheckExited, RequestFails, SendRequest
      <3>2. inputOpen' => inputOpen
        BY <2>1 DEF StartReturn, AcquireSelect, AcquireRecheck, CheckOpen,
             CheckFindsExit, CheckExited, RequestFails, SendRequest
      <3>3. outputOpen' => outputOpen
        BY <2>1 DEF StartReturn, AcquireSelect, AcquireRecheck, CheckOpen,
             CheckFindsExit, CheckExited, RequestFails, SendRequest
      <3> QED BY ONLY <3>1, <3>2, <3>3 DEF Gone
    <2>2. CASE \/ TakeResult(c) \/ AwaitCancelled(c) \/ AbandonRequest(c) \/ DrainResult(c)
               \/ MarkClosed(c) \/ CloseInput(c) \/ ShutdownSelect(c) \/ ShutdownReturn(c)
      <3>1. UNCHANGED child
        BY <2>2 DEF TakeResult, AwaitCancelled, AbandonRequest, DrainResult,
             MarkClosed, CloseInput, ShutdownSelect, ShutdownReturn
      <3>2. inputOpen' => inputOpen
        BY <2>2 DEF TakeResult, AwaitCancelled, AbandonRequest, DrainResult,
             MarkClosed, CloseInput, ShutdownSelect, ShutdownReturn
      <3>3. outputOpen' => outputOpen
        BY <2>2 DEF TakeResult, AwaitCancelled, AbandonRequest, DrainResult,
             MarkClosed, CloseInput, ShutdownSelect, ShutdownReturn
      <3> QED BY ONLY <3>1, <3>2, <3>3 DEF Gone
    <2>3. CASE KillChild(c)
      BY <2>3 DEF KillChild
    <2>4. CASE Reap(c)
      BY <2>4 DEF Reap
    <2>5. CASE ReapStderr(c)
      BY <2>5 DEF ReapStderr
    <2> HIDE DEF Gone
    <2> QED BY <1>2, <2>1, <2>2, <2>3, <2>4, <2>5 DEF CallerStep
  <1>3. ASSUME NEW c \in Callers, TxnWrite(c) \/ TxnWritten(c) \/ TxnEnds(c)
        PROVE  (Gone => Gone') /\ child'.proc = child.proc
    BY <1>3 DEF TxnWrite, TxnWritten, TxnEnds, TxnWriteFails, TxnRead, TxnReadFails
  <1>4. ASSUME ChildKilled \/ WaitReturns \/ StderrDrained
        PROVE  (Gone => Gone') /\ (child.proc = "unstarted" => child'.proc = "unstarted")
    <2>1. CASE ChildKilled
      BY <2>1 DEF ChildKilled, ChildStep
    <2>2. CASE WaitReturns
      BY <2>2 DEF WaitReturns, ChildStep
    <2>3. CASE StderrDrained
      BY <2>3 DEF StderrDrained, ChildStep
    <2> QED BY <1>4, <2>1, <2>2, <2>3
  <1>5. ASSUME EngineStep \/ EngineCrashes
        PROVE  (Gone => Gone') /\ (child.proc = "unstarted" => child'.proc = "unstarted")
    <2>1. UNCHANGED <<inputOpen, outputOpen>> /\ child.proc = "running"
      BY <1>5 DEF EngineStep, EngineReads, EngineRejects, EngineEOF, EngineExecutes,
           EngineResponds, EngineReturns, EngineCrashes, Serving
    <2>2. UNCHANGED child \/ Exit("ok") \/ Exit("fail")
      BY <1>5 DEF EngineStep, EngineReads, EngineRejects, EngineEOF, EngineExecutes,
           EngineResponds, EngineReturns, EngineCrashes
    <2>3. child'.waitDone = child.waitDone /\ child'.stderrDone = child.stderrDone
      BY <2>2 DEF Exit
    <2> QED BY <2>1, <2>3
  <1>6. ASSUME UNCHANGED sysVars PROVE (Gone => Gone') /\ child'.proc = child.proc
    BY <1>6 DEF sysVars, vars
  <1> HIDE DEF Gone
  <1> QED BY <1>1, <1>2, <1>3, <1>4, <1>5, <1>6 DEF SysNext, SessionNext

\* How Start and Close come back to their caller.
LEMMA Returns ==
  ASSUME TypeOK, Control, CallerStep(Main)
  PROVE  /\ op[Main] = "start" /\ Idle' =>
              out'[Main].kind \in {"started", "start_aborted"}
         /\ op[Main] = "close" => out'[Main].kind = out[Main].kind
  <1> USE MainCalls DEF TypeOK, Control, ControlOf, KillChain, Requests, At, Idle, Goto,
             Return, Decide, KillAndReap, Plain
  <1>1. CASE StartReturn(Main)
    BY <1>1 DEF StartReturn
  <1>2. CASE ReapStderr(Main)
    BY <1>2 DEF ReapStderr
  <1>3. CASE MarkClosed(Main) \/ CloseInput(Main) \/ KillChild(Main) \/ Reap(Main)
    BY <1>3 DEF MarkClosed, CloseInput, KillChild, Reap
  <1>4. CASE \/ AcquireSelect(Main) \/ AcquireRecheck(Main) \/ CheckOpen(Main)
             \/ CheckFindsExit(Main) \/ CheckExited(Main) \/ RequestFails(Main)
             \/ SendRequest(Main) \/ TakeResult(Main) \/ AwaitCancelled(Main)
             \/ AbandonRequest(Main) \/ DrainResult(Main) \/ ShutdownSelect(Main)
             \/ ShutdownReturn(Main)
    <2>1. op[Main] \in Requests
      BY <1>4 DEF AcquireSelect, AcquireRecheck, CheckOpen, CheckFindsExit, CheckExited,
           RequestFails, SendRequest, TakeResult, AwaitCancelled, AbandonRequest,
           DrainResult, ShutdownSelect, ShutdownReturn
    <2> QED BY <2>1
  <1> QED BY <1>1, <1>2, <1>3, <1>4 DEF CallerStep

\* Every step preserves LeftInv.
LEMMA LeftStep ==
  ASSUME PairFacts, PairFacts', OrderInv, LeftInv, [RunNext]_runVars
  PROVE  LeftInv'
  <1> USE MainCalls
  <1>0. TypeOK /\ Control /\ GiveUpReaps /\ GiveUpReaps' /\ [SysNext]_sysVars
    BY RunSimulates DEF PairFacts, SessionFacts, ReapInv
  <1>1. CASE RunArgs \/ RunStarted \/ RunExecuted \/ RunShutDown \/ RunPrint \/ RunClosed
    <2>1. UNCHANGED <<op, out, pc, child, inputOpen, outputOpen>>
      BY <1>1 DEF RunArgs, RunStarted, RunExecuted, RunShutDown, RunPrint, RunClosed, Then,
                  sysVars, vars
    <2>2. step' = "exit" => child.proc = "unstarted" \/ Gone
      <3>1. CASE RunClosed
        BY <1>0, <3>1 DEF RunClosed, Returned, LeftInv, GiveUpReaps, Gone, Idle
      <3>2. CASE RunArgs
        BY <3>2 DEF RunArgs, OrderInv, LeftInv
      <3>3. CASE RunStarted
        BY <3>3 DEF RunStarted, Returned, LeftInv, Then
      <3>4. CASE RunExecuted \/ RunShutDown \/ RunPrint
        BY <3>4 DEF RunExecuted, RunShutDown, RunPrint, Then
      <3> QED BY <1>1, <3>1, <3>2, <3>3, <3>4
    <2> QED BY <2>1, <2>2 DEF LeftInv, Idle, At, Gone
  <1>2. CASE RunStart
    <2>1. op'[Main] = "start" /\ step' = "start" /\ child.proc = "unstarted"
      BY <1>0, <1>2 DEF RunStart, StartCall, Begin, cmdVars, TypeOK
    <2>2. Idle' => UNCHANGED child
      BY <1>0, <1>2 DEF RunStart, StartCall, Begin, Idle, At, TypeOK
    <2> QED BY <2>1, <2>2 DEF LeftInv
  <1>3. ASSUME NEW o \in {"execute", "shutdown"}, RunRequest(o) PROVE LeftInv'
    <2>1. op'[Main] = o /\ step' = o
      BY <1>0, <1>3 DEF RunRequest, RequestCall, Begin, cmdVars, TypeOK
    <2> QED BY <2>1 DEF LeftInv
  <1>4. CASE RunClose
    <2>1. op'[Main] = "close" /\ out'[Main].kind = "close_ok" /\ step' = "close"
      BY <1>0, <1>4 DEF RunClose, CloseCall, Begin, cmdVars, TypeOK, Plain
    <2> QED BY <2>1 DEF LeftInv
  <1>5. CASE RunSignal
    BY <1>5 DEF RunSignal, Cancel, LeftInv, vars, pipeVars, Gone, Idle, At
  <1>6. CASE GoroutineStep /\ UNCHANGED <<engine, cmdVars>>
    <2>1. UNCHANGED <<op, step>> /\ (Idle => UNCHANGED <<pc, out>>)
      BY <1>0, <1>6, GoroutinesOnly DEF cmdVars
    <2>2. child.proc = "unstarted" => child'.proc = "unstarted"
      BY <1>0, <1>6 DEF GoroutineStep, CallerStep, StartReturn, AcquireSelect,
           AcquireRecheck, CheckOpen, CheckFindsExit, CheckExited, RequestFails,
           SendRequest, TakeResult, AwaitCancelled, AbandonRequest, DrainResult,
           MarkClosed, CloseInput, ShutdownSelect, ShutdownReturn, KillChild, Reap,
           ReapStderr, TxnWrite, TxnWritten, TxnEnds, TxnWriteFails, TxnRead,
           TxnReadFails, ChildKilled, WaitReturns, StderrDrained, ChildStep, TypeOK, Child
    <2>3. Gone => Gone'
      BY <1>0, GoneStays
    <2>4. ~Idle => CallerStep(Main) \/ UNCHANGED <<pc, out>>
      BY <1>6 DEF GoroutineStep, TxnWrite, TxnWritten, TxnEnds, TxnWriteFails, TxnRead,
           TxnReadFails, ChildKilled, WaitReturns, StderrDrained, ChildStep, callVars
    <2>5. ASSUME op[Main] = "start", Idle', ~Idle, out'[Main].kind # "started" PROVE Gone'
      <3>1. CallerStep(Main)
        BY <2>4, <2>5 DEF Idle, At
      <3>2. out'[Main].kind = "start_aborted"
        BY <1>0, <2>5, <3>1, Returns
      <3> QED BY <1>0, <2>5, <3>2 DEF GiveUpReaps, Gone, Idle
    <2>6. op[Main] = "close" => out'[Main].kind = out[Main].kind
      BY <1>0, <2>1, <2>4, Returns
    <2>7. op[Main] = "none" => Idle'
      BY <2>1 DEF LeftInv, Idle, At
    <2>8. Idle => Idle'
      BY <2>1 DEF Idle, At
    <2> QED BY <2>1, <2>2, <2>3, <2>5, <2>6, <2>7, <2>8 DEF LeftInv
  <1>7. CASE (EngineStep \/ EngineCrashes) /\ ByProcess /\ UNCHANGED cmdVars
    <2>1. UNCHANGED <<op, pc, out, step>>
      BY <1>7 DEF ByProcess, callVars, cmdVars
    <2>2. (Gone => Gone') /\ (child.proc = "unstarted" => child'.proc = "unstarted")
      BY <1>0, <1>7, GoneStays DEF EngineStep, EngineReads, EngineRejects, EngineEOF,
           EngineExecutes, EngineResponds, EngineReturns, EngineCrashes, Serving
    <2> QED BY <2>1, <2>2 DEF LeftInv, Idle, At
  <1>8. CASE UNCHANGED runVars
    BY <1>8 DEF runVars, sysVars, vars, cmdVars, LeftInv, Idle, At, Gone
  <1> QED BY <1>1, <1>2, <1>3, <1>4, <1>5, <1>6, <1>7, <1>8 DEF RunNext, RunStep

-----------------------------------------------------------------------------
(* The job.                                                                *)

\* Steps that write nothing and take no number.
JobSilent ==
    /\ UNCHANGED <<stdin, reqId, op>>
    /\ pc'[Main] \in Asking => pc[Main] \in Asking
    /\ txn'[Main] = "write" => txn[Main] = "write"

\* All steps of the goroutines but three are of that kind.
LEMMA JobStepKinds ==
  ASSUME TypeOK, GoroutineStep
  PROVE  SendRequest(Main) \/ TxnWrite(Main) \/ TxnWritten(Main) \/ JobSilent
  <1> USE MainCalls DEF JobSilent, TypeOK, Asking, At, Goto, Return, Decide, KillAndReap,
             TxnReceived, TxnDone, callVars, txnVars, pipeVars
  <1>1. ASSUME CallerStep(Main) PROVE SendRequest(Main) \/ JobSilent
    <2>1. UNCHANGED stdin
      BY <1>1 DEF CallerStep, StartReturn, AcquireSelect, AcquireRecheck, CheckOpen,
           CheckFindsExit, CheckExited, RequestFails, SendRequest, TakeResult,
           AwaitCancelled, AbandonRequest, DrainResult, MarkClosed, CloseInput,
           ShutdownSelect, ShutdownReturn, KillChild, Reap, ReapStderr
    <2>2. SendRequest(Main) \/ UNCHANGED <<reqId, op>>
      BY <1>1 DEF CallerStep, StartReturn, AcquireSelect, AcquireRecheck, CheckOpen,
           CheckFindsExit, CheckExited, RequestFails, TakeResult,
           AwaitCancelled, AbandonRequest, DrainResult, MarkClosed, CloseInput,
           ShutdownSelect, ShutdownReturn, KillChild, Reap, ReapStderr
    <2>3. SendRequest(Main) \/ (txn'[Main] = "write" => txn[Main] = "write")
      BY <1>1 DEF CallerStep, StartReturn, AcquireSelect, AcquireRecheck, CheckOpen,
           CheckFindsExit, CheckExited, RequestFails, TakeResult,
           AwaitCancelled, AbandonRequest, DrainResult, MarkClosed, CloseInput,
           ShutdownSelect, ShutdownReturn, KillChild, Reap, ReapStderr
    <2>4. SendRequest(Main) \/ (pc'[Main] \in Asking => pc[Main] \in Asking)
      BY <1>1 DEF CallerStep, StartReturn, AcquireSelect, AcquireRecheck, CheckOpen,
           CheckFindsExit, CheckExited, RequestFails, TakeResult,
           AwaitCancelled, AbandonRequest, DrainResult, MarkClosed, CloseInput,
           ShutdownSelect, ShutdownReturn, KillChild, Reap, ReapStderr
    <2> QED BY <2>1, <2>2, <2>3, <2>4
  <1>2. ASSUME TxnEnds(Main) PROVE JobSilent
    BY <1>2 DEF TxnEnds, TxnWriteFails, TxnRead, TxnReadFails
  <1>3. ASSUME ChildKilled \/ WaitReturns \/ StderrDrained PROVE JobSilent
    BY <1>3 DEF ChildKilled, WaitReturns, StderrDrained, ChildStep
  <1> QED BY <1>1, <1>2, <1>3 DEF GoroutineStep

\* Every step preserves JobInv.
LEMMA JobStep ==
  ASSUME PairFacts, OrderInv, JobInv, [RunNext]_runVars
  PROVE  JobInv'
  <1> USE MainCalls
  <1>0. /\ TypeOK /\ Control /\ IdInv /\ AnswerInv /\ FinalInv /\ SessionFacts
        /\ EngineType /\ StreamInv /\ SyncInv /\ HistoryInv /\ ToldInv /\ WorkInv
        /\ Len(stdin) \in Nat /\ engine.pos \in Nat /\ DOMAIN stdin = 1 .. Len(stdin)
        /\ stdin \in Seq(Frame) /\ Len(engine.executed) \in Nat
        /\ DOMAIN engine.executed = 1 .. Len(engine.executed)
        /\ engine.executed \in Seq(Ids)
    BY LenProperties DEF PairFacts, SessionFacts, TypeOK, EngineType
  <1>1. CASE RunArgs \/ RunStarted \/ RunExecuted \/ RunShutDown \/ RunPrint \/ RunClosed
    BY <1>1 DEF RunArgs, RunStarted, RunExecuted, RunShutDown, RunPrint, RunClosed, Then,
                sysVars, vars, JobInv
  <1>2. CASE RunStart
    <2>1. op[Main] = "none" /\ op'[Main] = "start" /\ UNCHANGED <<stdin, engine>>
      BY <1>0, <1>2 DEF RunStart, StartCall, Begin, TypeOK, pipeVars
    <2> QED BY <2>1 DEF JobInv
  <1>3. CASE RunRequest("execute")
    <2>1. op[Main] = "start" /\ op'[Main] = "execute" /\ UNCHANGED <<stdin, engine>>
      BY <1>0, <1>3 DEF RunRequest, RequestCall, Begin, TypeOK, pipeVars, OrderInv
    <2>2. stdin = <<>> /\ engine.executed = <<>>
      BY <2>1 DEF JobInv
    <2>3. Len(stdin) = 0 /\ Len(engine.executed) = 0
      BY <2>2
    <2> QED BY <2>1, <2>2, <2>3 DEF JobInv
  <1>4. CASE RunRequest("shutdown")
    <2>1. /\ op[Main] = "execute" /\ out[Main].kind = "completed"
          /\ op'[Main] = "shutdown" /\ reqId'[Main] = 0 /\ UNCHANGED <<stdin, engine, txn>>
      BY <1>0, <1>4 DEF RunRequest, RequestCall, Begin, TypeOK, pipeVars, txnVars, OrderInv
    <2>2. Ran(reqId[Main])
      BY <1>0, <2>1 DEF ToldInv
    <2>3. Len(engine.executed) = 1 /\ stdin # <<>>
      <3>1. PICK i \in DOMAIN engine.executed : engine.executed[i] = reqId[Main]
        BY <2>2 DEF Ran
      <3>2. 1 <= Len(engine.executed) /\ engine.executed # <<>>
        BY <1>0, <3>1
      <3>3. Len(engine.executed) <= 1
        BY <2>1 DEF JobInv
      <3>4. stdin # <<>>
        BY <1>0, <3>2 DEF HistoryInv
      <3>5. Len(engine.executed) \in Nat
        BY <1>0
      <3>6. \A n \in Nat : 1 <= n /\ n <= 1 => n = 1
        OBVIOUS
      <3>7. Len(engine.executed) = 1
        BY <3>2, <3>3, <3>5, <3>6, Zenon
      <3> QED BY <3>4, <3>7, Zenon
    <2>4. Len(stdin) = 1 /\ stdin[1].op = "execute"
      BY <1>0, <2>1, <2>3, EmptySeq DEF JobInv
    <2>5. stdin[1].id > 0
      BY <1>0, <2>4 DEF IdInv, RequestIdsIncrease
    <2> QED BY <2>1, <2>3, <2>4, <2>5 DEF JobInv
  <1>5. CASE RunClose
    <2>1. op'[Main] = "close"
      BY <1>0, <1>5 DEF RunClose, CloseCall, Begin, TypeOK
    <2> QED BY <2>1 DEF JobInv
  <1>6. CASE RunSignal
    BY <1>6 DEF RunSignal, Cancel, vars, pipeVars, txnVars, JobInv
  <1>7. CASE JobSilent /\ UNCHANGED engine
    BY <1>7 DEF JobSilent, JobInv
  <1>8. CASE SendRequest(Main) /\ UNCHANGED engine
    <2>1. /\ pc[Main] = "request" /\ op[Main] \in Requests /\ UNCHANGED <<stdin, op>>
          /\ pc'[Main] = "await" /\ reqId'[Main] = sequence /\ sequence # 0
      BY <1>0, <1>8 DEF SendRequest, At, TypeOK, Control, ControlOf, pipeVars, Exhausted
    <2>2. sequence \in Nat /\ \A i \in DOMAIN stdin : stdin[i].id < sequence
      BY <1>0, <2>1, ModulusAssumption DEF IdInv, NextNumber, TypeOK, Ids
    <2>3. pc[Main] \in Asking /\ pc'[Main] \notin Asking
      BY <2>1 DEF Asking
    <2>4. ASSUME Len(stdin) = 1 PROVE stdin[1].id < sequence /\ stdin[1].id \in Nat
      <3>1. 1 \in DOMAIN stdin
        BY <1>0, <2>4
      <3>2. stdin[1] \in Frame
        <4>1. stdin \in Seq(Frame) /\ 1 \in 1 .. Len(stdin)
          BY <1>0, <2>4
        <4> QED BY <4>1, ElementOfSeq
      <3>3. stdin[1].id \in Nat
        BY <3>2, ModulusAssumption DEF Frame, Ids
      <3> QED BY <2>2, <3>1, <3>3
    <2>5. Len(stdin) = 1 => stdin[1].id # reqId'[Main]
      BY <2>1, <2>2, <2>4
    <2> QED BY <1>8, <2>1, <2>3, <2>5 DEF JobInv, Requests
  <1>9. CASE TxnWrite(Main) /\ UNCHANGED engine
    <2>1. PICK part \in {"prefix", "payload"} :
            stdin' = Append(stdin, [id |-> reqId[Main], op |-> op[Main], part |-> part])
      BY <1>9 DEF TxnWrite
    <2>2. /\ Len(stdin') = Len(stdin) + 1 /\ UNCHANGED <<op, pc, reqId>>
          /\ txn[Main] = "write" /\ txn'[Main] = "writing"
          /\ engine.executed = engine'.executed /\ child.proc = "running"
      BY <1>0, <1>9, FrameBegun DEF TypeOK
    <2>3. op[Main] \in Requests /\ pc[Main] \notin Asking
      BY <1>0, <2>2 DEF Control, ControlOf, KillChain, Requests, Asking, TypeOK
    <2>4. [id |-> reqId[Main], op |-> op[Main], part |-> part] \in Frame
      BY <1>0, <2>3 DEF Frame, TypeOK, Requests
    <2>5. /\ \A i \in 1 .. Len(stdin) : stdin'[i] = stdin[i]
          /\ stdin'[Len(stdin) + 1] = [id |-> reqId[Main], op |-> op[Main], part |-> part]
      BY <1>0, <2>1, <2>4, AppendProperties
    <2>6. CASE op[Main] = "execute"
      <3>1. stdin = <<>> /\ Len(stdin) = 0
        BY <2>2, <2>6 DEF JobInv
      <3>2. Len(stdin') = 1 /\ stdin'[1].op = "execute"
        BY <2>2, <2>5, <2>6, <3>1
      <3>3. engine.executed = <<>>
        BY <1>0, <3>1 DEF HistoryInv
      <3>4. Len(engine.executed) <= 1
        BY <3>3
      <3> QED BY <1>9, <2>2, <2>3, <2>6, <3>2, <3>3, <3>4 DEF JobInv
    <2>7. CASE op[Main] = "shutdown"
      <3>1. Len(stdin) = 1 /\ Len(engine.executed) = 1 /\ stdin[1].op = "execute"
        BY <2>2, <2>7 DEF JobInv
      <3>2. Len(stdin') = 2 /\ stdin'[1].op = "execute" /\ stdin'[2].op = "shutdown"
        BY <2>2, <2>5, <2>7, <3>1
      <3> QED BY <2>2, <2>3, <2>7, <3>1, <3>2 DEF JobInv
    <2> QED BY <2>3, <2>6, <2>7 DEF Requests
  <1>10. CASE TxnWritten(Main) /\ UNCHANGED engine
    <2>1. LastFrame.op = op[Main]
      BY <1>0, <1>10 DEF TxnWritten, SyncInv
    <2>2. /\ Len(stdin') = Len(stdin) /\ stdin # <<>> /\ stdin' # <<>>
          /\ LastFrame.id = reqId[Main]
          /\ UNCHANGED <<op, pc, reqId>> /\ txn'[Main] = "read" /\ txn[Main] = "writing"
      BY <1>0, <1>10, <2>1, FrameFinished DEF TypeOK
    <2>3. \A i \in DOMAIN stdin : stdin'[i].op = stdin[i].op /\ stdin'[i].id = stdin[i].id
      BY <1>0, <1>10, <2>1, <2>2 DEF TxnWritten, LastFrame
    <2>4. op[Main] \in Requests
      BY <1>0, <2>2 DEF Control, ControlOf, KillChain, Requests, TypeOK
    <2>5. CASE op[Main] = "execute"
      BY <1>0, <1>10, <2>2, <2>3, <2>5, EmptySeq DEF JobInv
    <2>6. CASE op[Main] = "shutdown"
      BY <1>0, <1>10, <2>2, <2>3, <2>6 DEF JobInv
    <2> QED BY <2>4, <2>5, <2>6 DEF Requests
  <1>11. CASE EngineReads /\ ByProcess
    <2>1. UNCHANGED <<stdin, op, pc, txn, reqId>>
      BY <1>11 DEF EngineReads, ByProcess, callVars, txnVars
    <2>2. /\ engine.pos < Len(stdin) /\ engine'.pos = Len(stdin)
          /\ engine'.executed = engine.executed
      BY <1>0, <1>11, EngineMoves
    <2> QED BY <1>0, <2>1, <2>2 DEF JobInv
  <1>12. CASE EngineExecutes /\ ByProcess
    <2>1. UNCHANGED <<stdin, op, pc, txn, reqId>>
      BY <1>12 DEF EngineExecutes, ByProcess, callVars, txnVars
    <2>2. /\ engine.pc = "execute" /\ engine'.pc = "respond" /\ stdin # <<>>
          /\ engine'.pos = Len(stdin) /\ LastFrame.op = "execute" /\ Working
          /\ engine'.executed = Append(engine.executed, LastFrame.id)
      BY <1>0, <1>12, EngineMoves DEF StreamInv, Working
    <2>3. LastFrame.id \in Ids
      BY <1>0, <2>2, LastFrameType
    <2>4. Len(engine'.executed) = Len(engine.executed) + 1
      BY <1>0, <2>2, <2>3, AppendProperties
    <2>5. CASE op[Main] = "execute"
      <3>1. Len(engine.executed) = 0
        BY <2>2, <2>5 DEF JobInv
      <3> QED BY <1>0, <2>1, <2>2, <2>4, <2>5, <3>1 DEF JobInv
    <2>6. op[Main] # "shutdown"
      <3> SUFFICES ASSUME op[Main] = "shutdown" PROVE FALSE
        OBVIOUS
      <3>1. LastMine(Main)
        BY <1>0, <2>2 DEF WorkInv
      <3>2. Len(stdin) = 1 => stdin[1].id # reqId[Main]
        BY DEF JobInv
      <3>3. Len(stdin) = 2 => stdin[2].op = "shutdown"
        BY DEF JobInv
      <3>4. Len(stdin) \in {1, 2}
        BY DEF JobInv
      <3> QED BY <2>2, <3>1, <3>2, <3>3, <3>4 DEF LastMine, LastFrame
    <2> QED BY <2>1, <2>2, <2>5, <2>6 DEF JobInv
  <1>13. CASE EngineResponds /\ ByProcess
    <2>1. UNCHANGED <<stdin, op, pc, txn, reqId>>
      BY <1>13 DEF EngineResponds, ByProcess, callVars, txnVars
    <2>2. LastFrame.op \in {"execute", "shutdown"}
      BY <1>0, <1>13, EngineMoves, LastFrameType
    <2>3. engine'.pos = engine.pos /\ engine'.executed = engine.executed
          /\ engine'.pc # "execute"
      BY <1>0, <1>13, <2>2, EngineMoves
    <2> QED BY <2>1, <2>3 DEF JobInv
  <1>14. CASE (EngineRejects \/ EngineEOF \/ EngineReturns) /\ ByProcess
    BY <1>14 DEF EngineRejects, EngineEOF, EngineReturns, ByProcess, callVars, txnVars,
            JobInv
  <1>15. CASE EngineCrashes /\ ByProcess
    <2>1. UNCHANGED <<stdin, op, pc, txn, reqId>>
      BY <1>15 DEF EngineCrashes, ByProcess, callVars, txnVars
    <2>2. /\ engine'.pos = engine.pos /\ engine'.executed = engine.executed
          /\ engine'.pc # "execute"
      BY <1>0, <1>15 DEF EngineCrashes, EngineType
    <2> QED BY <2>1, <2>2 DEF JobInv
  <1>16. CASE UNCHANGED runVars
    BY <1>16 DEF runVars, sysVars, vars, JobInv
  <1> QED BY <1>0, <1>1, <1>2, <1>3, <1>4, <1>5, <1>6, <1>7, <1>8, <1>9, <1>10, <1>11,
             <1>12, <1>13, <1>14, <1>15, <1>16, JobStepKinds
          DEF RunNext, RunStep, EngineStep

\* Every step preserves DoneInv.
LEMMA DoneStep ==
  ASSUME PairFacts, OrderInv, JobInv, DoneInv, [RunNext]_runVars
  PROVE  DoneInv'
  <1> USE MainCalls
  <1>0. /\ TypeOK /\ AnswerInv /\ FinalInv /\ ReapInv /\ Len(stdin) \in Nat
        /\ DOMAIN stdin = 1 .. Len(stdin)
    BY LenProperties DEF PairFacts, SessionFacts, TypeOK
  <1>1. CASE RunShutDown
    <2>1. UNCHANGED <<child, engine, stdin>> /\ code' # "0"
      BY <1>1 DEF RunShutDown, Then, sysVars, vars
    <2>2. ASSUME step' = "print" PROVE Done
      <3>1. op[Main] = "shutdown" /\ out[Main].kind = "shutdown_ok"
        BY <1>1, <2>2 DEF RunShutDown, Returned, Then
      <3>2. child.waitDone /\ child.status = "ok" /\ child.proc = "exited"
        BY <1>0, <3>1 DEF FinalInv, ReapInv
      <3>3. PICK i \in DOMAIN stdin : stdin[i].op = "shutdown"
        BY <1>0, <3>1 DEF AnswerInv, Good, Whole
      <3>4. Len(engine.executed) = 1 /\ Len(stdin) = 2
        BY <1>0, <3>1, <3>3 DEF JobInv
      <3> QED BY <3>2, <3>4 DEF Done
    <2> QED BY <2>1, <2>2 DEF DoneInv, Done
  <1>2. CASE RunPrint
    BY <1>2 DEF RunPrint, Then, sysVars, vars, DoneInv, Done
  <1>3. CASE RunArgs \/ RunStarted \/ RunExecuted \/ RunClosed
    BY <1>3 DEF RunArgs, RunStarted, RunExecuted, RunClosed, Then, sysVars, vars,
                DoneInv, Done
  <1>4. ASSUME UNCHANGED cmdVars, Done => Done' PROVE DoneInv'
    BY <1>4 DEF cmdVars, DoneInv
  <1>5. CASE RunStart
    <2>1. child.proc = "unstarted"
      BY <1>5 DEF RunStart, StartCall
    <2> QED BY <1>4, <1>5, <2>1 DEF RunStart, Done
  <1>6. ASSUME NEW o \in {"execute", "shutdown"}, RunRequest(o) PROVE DoneInv'
    BY <1>4, <1>6 DEF RunRequest, RequestCall, pipeVars, Done
  <1>7. CASE RunClose
    BY <1>4, <1>7 DEF RunClose, CloseCall, pipeVars, Done
  <1>8. CASE RunSignal
    BY <1>8 DEF RunSignal, Cancel, vars, pipeVars, DoneInv, Done
  <1>9. CASE GoroutineStep /\ UNCHANGED <<engine, cmdVars>>
    <2>1. child.proc = "exited" => UNCHANGED stdin
      BY <1>9 DEF GoroutineStep, CallerStep, StartReturn, AcquireSelect,
           AcquireRecheck, CheckOpen, CheckFindsExit, CheckExited, RequestFails,
           SendRequest, TakeResult, AwaitCancelled, AbandonRequest, DrainResult,
           MarkClosed, CloseInput, ShutdownSelect, ShutdownReturn, KillChild, Reap,
           ReapStderr, TxnWrite, TxnWritten, TxnEnds, TxnWriteFails, TxnRead,
           TxnReadFails, ChildKilled, WaitReturns, StderrDrained, ChildStep, pipeVars
    <2>2. child.proc = "exited" =>
            /\ child'.proc = "exited" /\ child'.status = child.status
            /\ child.waitDone => child'.waitDone
      BY <1>0, <1>9 DEF GoroutineStep, CallerStep, StartReturn, AcquireSelect,
           AcquireRecheck, CheckOpen, CheckFindsExit, CheckExited, RequestFails,
           SendRequest, TakeResult, AwaitCancelled, AbandonRequest, DrainResult,
           MarkClosed, CloseInput, ShutdownSelect, ShutdownReturn, KillChild, Reap,
           ReapStderr, TxnWrite, TxnWritten, TxnEnds, TxnWriteFails, TxnRead,
           TxnReadFails, ChildKilled, WaitReturns, StderrDrained, ChildStep, TypeOK, Child
    <2>3. Done => Done'
      BY <1>9, <2>1, <2>2 DEF Done
    <2> QED BY <1>4, <1>9, <2>3
  <1>10. CASE (EngineStep \/ EngineCrashes) /\ ByProcess /\ UNCHANGED cmdVars
    <2>1. child.proc = "running"
      BY <1>10 DEF EngineStep, EngineReads, EngineRejects, EngineEOF, EngineExecutes,
           EngineResponds, EngineReturns, EngineCrashes, Serving
    <2> QED BY <1>4, <1>10, <2>1 DEF Done
  <1>11. CASE UNCHANGED runVars
    BY <1>4, <1>11 DEF runVars, sysVars, vars, Done
  <1> QED BY <1>1, <1>2, <1>3, <1>5, <1>6, <1>7, <1>8, <1>9, <1>10, <1>11
          DEF RunNext, RunStep

\* The inductive invariant of the command.
LEMMA CommandInvariant == RunSpec => [](OrderInv /\ LeftInv /\ JobInv /\ DoneInv)
  <1>1. RunInit => OrderInv /\ LeftInv /\ JobInv /\ DoneInv
    BY MainCalls DEF RunInit, SysInit, Init, EngineInit, OrderInv, LeftInv, JobInv, DoneInv,
                     Idle, At
  <1>2. /\ PairFacts /\ PairFacts' /\ OrderInv /\ LeftInv /\ JobInv /\ DoneInv
        /\ [RunNext]_runVars
        => OrderInv' /\ LeftInv' /\ JobInv' /\ DoneInv'
    BY OrderStep, LeftStep, JobStep, DoneStep
  <1> QED BY <1>1, <1>2, CommandFacts, PTL DEF RunSpec

\* No way out of `labctl run` leaves a child, a pipe or a goroutine behind,
\* whenever the signal arrives and whatever the engine does.
THEOREM LeavesNothing == RunSpec => []NothingLeftBehind
  <1>1. PairFacts /\ OrderInv /\ LeftInv => NothingLeftBehind
    <2> SUFFICES ASSUME PairFacts, OrderInv, LeftInv, step = "exit"
                 PROVE  \/ child.proc = "unstarted"
                        \/ Gone /\ txn[Main] = "none"
      BY DEF NothingLeftBehind, Gone
    <2>1. Idle /\ (child.proc = "unstarted" \/ Gone)
      BY DEF OrderInv, LeftInv
    <2>2. txn[Main] = "none"
      BY <2>1, MainCalls DEF PairFacts, SessionFacts, Control, ControlOf, KillChain, Idle,
              At
    <2> QED BY <2>1, <2>2
  <1> QED BY <1>1, CommandFacts, CommandInvariant, PTL

\* Exit code zero means that the job ran once and the engine exited cleanly on
\* the acknowledged shutdown that followed it.
THEOREM ZeroIsEarned == RunSpec => []ZeroMeansDone
  <1>1. OrderInv /\ DoneInv => ZeroMeansDone
    BY DEF OrderInv, DoneInv, Done, ZeroMeansDone
  <1> QED BY <1>1, CommandInvariant, PTL

=============================================================================
