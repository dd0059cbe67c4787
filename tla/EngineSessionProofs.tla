------------------------ MODULE EngineSessionProofs ------------------------
(***************************************************************************)
(* Proofs about EngineSession, the session and the engine at the two ends  *)
(* of the pipes, for any set of callers, any roles, any width of the       *)
(* request sequence and any capacity of the pipe.                          *)
(*                                                                         *)
(* The engine is a child that WorkerSession allows for, so what is proved  *)
(* of WorkerSession holds of the pair.  What only the pair can promise     *)
(* rests on one fact: at any time at most one request is unanswered, the   *)
(* last one written, and before another one is written the stream is quiet *)
(* at both ends.                                                           *)
(***************************************************************************)
EXTENDS EngineSession, WorkerSessionProofs

\* The request written last.
LastFrame == stdin[Len(stdin)]
Ran(id) == \E i \in DOMAIN engine.executed : engine.executed[i] = id

\* The variables of the engine.
EngineType ==
    engine \in [pc : {"read", "execute", "respond", "return", "crashed"},
                pos : Nat,
                req : [id : Ids, op : {"none", "execute", "shutdown"}],
                reply : Reply \cup {NoReply},
                executed : Seq(Ids)]

\* Everything but the last request has been read, and what the engine works
\* on, holds ready or has put into the pipe is the answer to that one.
StreamInv ==
    /\ child.proc # "exited" => child.status = "none" /\ engine.pc # "crashed"
    /\ engine.pos <= Len(stdin) /\ Len(stdin) <= engine.pos + 1
    /\ engine.pc \in {"execute", "respond", "return"} \/ stdout # <<>> =>
         engine.pos = Len(stdin) /\ stdin # <<>>
    /\ engine.pc = "execute" => LastFrame.op = "execute"
    /\ engine.pc \in {"execute", "respond"} =>
         stdout = <<>> /\ engine.req = [id |-> LastFrame.id, op |-> LastFrame.op]
    /\ engine.pc = "respond" =>
         /\ engine.reply \in Reply /\ engine.reply.id = LastFrame.id
         /\ engine.reply.kind \in Answers(LastFrame.op)
    /\ engine.pc = "return" => LastFrame.op = "shutdown" /\ child.status # "fail"
    /\ stdout # <<>> =>
         /\ Len(stdout) = 1
         /\ Head(stdout).id = LastFrame.id
         /\ Head(stdout).kind \in Answers(LastFrame.op)
         /\ LastFrame.op = "execute" => engine.pc \in {"read", "crashed"}
         /\ LastFrame.op = "shutdown" => engine.pc \in {"return", "crashed"}

\* Nothing is on its way in either direction.
Settled ==
    /\ stdout = <<>> /\ engine.pc # "return"
    /\ child.proc = "exited" \/ (engine.pc = "read" /\ engine.pos = Len(stdin))

\* The stream is quiet between two requests.
SyncInv ==
    /\ /\ state = "open" /\ child.proc # "unstarted"
       /\ \A c \in Callers : txn[c] \in {"none", "write"} /\ ~At(c, "acked")
       => Settled
    /\ child.proc = "unstarted" => stdout = <<>> /\ engine.pc = "read" /\ stdin = <<>>
    /\ \A c \in Callers :
         /\ At(c, "request") \/ txn[c] = "write" => Settled
         /\ txn[c] \in {"writing", "read"} =>
              LastFrame.op = op[c] /\ (engine.pc = "return" => stdout # <<>>)
         /\ txn[c] = "writing" /\ inputOpen => engine.pos < Len(stdin)
         /\ txn[c] = "done" /\ result[c].kind \in {"completed", "remote"} => Settled
         /\ (txn[c] = "done" /\ result[c].kind = "acked") \/ pc[c] \in Finishing =>
              engine.pc \in {"return", "crashed"}
    /\ NoProtocolError

\* What the proofs in the modules below have shown of the session.
SessionFacts ==
    /\ TypeOK /\ Control /\ OneInFlight /\ SessionInv /\ IdInv /\ ReapInv
    /\ AnswerInv /\ FinalInv

-----------------------------------------------------------------------------
(* The engine is one of the children of WorkerSession.                     *)

\* A step of the pair is a step of the session and its untrusted child.
LEMMA Simulates ==
  ASSUME TypeOK, EngineType, StreamInv, [SysNext]_sysVars
  PROVE  [Next]_vars
  <1> USE DEF ByProcess, Serving, Exit, callVars, txnVars, lockVars, pipeVars
  <1>1. CASE SessionNext
    BY <1>1 DEF Next
  <1>2. CASE EngineReads /\ ByProcess
    BY <1>2 DEF EngineReads, vars
  <1>3. CASE EngineExecutes /\ ByProcess
    BY <1>3 DEF EngineExecutes, vars
  <1>4. ASSUME NEW how \in {"ok", "fail"}, Exit(how), child.proc = "running", ByProcess,
               UNCHANGED <<stdin, inputOpen, stdout, outputOpen>>
        PROVE  Next
    <2>1. ChildExits(how)
      BY <1>4 DEF ChildExits, ChildStep
    <2> QED BY <2>1 DEF Next, UntrustedChild
  <1>5. CASE EngineRejects /\ ByProcess
    BY <1>4, <1>5 DEF EngineRejects
  <1>6. CASE EngineEOF /\ ByProcess
    BY <1>4, <1>6 DEF EngineEOF
  <1>7. CASE EngineReturns /\ ByProcess
    BY <1>4, <1>7 DEF EngineReturns
  <1>8. CASE EngineCrashes /\ ByProcess
    BY <1>4, <1>8 DEF EngineCrashes
  <1>9. CASE EngineResponds /\ ByProcess
    <2>1. engine.reply \in Reply
      BY <1>9 DEF EngineResponds, StreamInv
    <2>2. ChildWrites(engine.reply)
      BY <1>9 DEF EngineResponds, ChildWrites
    <2> QED BY <2>1, <2>2 DEF Next, UntrustedChild
  <1>10. CASE UNCHANGED sysVars
    BY <1>10 DEF sysVars
  <1> QED BY <1>1, <1>2, <1>3, <1>5, <1>6, <1>7, <1>8, <1>9, <1>10
             DEF SysNext, EngineStep

-----------------------------------------------------------------------------
(* The stream.                                                             *)

\* Steps that leave both pipes and the engine alone.
PipeSilent ==
    /\ UNCHANGED <<stdin, stdout, engine>>
    /\ child'.status \in {child.status, "killed"}
    /\ child.proc = "exited" => child'.proc = "exited"
    /\ child'.proc # "exited" => child'.status = child.status

\* All steps of the session but three are of that kind.
LEMMA PipeStepKinds ==
  ASSUME TypeOK, SessionNext, UNCHANGED engine
  PROVE  \/ \E c \in Callers : TxnWrite(c) \/ TxnWritten(c) \/ TxnRead(c)
         \/ PipeSilent
  <1> USE DEF PipeSilent, pipeVars, TypeOK, Child
  <1>1. ASSUME NEW c \in Callers, Calls(c) PROVE PipeSilent
    BY <1>1 DEF Calls, StartCall, RequestCall, CloseCall, Cancel
  <1>2. ASSUME NEW c \in Callers, CallerStep(c) PROVE PipeSilent
    BY <1>2 DEF CallerStep, StartReturn, AcquireSelect, AcquireRecheck,
         CheckOpen, CheckFindsExit, CheckExited, RequestFails, SendRequest, TakeResult,
         AwaitCancelled, AbandonRequest, DrainResult, MarkClosed, CloseInput,
         ShutdownSelect, ShutdownReturn, KillChild, Reap, ReapStderr
  <1>3. ASSUME NEW c \in Callers, TxnEnds(c) PROVE TxnRead(c) \/ PipeSilent
    BY <1>3 DEF TxnEnds, TxnWriteFails, TxnReadFails
  <1>4. ChildKilled \/ WaitReturns \/ StderrDrained => PipeSilent
    BY DEF ChildKilled, WaitReturns, StderrDrained, ChildStep
  <1> QED BY <1>1, <1>2, <1>3, <1>4 DEF SessionNext

\* The frame at the end of the pipe is a request with a number.
LEMMA LastFrameType ==
  ASSUME TypeOK, IdInv, stdin # <<>>
  PROVE  /\ LastFrame \in Frame /\ LastFrame.id \in Ids \ {0} /\ LastFrame.id \in Nat
         /\ LastFrame.op \in {"execute", "shutdown"}
         /\ Len(stdin) \in DOMAIN stdin /\ Len(stdin) \in Nat
  <1>1. Len(stdin) \in DOMAIN stdin /\ Len(stdin) \in Nat
    BY LenProperties, EmptySeq DEF TypeOK
  <1>2. LastFrame \in Frame
    BY <1>1, ElementOfSeq, LenProperties DEF TypeOK, LastFrame
  <1>3. LastFrame.id > 0
    BY <1>1 DEF IdInv, RequestIdsIncrease, LastFrame
  <1> QED BY <1>1, <1>2, <1>3, ModulusAssumption DEF Frame, Ids

\* The first bytes of a request make the pipe one frame longer.
LEMMA FrameBegun ==
  ASSUME TypeOK, Control, NEW c \in Callers, TxnWrite(c)
  PROVE  /\ Len(stdin') = Len(stdin) + 1 /\ Len(stdin) \in Nat /\ stdin' # <<>>
         /\ LastFrame'.id = reqId[c] /\ LastFrame'.op = op[c]
         /\ LastFrame'.part # "line"
         /\ UNCHANGED <<stdout, child, inputOpen, outputOpen, state, token, mu>>
         /\ UNCHANGED <<pc, op, reqId, out, result>>
         /\ child.proc = "running" /\ txn[c] = "write" /\ inputOpen
         /\ txn' = [txn EXCEPT ![c] = "writing"]
  <1>1. PICK part \in {"prefix", "payload"} :
          stdin' = Append(stdin, [id |-> reqId[c], op |-> op[c], part |-> part])
    BY DEF TxnWrite
  <1>2. op[c] \in {"execute", "shutdown"}
    BY DEF TxnWrite, Control, ControlOf, KillChain, Requests, TypeOK
  <1>3. [id |-> reqId[c], op |-> op[c], part |-> part] \in Frame
    BY <1>2 DEF Frame, TypeOK
  <1>4. /\ Len(stdin') = Len(stdin) + 1 /\ Len(stdin) \in Nat /\ stdin' # <<>>
        /\ stdin'[Len(stdin) + 1] = [id |-> reqId[c], op |-> op[c], part |-> part]
    BY <1>1, <1>3, AppendProperties, LenProperties DEF TypeOK
  <1> QED BY <1>4 DEF TxnWrite, TxnGoto, LastFrame, lockVars, callVars

\* The rest of it changes no number and no operation.
LEMMA FrameFinished ==
  ASSUME TypeOK, Control, FinalInv, NEW c \in Callers, TxnWritten(c),
         LastFrame.op = op[c]
  PROVE  /\ Len(stdin') = Len(stdin) /\ stdin # <<>> /\ stdin' # <<>>
         /\ LastFrame'.id = LastFrame.id /\ LastFrame'.op = LastFrame.op
         /\ LastFrame.id = reqId[c]
         /\ UNCHANGED <<stdout, child, inputOpen, outputOpen, state, token, mu>>
         /\ UNCHANGED <<pc, op, reqId, out, result>>
         /\ txn[c] = "writing" /\ txn' = [txn EXCEPT ![c] = "read"]
  <1>1. stdin # <<>> /\ stdin \in Seq(Frame) /\ LastFrame.id = reqId[c]
    BY DEF TxnWritten, FinalInv, LastMine, TypeOK, LastFrame
  <1>2. Len(stdin) \in DOMAIN stdin /\ Len(stdin) \in Nat
    BY <1>1, LenProperties, EmptySeq
  <1>3. DOMAIN stdin' = DOMAIN stdin /\ Len(stdin') = Len(stdin) /\ stdin' # <<>>
    BY <1>1, <1>2, ExceptSeq, LenProperties DEF TxnWritten
  <1>4. LastFrame' = [id |-> reqId[c], op |-> op[c], part |-> "line"]
    BY <1>2, <1>3 DEF TxnWritten, LastFrame
  <1> QED BY <1>1, <1>3, <1>4 DEF TxnWritten, TxnGoto, lockVars, callVars

\* The only response in the pipe is taken, and is no protocol error.
LEMMA ReplyTaken ==
  ASSUME TypeOK, Control, FinalInv, StreamInv, NEW c \in Callers, TxnRead(c),
         LastFrame.op = op[c]
  PROVE  /\ stdout # <<>> /\ stdout' = <<>> /\ txn[c] = "read"
         /\ UNCHANGED <<stdin, child, inputOpen, outputOpen, state, token, mu>>
         /\ UNCHANGED <<pc, op, reqId, out>>
         /\ txn' = [txn EXCEPT ![c] = "done"]
         /\ \E k \in {"completed", "remote", "acked"} :
              /\ result' = [result EXCEPT ![c] = [kind |-> k, id |-> reqId[c]]]
              /\ k = "acked" <=> op[c] = "shutdown"
         /\ LastFrame.id = reqId[c]
  <1>1. /\ stdout # <<>> /\ Len(stdout) = 1 /\ stdout \in Seq(Reply)
        /\ LastFrame.id = reqId[c] /\ txn[c] = "read"
        /\ Head(stdout).id = reqId[c] /\ Head(stdout).kind \in Answers(op[c])
    BY DEF TxnRead, StreamInv, TypeOK, FinalInv, LastMine, LastFrame
  <1>2. stdout' = <<>>
    BY <1>1, HeadTailProperties, EmptySeq DEF TxnRead
  <1>3. op[c] \in {"execute", "shutdown"}
    BY <1>1 DEF Control, ControlOf, KillChain, Requests, TypeOK
  <1>4. PICK r : r = Head(stdout) /\ r.id = reqId[c] /\ r.kind \in Answers(op[c])
    BY <1>1
  <1>5. \E k \in {"completed", "remote", "acked"} :
          /\ DecodeResponse(r, reqId[c], op[c]) = [kind |-> k, id |-> reqId[c]]
          /\ k = "acked" <=> op[c] = "shutdown"
    BY <1>3, <1>4 DEF DecodeResponse, Meaning, Answers
  <1> QED BY <1>1, <1>2, <1>4, <1>5 DEF TxnRead, TxnDone, lockVars, callVars

\* What a step of the serve loop does, field by field.
LEMMA EngineMoves ==
  ASSUME TypeOK, IdInv, EngineType, StreamInv
  PROVE  /\ EngineReads =>
              /\ stdin # <<>> /\ stdout = <<>> /\ engine.pos < Len(stdin)
              /\ engine.pc = "read" /\ child.proc = "running"
              /\ inputOpen => LastFrame.part = "line"
              /\ engine'.pos = Len(stdin) /\ engine'.executed = engine.executed
              /\ engine'.req = [id |-> LastFrame.id, op |-> LastFrame.op]
              /\ LastFrame.op = "execute" =>
                   engine'.pc = "execute" /\ engine'.reply = NoReply
              /\ LastFrame.op = "shutdown" =>
                   /\ engine'.pc = "respond"
                   /\ engine'.reply = [kind |-> "shutdown_ack", id |-> LastFrame.id]
         /\ EngineExecutes =>
              /\ stdin # <<>> /\ stdout = <<>> /\ engine.pc = "execute"
              /\ child.proc = "running"
              /\ engine'.pc = "respond" /\ engine'.pos = engine.pos
              /\ engine'.req = engine.req
              /\ \E k \in {"completed", "error"} :
                   engine'.reply = [kind |-> k, id |-> LastFrame.id]
              /\ engine'.executed = Append(engine.executed, LastFrame.id)
         /\ EngineResponds =>
              /\ stdin # <<>> /\ stdout = <<>> /\ engine.pc = "respond"
              /\ child.proc = "running"
              /\ Len(stdout') = 1 /\ Head(stdout') = engine.reply /\ stdout' # <<>>
              /\ engine'.pos = engine.pos /\ engine'.executed = engine.executed
              /\ engine'.req = NoFrame /\ engine'.reply = NoReply
              /\ LastFrame.op = "execute" => engine'.pc = "read"
              /\ LastFrame.op = "shutdown" => engine'.pc = "return"
  <1> USE DEF Serving
  <1>1. ASSUME EngineReads PROVE stdin # <<>> /\ engine.pos + 1 = Len(stdin)
    <2>1. engine.pos \in Nat /\ Len(stdin) \in Nat /\ engine.pos < Len(stdin)
      BY <1>1, LenProperties DEF EngineReads, Readable, EngineType, TypeOK
    <2> QED BY <2>1 DEF StreamInv
  <1>2. EngineReads => stdout = <<>>
    BY <1>1 DEF StreamInv, EngineType
  <1>3. ASSUME EngineReads
        PROVE  /\ inputOpen => LastFrame.part = "line"
               /\ engine' = [engine EXCEPT
                     !.pos = @ + 1,
                     !.req = [id |-> LastFrame.id, op |-> LastFrame.op],
                     !.pc = IF LastFrame.op = "execute" THEN "execute" ELSE "respond",
                     !.reply = IF LastFrame.op = "execute" THEN NoReply
                               ELSE [kind |-> "shutdown_ack", id |-> LastFrame.id]]
    BY <1>1, <1>3 DEF EngineReads, Readable, LastFrame
  <1>4. EngineReads => engine.pc = "read" /\ child.proc = "running"
    BY DEF EngineReads
  <1>5. ASSUME EngineExecutes
        PROVE  /\ stdin # <<>> /\ stdout = <<>> /\ engine.pc = "execute"
               /\ child.proc = "running" /\ engine.req.id = LastFrame.id
    BY <1>5 DEF EngineExecutes, StreamInv
  <1>6. ASSUME EngineResponds
        PROVE  /\ stdin # <<>> /\ stdout = <<>> /\ engine.pc = "respond"
               /\ child.proc = "running" /\ engine.req.op = LastFrame.op
               /\ engine.reply \in Reply
    BY <1>6 DEF EngineResponds, StreamInv
  <1>7. ASSUME EngineResponds
        PROVE  Len(stdout') = 1 /\ Head(stdout') = engine.reply /\ stdout' # <<>>
    BY <1>6, <1>7 DEF EngineResponds
  <1>8. ASSUME EngineReads
        PROVE  /\ engine.pos < Len(stdin) /\ engine'.pos = Len(stdin)
               /\ engine'.executed = engine.executed
               /\ engine'.req = [id |-> LastFrame.id, op |-> LastFrame.op]
               /\ LastFrame.op = "execute" =>
                    engine'.pc = "execute" /\ engine'.reply = NoReply
               /\ LastFrame.op = "shutdown" =>
                    /\ engine'.pc = "respond"
                    /\ engine'.reply = [kind |-> "shutdown_ack", id |-> LastFrame.id]
    <2>1. engine.pos < Len(stdin) /\ engine.pos + 1 = Len(stdin)
      BY <1>1, <1>8 DEF EngineReads, Readable
    <2>2. engine'.pos = engine.pos + 1 /\ engine'.executed = engine.executed
      BY <1>3, <1>8 DEF EngineType
    <2>3. engine'.req = [id |-> LastFrame.id, op |-> LastFrame.op]
      BY <1>3, <1>8 DEF EngineType
    <2>4. CASE LastFrame.op = "execute"
      <3>1. engine'.pc = "execute" /\ engine'.reply = NoReply
        BY <1>3, <1>8, <2>4 DEF EngineType
      <3> QED BY <2>1, <2>2, <2>3, <2>4, <3>1
    <2>5. CASE LastFrame.op # "execute"
      <3>1. /\ engine'.pc = "respond"
            /\ engine'.reply = [kind |-> "shutdown_ack", id |-> LastFrame.id]
        BY <1>3, <1>8, <2>5 DEF EngineType
      <3> QED BY <2>1, <2>2, <2>3, <2>5, <3>1
    <2> QED BY <2>4, <2>5
  <1>9. ASSUME EngineExecutes
         PROVE  /\ engine'.pc = "respond" /\ engine'.pos = engine.pos
                /\ engine'.req = engine.req
                /\ \E k \in {"completed", "error"} :
                     engine'.reply = [kind |-> k, id |-> LastFrame.id]
                /\ engine'.executed = Append(engine.executed, LastFrame.id)
    <2>1. PICK k \in {"completed", "error"} :
            engine' = [engine EXCEPT !.pc = "respond",
                         !.reply = [kind |-> k, id |-> engine.req.id],
                         !.executed = Append(@, engine.req.id)]
      BY <1>9, Zenon DEF EngineExecutes
    <2> QED BY <1>5, <1>9, <2>1 DEF EngineType
  <1>10. ASSUME EngineResponds
         PROVE  /\ engine'.pos = engine.pos /\ engine'.executed = engine.executed
                /\ engine'.req = NoFrame /\ engine'.reply = NoReply
                /\ LastFrame.op = "execute" => engine'.pc = "read"
                /\ LastFrame.op = "shutdown" => engine'.pc = "return"
    BY <1>6, <1>10 DEF EngineResponds, EngineType
  <1> QED BY <1>1, <1>2, <1>3, <1>4, <1>5, <1>6, <1>7, <1>8, <1>9, <1>10

\* Every step keeps the engine's variables in their types.
LEMMA EngineTypeStep ==
  ASSUME TypeOK, IdInv, EngineType, StreamInv, [SysNext]_sysVars
  PROVE  EngineType'
  <1> USE DEF Reply, NoReply, NoFrame
  <1>1. CASE UNCHANGED engine
    BY <1>1 DEF EngineType
  <1>2. CASE EngineReads
    <2>1. LastFrame.id \in Ids \ {0} /\ LastFrame.op \in {"execute", "shutdown"}
          /\ Len(stdin) \in Nat
      BY <1>2, EngineMoves, LastFrameType
    <2> QED BY <1>2, <2>1, LastFrameType, EngineMoves DEF EngineType, EngineReads, Readable
  <1>3. CASE EngineExecutes
    <2>1. LastFrame.id \in Ids \ {0}
      BY <1>3, EngineMoves, LastFrameType
    <2>2. Append(engine.executed, LastFrame.id) \in Seq(Ids)
      BY <2>1, AppendProperties DEF EngineType
    <2>3. PICK k \in {"completed", "error"} :
            engine' = [engine EXCEPT
               !.pc = "respond",
               !.reply = [kind |-> k, id |-> LastFrame.id],
               !.executed = Append(@, LastFrame.id)]
      <3>1. engine.req.id = LastFrame.id
        BY <1>3 DEF EngineExecutes, StreamInv, Serving
      <3> QED BY <1>3, <3>1 DEF EngineExecutes
    <2>4. [kind |-> k, id |-> LastFrame.id] \in Reply
      BY <2>1
    <2> HIDE DEF Reply, NoReply
    <2> QED BY <2>2, <2>3, <2>4 DEF EngineType
  <1>4. CASE EngineResponds
    <2>1. NoFrame \in [id : Ids, op : {"none", "execute", "shutdown"}]
      BY ModulusAssumption DEF Ids
    <2> HIDE DEF Reply, NoReply, NoFrame
    <2> QED BY <1>4, <2>1 DEF EngineType, EngineResponds
  <1>5. CASE EngineCrashes
    BY <1>5 DEF EngineType, EngineCrashes
  <1> QED BY <1>1, <1>2, <1>3, <1>4, <1>5
          DEF SysNext, EngineStep, EngineRejects, EngineEOF, EngineReturns, sysVars

\* Every step preserves StreamInv.
LEMMA StreamStep ==
  ASSUME SessionFacts, EngineType, StreamInv, SyncInv, [SysNext]_sysVars
  PROVE  StreamInv'
  <1> USE DEF SessionFacts
  <1>0. /\ engine.pc \in {"read", "execute", "respond", "return", "crashed"}
        /\ engine.pos \in Nat /\ Len(stdin) \in Nat
    BY LenProperties DEF EngineType, TypeOK
  <1>1. CASE UNCHANGED <<stdin, stdout, engine>> /\ PipeSilent
    BY <1>1 DEF StreamInv, PipeSilent, LastFrame
  <1>2. ASSUME NEW c \in Callers, TxnWrite(c), UNCHANGED engine PROVE StreamInv'
    <2>1. engine.pc = "read" /\ engine.pos = Len(stdin) /\ stdout = <<>>
      BY <1>2, FrameBegun DEF SyncInv, Settled
    <2> QED BY <1>0, <1>2, <2>1, FrameBegun DEF StreamInv
  <1>3. ASSUME NEW c \in Callers, TxnWritten(c), UNCHANGED engine PROVE StreamInv'
    <2>1. LastFrame.op = op[c]
      BY <1>3 DEF TxnWritten, SyncInv
    <2> QED BY <1>3, <2>1, FrameFinished DEF StreamInv
  <1>4. ASSUME NEW c \in Callers, TxnRead(c), UNCHANGED engine PROVE StreamInv'
    <2>1. LastFrame.op = op[c]
      BY <1>4 DEF TxnRead, SyncInv
    <2> QED BY <1>4, <2>1, ReplyTaken DEF StreamInv, LastFrame
  <1>5. CASE EngineReads
    <2>1. LastFrame.id \in Ids \ {0} /\ LastFrame.op \in {"execute", "shutdown"}
      BY <1>5, EngineMoves, LastFrameType
    <2>2. UNCHANGED <<stdin, stdout, child>>
      BY <1>5 DEF EngineReads
    <2>3. LastFrame' = LastFrame
      BY <2>2 DEF LastFrame
    <2> QED BY <1>0, <1>5, <2>1, <2>2, <2>3, EngineMoves DEF StreamInv, Reply, Answers
  <1>6. CASE EngineExecutes
    <2>1. LastFrame.id \in Ids \ {0}
      BY <1>6, EngineMoves, LastFrameType
    <2>2. UNCHANGED <<stdin, stdout, child>>
      BY <1>6 DEF EngineExecutes
    <2>3. LastFrame' = LastFrame
      BY <2>2 DEF LastFrame
    <2> QED BY <1>0, <1>6, <2>1, <2>2, <2>3, EngineMoves DEF StreamInv, Reply, Answers
  <1>7. CASE EngineResponds
    <2>1. LastFrame.op \in {"execute", "shutdown"}
      BY <1>7, EngineMoves, LastFrameType
    <2>2. UNCHANGED <<stdin, child>>
      BY <1>7 DEF EngineResponds
    <2>3. LastFrame' = LastFrame
      BY <2>2 DEF LastFrame
    <2> QED BY <1>0, <1>7, <2>1, <2>2, <2>3, EngineMoves DEF StreamInv
  <1>8. CASE EngineRejects \/ EngineEOF \/ EngineReturns
    <2>1. UNCHANGED <<stdin, stdout, engine>> /\ LastFrame' = LastFrame
      BY <1>8 DEF EngineRejects, EngineEOF, EngineReturns, LastFrame
    <2>2. child'.proc = "exited" /\ (engine.pc = "return" => child'.status # "fail")
      BY <1>8 DEF EngineRejects, EngineEOF, EngineReturns, Exit, Serving, TypeOK, Child
    <2> QED BY <2>1, <2>2 DEF StreamInv
  <1>9. CASE EngineCrashes
    <2>1. UNCHANGED <<stdin, stdout>> /\ LastFrame' = LastFrame
      BY <1>9 DEF EngineCrashes, LastFrame
    <2>2. engine'.pc = "crashed" /\ engine'.pos = engine.pos /\ child'.proc = "exited"
      BY <1>9 DEF EngineCrashes, EngineType, Exit, TypeOK, Child
    <2> QED BY <2>1, <2>2 DEF StreamInv
  <1>10. CASE UNCHANGED sysVars
    BY <1>10 DEF sysVars, vars, StreamInv, LastFrame
  <1> QED BY <1>1, <1>2, <1>3, <1>4, <1>5, <1>6, <1>7, <1>8, <1>9, <1>10, PipeStepKinds
          DEF SysNext, EngineStep, PipeSilent

\* Every step preserves SyncInv: the one request that is not settled belongs to
\* the holder of the token, and only an answer, or a stopped session, lets the
\* next one through.
LEMMA SyncStep ==
  ASSUME SessionFacts, EngineType, StreamInv, SyncInv, [SysNext]_sysVars
  PROVE  SyncInv'
  <1> USE DEF At, Goto, Return, Decide, Begin, KillAndReap, MarkPoisoned, TxnDone,
             TxnGoto, TxnReceived, ChildStep, Plain, lockVars, pipeVars, callVars,
             txnVars, SyncInv, Settled, NoProtocolError, SessionFacts, TypeOK, Child,
             LastFrame, ByProcess, Control, ControlOf, KillChain, Requests, Finishing
  <1>0. engine.pos \in Nat /\ Len(stdin) \in Nat /\ engine.pos <= Len(stdin)
    BY LenProperties DEF EngineType, StreamInv
  <1>1. ASSUME NEW c \in Callers, StartCall(c), UNCHANGED engine PROVE SyncInv'
    <2>1. UNCHANGED <<stdin, stdout, txn, result, inputOpen, state>> /\ txn[c] = "none"
      BY <1>1 DEF StartCall
    <2>2. \A d \in Callers : d # c => pc'[d] = pc[d] /\ op'[d] = op[d] /\ out'[d] = out[d]
      BY <1>1 DEF StartCall
    <2>3. pc[c] # "acked" /\ pc'[c] \in {"idle", "started"} /\ out'[c].kind # "protocol"
      BY <1>1 DEF StartCall
    <2>4. NoProtocolError'
      BY <2>1, <2>2, <2>3
    <2>5. LastFrame' = LastFrame /\ child.proc = "unstarted"
      BY <1>1, <2>1 DEF StartCall
    <2>6. Settled' \/ child'.proc = "unstarted"
      BY <1>1, <1>0, <2>1, <2>5 DEF StartCall, StreamInv
    <2>7. Settled => Settled'
      BY <1>1, <2>1, <2>5, <2>6
    <2> HIDE DEF LastFrame, Settled, NoProtocolError, SessionFacts
    <2> QED BY <1>1, <2>1, <2>2, <2>3, <2>4, <2>5, <2>6, <2>7
  <1>2. ASSUME NEW c \in Callers, StartReturn(c), UNCHANGED engine PROVE SyncInv'
    <2>1. UNCHANGED <<stdin, stdout, txn, result, inputOpen, child>> /\ txn[c] = "none"
      BY <1>2 DEF StartReturn
    <2>6. state' = "open" => state = "open"
      BY <1>2 DEF StartReturn
    <2>2. \A d \in Callers : d # c => pc'[d] = pc[d] /\ op'[d] = op[d] /\ out'[d] = out[d]
      BY <1>2 DEF StartReturn
    <2>3. pc[c] # "acked" /\ pc'[c] \in {"idle", "close_input"} /\ out'[c].kind # "protocol"
      BY <1>2 DEF StartReturn
    <2>4. NoProtocolError'
      BY <2>1, <2>2, <2>3
    <2>5. LastFrame' = LastFrame /\ Settled' = Settled
      BY <1>2, <2>1
    <2> HIDE DEF LastFrame, Settled, NoProtocolError, SessionFacts
    <2> QED BY <1>2, <2>1, <2>2, <2>3, <2>4, <2>5, <2>6
  <1>3. ASSUME NEW c \in Callers, NEW o \in {"execute", "shutdown"}, RequestCall(c, o),
               UNCHANGED engine
        PROVE  SyncInv'
    <2>1. UNCHANGED <<stdin, stdout, txn, result, inputOpen, child, state>> /\ txn[c] = "none"
      BY <1>3 DEF RequestCall
    <2>2. \A d \in Callers : d # c => pc'[d] = pc[d] /\ op'[d] = op[d] /\ out'[d] = out[d]
      BY <1>3 DEF RequestCall
    <2>3. pc[c] # "acked" /\ pc'[c] \in {"idle", "select"} /\ out'[c].kind # "protocol"
      BY <1>3 DEF RequestCall
    <2>4. NoProtocolError'
      BY <2>1, <2>2, <2>3
    <2>5. LastFrame' = LastFrame /\ Settled' = Settled
      BY <1>3, <2>1
    <2> HIDE DEF LastFrame, Settled, NoProtocolError, SessionFacts
    <2> QED BY <1>3, <2>1, <2>2, <2>3, <2>4, <2>5
  <1>4. ASSUME NEW c \in Callers, AcquireSelect(c), UNCHANGED engine PROVE SyncInv'
    <2>1. UNCHANGED <<stdin, stdout, txn, result, inputOpen, child, state>> /\ txn[c] = "none"
      BY <1>4 DEF AcquireSelect
    <2>2. \A d \in Callers : d # c => pc'[d] = pc[d] /\ op'[d] = op[d] /\ out'[d] = out[d]
      BY <1>4 DEF AcquireSelect
    <2>3. pc[c] # "acked" /\ pc'[c] \in {"idle", "recheck"} /\ out'[c].kind # "protocol"
      BY <1>4 DEF AcquireSelect
    <2>4. NoProtocolError'
      BY <2>1, <2>2, <2>3
    <2>5. LastFrame' = LastFrame /\ Settled' = Settled
      BY <1>4, <2>1
    <2> HIDE DEF LastFrame, Settled, NoProtocolError, SessionFacts
    <2> QED BY <1>4, <2>1, <2>2, <2>3, <2>4, <2>5
  <1>5. ASSUME NEW c \in Callers, AcquireRecheck(c), UNCHANGED engine PROVE SyncInv'
    BY <1>5 DEF AcquireRecheck
  <1>6. ASSUME NEW c \in Callers, CheckOpen(c), UNCHANGED engine PROVE SyncInv'
    <2>1. CASE state # "open" /\ Return(c, Plain(state))
      BY <1>6, <2>1 DEF CheckOpen
    <2>2. CASE state = "open" /\ Goto(c, "request")
      <3>1. \A d \in Callers : txn[d] = "none" /\ ~At(d, "acked")
        BY <1>6 DEF CheckOpen, OneInFlight, Holding
      <3>2. child.proc # "unstarted"
        BY <1>6 DEF CheckOpen, SessionInv
      <3>3. Settled
        BY <2>2, <3>1, <3>2
      <3> QED BY <1>6, <2>2, <3>3 DEF CheckOpen
    <2> QED BY <1>6, <2>1, <2>2 DEF CheckOpen
  <1>7. ASSUME NEW c \in Callers, CheckFindsExit(c), UNCHANGED engine PROVE SyncInv'
    BY <1>7 DEF CheckFindsExit
  <1>8. ASSUME NEW c \in Callers, CheckExited(c), UNCHANGED engine PROVE SyncInv'
    BY <1>8 DEF CheckExited
  <1>9. ASSUME NEW c \in Callers, RequestFails(c), UNCHANGED engine PROVE SyncInv'
    <2>1. UNCHANGED <<stdin, stdout, txn, result, inputOpen, child, state>> /\ txn[c] = "none"
      BY <1>9 DEF RequestFails
    <2>2. \A d \in Callers : d # c => pc'[d] = pc[d] /\ op'[d] = op[d] /\ out'[d] = out[d]
      BY <1>9 DEF RequestFails
    <2>3. pc[c] # "acked" /\ pc'[c] \in {"idle"} /\ out'[c].kind # "protocol"
      BY <1>9 DEF RequestFails
    <2>4. NoProtocolError'
      BY <2>1, <2>2, <2>3
    <2>5. LastFrame' = LastFrame /\ Settled' = Settled
      BY <1>9, <2>1
    <2> HIDE DEF LastFrame, Settled, NoProtocolError, SessionFacts
    <2> QED BY <1>9, <2>1, <2>2, <2>3, <2>4, <2>5
  <1>10. ASSUME NEW c \in Callers, SendRequest(c), UNCHANGED engine PROVE SyncInv'
    BY <1>10 DEF SendRequest
  <1>11. ASSUME NEW c \in Callers, TxnWrite(c), UNCHANGED engine PROVE SyncInv'
    <2>1. \A d \in Callers : Holding(d) \/ txn[d] # "none" => d = c
      BY <1>11 DEF TxnWrite, OneInFlight, Holding
    <2>2. engine.pc = "read" /\ engine.pos = Len(stdin) /\ stdout = <<>>
      BY <1>11, FrameBegun
    <2>3. pc[c] \notin Finishing \cup {"request"}
      BY <1>11 DEF TxnWrite
    <2> HIDE DEF LastFrame
    <2> QED BY <1>11, <1>0, <2>1, <2>2, <2>3, FrameBegun DEF Holding
  <1>12. ASSUME NEW c \in Callers, TxnWritten(c), UNCHANGED engine PROVE SyncInv'
    <2>1. \A d \in Callers : Holding(d) \/ txn[d] # "none" => d = c
      BY <1>12 DEF TxnWritten, OneInFlight, Holding
    <2>2. LastFrame.op = op[c]
      BY <1>12 DEF TxnWritten
    <2>3. pc[c] \notin Finishing \cup {"request"}
      BY <1>12 DEF TxnWritten
    <2> HIDE DEF LastFrame
    <2> QED BY <1>12, <2>1, <2>2, <2>3, FrameFinished, SMTT(30) DEF Holding
  <1>13. ASSUME NEW c \in Callers, TxnWriteFails(c), UNCHANGED engine PROVE SyncInv'
    BY <1>13 DEF TxnWriteFails
  <1>14. ASSUME NEW c \in Callers, TxnRead(c), UNCHANGED engine PROVE SyncInv'
    <2>1. \A d \in Callers : Holding(d) \/ txn[d] # "none" => d = c
      BY <1>14 DEF TxnRead, OneInFlight, Holding
    <2>2. LastFrame.op = op[c] /\ op[c] \in {"execute", "shutdown"}
      BY <1>14 DEF TxnRead
    <2>3. pc[c] \notin Finishing \cup {"request"}
      BY <1>14 DEF TxnRead
    <2>4. LastFrame' = LastFrame
      BY <1>14 DEF TxnRead
    <2> HIDE DEF LastFrame
    <2>5. /\ op[c] = "execute" => engine.pc \in {"read", "crashed"}
          /\ op[c] = "shutdown" => engine.pc \in {"return", "crashed"}
          /\ engine.pos = Len(stdin)
          /\ engine.pc = "crashed" => child.proc = "exited"
      BY <1>14, <2>2, ReplyTaken DEF StreamInv
    <2>6. op[c] = "execute" => Settled'
      BY <1>14, <2>2, <2>5, ReplyTaken
    <2>7. NoProtocolError'
      <3>1. PICK k \in {"completed", "remote", "acked"} :
              result' = [result EXCEPT ![c] = [kind |-> k, id |-> reqId[c]]]
        <4>1. TypeOK /\ Control /\ FinalInv /\ StreamInv
          BY DEF SessionFacts
        <4> QED BY ONLY <4>1, <1>14, <2>2, ReplyTaken
      <3>2. out' = out
        BY <1>14, <2>2, ReplyTaken
      <3> QED BY ONLY <3>1, <3>2, SessionFacts, NoProtocolError, SMTT(30)
           DEF SessionFacts, NoProtocolError, TypeOK
    <2>8. child.proc # "unstarted"
      BY <1>14, <2>2, ReplyTaken
    <2> HIDE DEF Settled, NoProtocolError
    <2> QED BY <1>14, <2>1, <2>2, <2>3, <2>4, <2>5, <2>6, <2>7, <2>8, ReplyTaken, SMTT(30)
         DEF Holding
  <1>15. ASSUME NEW c \in Callers, TxnReadFails(c), UNCHANGED engine PROVE SyncInv'
    BY <1>15 DEF TxnReadFails
  <1>16. ASSUME NEW c \in Callers, TakeResult(c), UNCHANGED engine PROVE SyncInv'
    BY <1>16 DEF TakeResult
  <1>17. ASSUME NEW c \in Callers, AwaitCancelled(c), UNCHANGED engine PROVE SyncInv'
    BY <1>17 DEF AwaitCancelled
  <1>18. ASSUME NEW c \in Callers, AbandonRequest(c), UNCHANGED engine PROVE SyncInv'
    BY <1>18 DEF AbandonRequest, NothingToPrefer
  <1>19. ASSUME NEW c \in Callers, DrainResult(c), UNCHANGED engine PROVE SyncInv'
    BY <1>19 DEF DrainResult, FinalInv
  <1>20. ASSUME NEW c \in Callers, CloseCall(c), UNCHANGED engine PROVE SyncInv'
    <2>1. UNCHANGED <<stdin, stdout, txn, result, inputOpen, child, state>> /\ txn[c] = "none"
      BY <1>20 DEF CloseCall
    <2>2. \A d \in Callers : d # c => pc'[d] = pc[d] /\ op'[d] = op[d] /\ out'[d] = out[d]
      BY <1>20 DEF CloseCall
    <2>3. pc[c] # "acked" /\ pc'[c] \in {"mark"} /\ out'[c].kind # "protocol"
      BY <1>20 DEF CloseCall
    <2>4. NoProtocolError'
      BY <2>1, <2>2, <2>3
    <2>5. LastFrame' = LastFrame /\ Settled' = Settled
      BY <1>20, <2>1
    <2> HIDE DEF LastFrame, Settled, NoProtocolError, SessionFacts
    <2> QED BY <1>20, <2>1, <2>2, <2>3, <2>4, <2>5
  <1>21. ASSUME NEW c \in Callers, MarkClosed(c), UNCHANGED engine PROVE SyncInv'
    BY <1>21 DEF MarkClosed
  <1>22. ASSUME NEW c \in Callers, CloseInput(c), UNCHANGED engine PROVE SyncInv'
    BY <1>22 DEF CloseInput
  <1>23. ASSUME NEW c \in Callers, ShutdownSelect(c), UNCHANGED engine PROVE SyncInv'
    <2>1. UNCHANGED <<stdin, stdout, txn, result, inputOpen, child, state>> /\ txn[c] = "none"
      BY <1>23 DEF ShutdownSelect
    <2>2. \A d \in Callers : d # c => pc'[d] = pc[d] /\ op'[d] = op[d] /\ out'[d] = out[d]
      BY <1>23 DEF ShutdownSelect
    <2>3. pc[c] # "acked" /\ pc'[c] \in {"exit_stderr", "close_input"} /\ out'[c].kind # "protocol"
      BY <1>23 DEF ShutdownSelect
    <2>4. NoProtocolError'
      BY <2>1, <2>2, <2>3
    <2>5. LastFrame' = LastFrame /\ Settled' = Settled
      BY <1>23, <2>1
    <2> HIDE DEF LastFrame, Settled, NoProtocolError, SessionFacts
    <2> QED BY <1>23, <2>1, <2>2, <2>3, <2>4, <2>5 DEF ShutdownSelect
  <1>24. ASSUME NEW c \in Callers, ShutdownReturn(c), UNCHANGED engine PROVE SyncInv'
    BY <1>24 DEF ShutdownReturn
  <1>25. ASSUME NEW c \in Callers, KillChild(c), UNCHANGED engine PROVE SyncInv'
    BY <1>25 DEF KillChild
  <1>26. ASSUME NEW c \in Callers, Reap(c), UNCHANGED engine PROVE SyncInv'
    BY <1>26 DEF Reap
  <1>27. ASSUME NEW c \in Callers, ReapStderr(c), UNCHANGED engine PROVE SyncInv'
    BY <1>27 DEF ReapStderr
  <1>28. ASSUME NEW c \in Callers, Cancel(c), UNCHANGED engine PROVE SyncInv'
    BY <1>28 DEF Cancel
  <1>29. CASE ChildKilled /\ UNCHANGED engine
    BY <1>29 DEF ChildKilled
  <1>30. CASE WaitReturns /\ UNCHANGED engine
    BY <1>30 DEF WaitReturns
  <1>31. CASE StderrDrained /\ UNCHANGED engine
    BY <1>31 DEF StderrDrained
  <1>32. CASE EngineReads /\ ByProcess
    <2>1. UNCHANGED <<stdin, stdout, inputOpen, child>>
      BY <1>32 DEF EngineReads
    <2>2. LastFrame' = LastFrame
      BY <2>1
    <2> HIDE DEF LastFrame
    <2>3. engine'.pc \in {"execute", "respond"} /\ engine.pc = "read"
          /\ child.proc = "running" /\ engine.pos < Len(stdin)
      BY <1>32, EngineMoves, LastFrameType
    <2>4. ~Settled
      BY <1>0, <2>3
    <2>5. \A c \in Callers : txn[c] = "writing" => ~inputOpen
      BY <1>32, EngineMoves DEF AnswerInv, LastFrame
    <2> QED BY <1>32, <2>1, <2>2, <2>3, <2>4, <2>5
  <1>33. CASE EngineRejects /\ ByProcess
    <2>1. child.proc = "running" /\ child'.proc = "exited"
      BY <1>33 DEF EngineRejects, Exit, Serving
    <2>2. UNCHANGED engine
      BY <1>33 DEF EngineRejects
    <2>3. UNCHANGED <<stdin, stdout, inputOpen>>
      BY <1>33 DEF EngineRejects
    <2> QED BY <1>33, <2>1, <2>2, <2>3
  <1>34. CASE EngineEOF /\ ByProcess
    <2>1. child.proc = "running" /\ child'.proc = "exited"
      BY <1>34 DEF EngineEOF, Exit, Serving
    <2>2. UNCHANGED engine
      BY <1>34 DEF EngineEOF
    <2>3. UNCHANGED <<stdin, stdout, inputOpen>>
      BY <1>34 DEF EngineEOF
    <2> QED BY <1>34, <2>1, <2>2, <2>3
  <1>35. CASE EngineExecutes /\ ByProcess
    <2>1. UNCHANGED <<stdin, inputOpen, child>>
      BY <1>35 DEF EngineExecutes
    <2>2. LastFrame' = LastFrame
      BY <2>1
    <2> HIDE DEF LastFrame
    <2>3. /\ engine.pc \in {"execute", "respond"} /\ child.proc = "running"
          /\ engine'.pos = engine.pos
          /\ engine'.pc = "return" => stdout' # <<>>
      BY <1>35, EngineMoves, LastFrameType
    <2>4. ~Settled
      BY <1>0, <2>3
    <2> QED BY <1>35, <2>1, <2>2, <2>3, <2>4
  <1>36. CASE EngineResponds /\ ByProcess
    <2>1. UNCHANGED <<stdin, inputOpen, child>>
      BY <1>36 DEF EngineResponds
    <2>2. LastFrame' = LastFrame
      BY <2>1
    <2> HIDE DEF LastFrame
    <2>3. /\ engine.pc \in {"execute", "respond"} /\ child.proc = "running"
          /\ engine'.pos = engine.pos
          /\ engine'.pc = "return" => stdout' # <<>>
      BY <1>36, EngineMoves, LastFrameType
    <2>4. ~Settled
      BY <1>0, <2>3
    <2> QED BY <1>36, <2>1, <2>2, <2>3, <2>4
  <1>37. CASE EngineReturns /\ ByProcess
    <2>1. child.proc = "running" /\ child'.proc = "exited"
      BY <1>37 DEF EngineReturns, Exit, Serving
    <2>2. UNCHANGED engine
      BY <1>37 DEF EngineReturns
    <2>3. UNCHANGED <<stdin, stdout, inputOpen>>
      BY <1>37 DEF EngineReturns
    <2> QED BY <1>37, <2>1, <2>2, <2>3
  <1>38. CASE EngineCrashes /\ ByProcess
    <2>1. child.proc = "running" /\ child'.proc = "exited"
      BY <1>38 DEF EngineCrashes, Exit, Serving
    <2>2. engine'.pc = "crashed" /\ engine'.pos = engine.pos
      BY <1>38 DEF EngineCrashes, EngineType
    <2>3. UNCHANGED <<stdin, stdout, inputOpen>>
      BY <1>38 DEF EngineCrashes
    <2> QED BY <1>38, <2>1, <2>2, <2>3
  <1>39. CASE UNCHANGED sysVars
    BY <1>39 DEF sysVars, vars
  <1> HIDE DEF SyncInv
  <1> QED BY <1>1, <1>2, <1>3, <1>4, <1>5, <1>6, <1>7, <1>8, <1>9, <1>10, <1>11, <1>12,
             <1>13, <1>14, <1>15, <1>16, <1>17, <1>18, <1>19, <1>20, <1>21, <1>22,
             <1>23, <1>24, <1>25, <1>26, <1>27, <1>28, <1>29, <1>30, <1>31, <1>32,
             <1>33, <1>34, <1>35, <1>36, <1>37, <1>38, <1>39
             DEF SysNext, SessionNext, Calls, CallerStep, TxnEnds, EngineStep

\* The session's facts hold of the pair: its steps are steps of the session.
LEMMA FactsStep ==
  ASSUME SessionFacts, EngineType, StreamInv, [SysNext]_sysVars
  PROVE  SessionFacts'
  <1>1. [Next]_vars
    BY Simulates DEF SessionFacts
  <1>2. TypeOK' /\ Control'
    BY <1>1, TypeStep, ControlStep DEF SessionFacts
  <1>3. OneInFlight' /\ SessionInv' /\ IdInv' /\ ReapInv'
    BY <1>1, TokenStep, SessionStep, IdStep, ReapStep DEF SessionFacts
  <1>4. AnswerInv' /\ FinalInv'
    BY <1>1, AnswerStep, FinalStep DEF SessionFacts
  <1> QED BY <1>2, <1>3, <1>4 DEF SessionFacts

\* The inductive invariant of the pair.
LEMMA PairInvariant == SysSpec => [](SessionFacts /\ EngineType /\ StreamInv /\ SyncInv)
  <1>1. SysInit => SessionFacts
    <2>1. Init => TypeOK /\ Control
      BY InitTypes
    <2>2. Init => OneInFlight /\ SessionInv
      BY DEF Init, OneInFlight, Holding, SessionInv, At
    <2>3. Init => IdInv /\ ReapInv
      BY DEF Init, IdInv, RequestIdsIncrease, ReapInv, GiveUpReaps, At, Plain
    <2>4. Init => AnswerInv /\ FinalInv
      BY DEF Init, AnswerInv, FinalInv, Asking, Finishing, Good, KillChain, Plain
    <2> QED BY <2>1, <2>2, <2>3, <2>4 DEF SysInit, SessionFacts
  <1>2. SysInit => EngineType
    <2>1. 0 \in Ids /\ <<>> \in Seq(Ids)
      BY ModulusAssumption DEF Ids
    <2> QED BY <2>1 DEF SysInit, EngineInit, EngineType, NoFrame, NoReply
  <1>3. SysInit => StreamInv /\ SyncInv
    BY DEF SysInit, Init, EngineInit, StreamInv, SyncInv, NoProtocolError, Plain,
           At, Finishing
  <1>4. /\ SessionFacts /\ EngineType /\ StreamInv /\ SyncInv /\ [SysNext]_sysVars
        => SessionFacts' /\ EngineType' /\ StreamInv' /\ SyncInv'
    BY FactsStep, EngineTypeStep, StreamStep, SyncStep DEF SessionFacts
  <1> QED BY <1>1, <1>2, <1>3, <1>4, PTL DEF SysSpec

\* The engine is one of the children the session was designed against: the pair
\* is a WorkerSession, so all that is proved of that module holds of it.
THEOREM EngineRefines == SysSpec => ImplementsWorkerSession
  <1>1. SysInit => Init
    BY DEF SysInit
  <1>2. SessionFacts /\ EngineType /\ StreamInv /\ [SysNext]_sysVars => [Next]_vars
    BY Simulates DEF SessionFacts
  <1> QED BY <1>1, <1>2, PairInvariant, PTL DEF SysSpec, Spec, ImplementsWorkerSession

\* The two ends never misunderstand each other: whatever is cancelled, closed,
\* killed or crashes, no response of the engine is a protocol error.
THEOREM NeverMisunderstood == SysSpec => []NoProtocolError
  <1>1. SyncInv => NoProtocolError
    BY DEF SyncInv
  <1> QED BY <1>1, PairInvariant, PTL

-----------------------------------------------------------------------------
(* At most once.                                                           *)

\* The history of the engine: it grows, up to the last request written, which
\* is in it as soon as its answer exists.
HistoryInv ==
    /\ \A i, j \in DOMAIN engine.executed :
         i < j => engine.executed[i] < engine.executed[j]
    /\ \A i \in DOMAIN engine.executed :
         stdin # <<>> /\ engine.executed[i] <= LastFrame.id
    /\ engine.pos < Len(stdin) \/ engine.pc = "execute" =>
         \A i \in DOMAIN engine.executed : engine.executed[i] < LastFrame.id
    /\ engine.pc = "respond" \/ stdout # <<>> =>
         (LastFrame.op = "execute" => Ran(LastFrame.id))

\* What a caller has been told was run.
ToldInv ==
    \A c \in Callers :
        {result[c].kind, out[c].kind} \cap {"completed", "remote"} # {} => Ran(reqId[c])

\* Every step preserves HistoryInv.
LEMMA HistoryStep ==
  ASSUME SessionFacts, EngineType, StreamInv, SyncInv, HistoryInv, [SysNext]_sysVars
  PROVE  HistoryInv'
  <1> USE DEF SessionFacts
  <1>0. /\ engine.pc \in {"read", "execute", "respond", "return", "crashed"}
        /\ engine.pos \in Nat /\ Len(stdin) \in Nat
        /\ engine.executed \in Seq(Ids)
        /\ \A i \in DOMAIN engine.executed : engine.executed[i] \in Nat
    <2>1. \A x \in Ids : x \in Nat
      BY ModulusAssumption DEF Ids
    <2> QED BY <2>1, LenProperties, ElementOfSeq DEF EngineType, TypeOK
  <1>1. CASE PipeSilent
    BY <1>1 DEF HistoryInv, PipeSilent, LastFrame, Ran
  <1>2. ASSUME NEW c \in Callers, TxnWrite(c), UNCHANGED engine PROVE HistoryInv'
    <2>1. engine.pc = "read" /\ stdout = <<>> /\ stdout' = <<>>
      BY <1>2, FrameBegun DEF SyncInv, Settled
    <2>2. LastFrame'.id = reqId[c] /\ reqId[c] \in Nat /\ stdin' # <<>>
      BY <1>2, FrameBegun, ModulusAssumption DEF TypeOK, Ids
    <2>3. stdin # <<>> => LastFrame.id < reqId[c] /\ LastFrame.id \in Nat
      BY <1>2, LastFrameType DEF TxnWrite, IdInv, LastFrame
    <2>4. \A i \in DOMAIN engine.executed : engine.executed[i] < LastFrame'.id
      BY <1>0, <2>2, <2>3 DEF HistoryInv
    <2> QED BY <1>0, <1>2, <2>1, <2>2, <2>4 DEF HistoryInv
  <1>3. ASSUME NEW c \in Callers, TxnWritten(c), UNCHANGED engine PROVE HistoryInv'
    <2>1. LastFrame.op = op[c]
      BY <1>3 DEF TxnWritten, SyncInv
    <2> QED BY <1>3, <2>1, FrameFinished DEF HistoryInv, Ran
  <1>4. ASSUME NEW c \in Callers, TxnRead(c), UNCHANGED engine PROVE HistoryInv'
    <2>1. LastFrame.op = op[c]
      BY <1>4 DEF TxnRead, SyncInv
    <2> QED BY <1>4, <2>1, ReplyTaken DEF HistoryInv, LastFrame, Ran
  <1>5. CASE EngineReads
    <2>1. UNCHANGED <<stdin, stdout>> /\ LastFrame' = LastFrame
      BY <1>5 DEF EngineReads, LastFrame
    <2>2. LastFrame.op \in {"execute", "shutdown"}
      BY <1>5, EngineMoves, LastFrameType
    <2> QED BY <1>0, <1>5, <2>1, <2>2, EngineMoves DEF HistoryInv
  <1>6. CASE EngineExecutes
    <2>1. UNCHANGED <<stdin, stdout>> /\ LastFrame' = LastFrame
      BY <1>6 DEF EngineExecutes, LastFrame
    <2>2. LastFrame.id \in Ids /\ LastFrame.id \in Nat /\ stdin # <<>>
      BY <1>6, EngineMoves, LastFrameType
    <2>3. /\ Len(engine.executed) \in Nat
          /\ DOMAIN engine.executed = 1 .. Len(engine.executed)
          /\ DOMAIN engine'.executed = 1 .. Len(engine.executed) + 1
          /\ \A i \in 1 .. Len(engine.executed) : engine'.executed[i] = engine.executed[i]
          /\ engine'.executed[Len(engine.executed) + 1] = LastFrame.id
      BY <1>0, <1>6, <2>2, EngineMoves, AppendProperties, LenProperties
    <2>4. \A i \in DOMAIN engine.executed : engine.executed[i] < LastFrame.id
      BY <1>6, EngineMoves DEF HistoryInv
    <2>5. \A i, j \in DOMAIN engine'.executed :
            i < j => engine'.executed[i] < engine'.executed[j]
      <3> SUFFICES ASSUME NEW i \in DOMAIN engine'.executed, NEW j \in DOMAIN engine'.executed,
                          i < j
                   PROVE  engine'.executed[i] < engine'.executed[j]
        OBVIOUS
      <3>1. i \in 1 .. Len(engine.executed)
        BY <2>3
      <3>2. CASE j \in 1 .. Len(engine.executed)
        BY <2>3, <3>1, <3>2 DEF HistoryInv
      <3>3. CASE j = Len(engine.executed) + 1
        BY <2>3, <2>4, <3>1, <3>3
      <3> QED BY <2>3, <3>2, <3>3
    <2>6. \A i \in DOMAIN engine'.executed : engine'.executed[i] <= LastFrame.id
      BY <1>0, <2>2, <2>3, <2>4, SMTT(30)
    <2>7. Ran(LastFrame.id)'
      BY <2>1, <2>3 DEF Ran
    <2>8. engine'.pos = Len(stdin) /\ engine'.pc = "respond"
      BY <1>6, EngineMoves DEF StreamInv
    <2> QED BY <1>0, <2>1, <2>2, <2>5, <2>6, <2>7, <2>8 DEF HistoryInv
  <1>7. CASE EngineResponds
    <2>1. UNCHANGED stdin /\ LastFrame' = LastFrame
      BY <1>7 DEF EngineResponds, LastFrame
    <2>2. LastFrame.op \in {"execute", "shutdown"}
      BY <1>7, EngineMoves, LastFrameType
    <2> QED BY <1>0, <1>7, <2>1, <2>2, EngineMoves DEF HistoryInv, Ran
  <1>8. CASE EngineRejects \/ EngineEOF \/ EngineReturns
    BY <1>8 DEF EngineRejects, EngineEOF, EngineReturns, LastFrame, HistoryInv, Ran
  <1>9. CASE EngineCrashes
    <2>1. UNCHANGED <<stdin, stdout>> /\ LastFrame' = LastFrame
      BY <1>9 DEF EngineCrashes, LastFrame
    <2>2. /\ engine'.pc = "crashed" /\ engine'.pos = engine.pos
          /\ engine'.executed = engine.executed
      BY <1>9 DEF EngineCrashes, EngineType
    <2> QED BY <2>1, <2>2 DEF HistoryInv, Ran
  <1>10. CASE UNCHANGED sysVars
    BY <1>10 DEF sysVars, vars, HistoryInv, LastFrame, Ran
  <1> QED BY <1>1, <1>2, <1>3, <1>4, <1>5, <1>6, <1>7, <1>8, <1>9, <1>10, PipeStepKinds
          DEF SysNext, EngineStep

\* What was run stays run.
LEMMA RanGrows ==
  ASSUME SessionFacts, EngineType, StreamInv, [SysNext]_sysVars, NEW id, Ran(id)
  PROVE  Ran(id)'
  <1> USE DEF SessionFacts
  <1>1. CASE UNCHANGED engine
    BY <1>1 DEF Ran
  <1>2. CASE EngineReads \/ EngineResponds
    BY <1>2, EngineMoves DEF Ran
  <1>3. CASE EngineCrashes
    BY <1>3 DEF EngineCrashes, EngineType, Ran
  <1>4. CASE EngineExecutes
    <2>1. LastFrame.id \in Ids
      BY <1>4, EngineMoves, LastFrameType
    <2>2. /\ \A i \in DOMAIN engine.executed :
               i \in DOMAIN engine'.executed /\ engine'.executed[i] = engine.executed[i]
      BY <1>4, <2>1, EngineMoves, AppendProperties, LenProperties, SMTT(30) DEF EngineType
    <2> QED BY <2>2 DEF Ran
  <1> QED BY <1>1, <1>2, <1>3, <1>4
          DEF SysNext, EngineStep, EngineRejects, EngineEOF, EngineReturns, sysVars

\* Every step preserves ToldInv.
LEMMA ToldStep ==
  ASSUME SessionFacts, EngineType, StreamInv, SyncInv, HistoryInv, ToldInv, [SysNext]_sysVars
  PROVE  ToldInv'
  <1> USE DEF At, Goto, Return, Decide, Begin, KillAndReap, TxnDone, TxnGoto,
             TxnReceived, ChildStep, Plain, lockVars, pipeVars, callVars, txnVars,
             ToldInv, SessionFacts, TypeOK, ByProcess, Control, ControlOf
  <1>0. \A id : Ran(id) => Ran(id)'
    BY RanGrows
  <1>1. ASSUME NEW c \in Callers, StartCall(c), UNCHANGED engine PROVE ToldInv'
    BY <1>1, <1>0 DEF StartCall
  <1>2. ASSUME NEW c \in Callers, StartReturn(c), UNCHANGED engine PROVE ToldInv'
    <2>1. CASE cancelled[c]
      BY <1>2, <1>0, <2>1 DEF StartReturn
    <2>2. CASE ~cancelled[c]
      BY <1>2, <1>0, <2>2 DEF StartReturn
    <2> QED BY <2>1, <2>2
  <1>3. ASSUME NEW c \in Callers, NEW o \in {"execute", "shutdown"}, RequestCall(c, o),
               UNCHANGED engine
        PROVE  ToldInv'
    BY <1>3, <1>0 DEF RequestCall
  <1>4. ASSUME NEW c \in Callers, AcquireSelect(c), UNCHANGED engine PROVE ToldInv'
    BY <1>4, <1>0 DEF AcquireSelect
  <1>5. ASSUME NEW c \in Callers, AcquireRecheck(c), UNCHANGED engine PROVE ToldInv'
    BY <1>5, <1>0 DEF AcquireRecheck
  <1>6. ASSUME NEW c \in Callers, CheckOpen(c), UNCHANGED engine PROVE ToldInv'
    BY <1>6, <1>0 DEF CheckOpen
  <1>7. ASSUME NEW c \in Callers, CheckFindsExit(c), UNCHANGED engine PROVE ToldInv'
    BY <1>7, <1>0 DEF CheckFindsExit
  <1>8. ASSUME NEW c \in Callers, CheckExited(c), UNCHANGED engine PROVE ToldInv'
    BY <1>8, <1>0 DEF CheckExited
  <1>9. ASSUME NEW c \in Callers, RequestFails(c), UNCHANGED engine PROVE ToldInv'
    BY <1>9, <1>0 DEF RequestFails
  <1>10. ASSUME NEW c \in Callers, SendRequest(c), UNCHANGED engine PROVE ToldInv'
    BY <1>10, <1>0 DEF SendRequest, AnswerInv, Asking, KillChain
  <1>11. ASSUME NEW c \in Callers, TxnWrite(c), UNCHANGED engine PROVE ToldInv'
    BY <1>11, <1>0 DEF TxnWrite
  <1>12. ASSUME NEW c \in Callers, TxnWritten(c), UNCHANGED engine PROVE ToldInv'
    BY <1>12, <1>0 DEF TxnWritten
  <1>13. ASSUME NEW c \in Callers, TxnWriteFails(c), UNCHANGED engine PROVE ToldInv'
    BY <1>13, <1>0 DEF TxnWriteFails
  <1>14. ASSUME NEW c \in Callers, TxnRead(c), UNCHANGED engine PROVE ToldInv'
    <2>1. LastFrame.op = op[c] /\ op[c] \in {"execute", "shutdown"}
      BY <1>14 DEF TxnRead, SyncInv, KillChain, Requests
    <2>2. op[c] = "execute" => Ran(reqId[c])
      BY <1>14, <2>1, ReplyTaken DEF HistoryInv
    <2> QED BY <1>14, <1>0, <2>1, <2>2, ReplyTaken
  <1>15. ASSUME NEW c \in Callers, TxnReadFails(c), UNCHANGED engine PROVE ToldInv'
    BY <1>15, <1>0 DEF TxnReadFails
  <1>16. ASSUME NEW c \in Callers, TakeResult(c), UNCHANGED engine PROVE ToldInv'
    BY <1>16, <1>0 DEF TakeResult
  <1>17. ASSUME NEW c \in Callers, AwaitCancelled(c), UNCHANGED engine PROVE ToldInv'
    BY <1>17, <1>0 DEF AwaitCancelled
  <1>18. ASSUME NEW c \in Callers, AbandonRequest(c), UNCHANGED engine PROVE ToldInv'
    BY <1>18, <1>0 DEF AbandonRequest
  <1>19. ASSUME NEW c \in Callers, DrainResult(c), UNCHANGED engine PROVE ToldInv'
    BY <1>19, <1>0 DEF DrainResult
  <1>20. ASSUME NEW c \in Callers, CloseCall(c), UNCHANGED engine PROVE ToldInv'
    BY <1>20, <1>0 DEF CloseCall
  <1>21. ASSUME NEW c \in Callers, MarkClosed(c), UNCHANGED engine PROVE ToldInv'
    BY <1>21, <1>0 DEF MarkClosed
  <1>22. ASSUME NEW c \in Callers, CloseInput(c), UNCHANGED engine PROVE ToldInv'
    BY <1>22, <1>0 DEF CloseInput
  <1>23. ASSUME NEW c \in Callers, ShutdownSelect(c), UNCHANGED engine PROVE ToldInv'
    BY <1>23, <1>0 DEF ShutdownSelect
  <1>24. ASSUME NEW c \in Callers, ShutdownReturn(c), UNCHANGED engine PROVE ToldInv'
    BY <1>24, <1>0 DEF ShutdownReturn
  <1>25. ASSUME NEW c \in Callers, KillChild(c), UNCHANGED engine PROVE ToldInv'
    BY <1>25, <1>0 DEF KillChild
  <1>26. ASSUME NEW c \in Callers, Reap(c), UNCHANGED engine PROVE ToldInv'
    BY <1>26, <1>0 DEF Reap
  <1>27. ASSUME NEW c \in Callers, ReapStderr(c), UNCHANGED engine PROVE ToldInv'
    BY <1>27, <1>0 DEF ReapStderr
  <1>28. ASSUME NEW c \in Callers, Cancel(c), UNCHANGED engine PROVE ToldInv'
    BY <1>28, <1>0 DEF Cancel
  <1>29. CASE ChildKilled /\ UNCHANGED engine
    BY <1>29, <1>0 DEF ChildKilled
  <1>30. CASE WaitReturns /\ UNCHANGED engine
    BY <1>30, <1>0 DEF WaitReturns
  <1>31. CASE StderrDrained /\ UNCHANGED engine
    BY <1>31, <1>0 DEF StderrDrained
  <1>32. CASE EngineReads /\ ByProcess
    BY <1>32, <1>0 DEF EngineReads
  <1>33. CASE EngineRejects /\ ByProcess
    BY <1>33, <1>0 DEF EngineRejects
  <1>34. CASE EngineEOF /\ ByProcess
    BY <1>34, <1>0 DEF EngineEOF
  <1>35. CASE EngineExecutes /\ ByProcess
    BY <1>35, <1>0 DEF EngineExecutes
  <1>36. CASE EngineResponds /\ ByProcess
    BY <1>36, <1>0 DEF EngineResponds
  <1>37. CASE EngineReturns /\ ByProcess
    BY <1>37, <1>0 DEF EngineReturns
  <1>38. CASE EngineCrashes /\ ByProcess
    BY <1>38, <1>0 DEF EngineCrashes
  <1>39. CASE UNCHANGED sysVars
    BY <1>39 DEF sysVars, vars
  <1> HIDE DEF ToldInv
  <1> QED BY <1>1, <1>2, <1>3, <1>4, <1>5, <1>6, <1>7, <1>8, <1>9, <1>10, <1>11, <1>12,
             <1>13, <1>14, <1>15, <1>16, <1>17, <1>18, <1>19, <1>20, <1>21, <1>22,
             <1>23, <1>24, <1>25, <1>26, <1>27, <1>28, <1>29, <1>30, <1>31, <1>32,
             <1>33, <1>34, <1>35, <1>36, <1>37, <1>38, <1>39
             DEF SysNext, SessionNext, Calls, CallerStep, TxnEnds, EngineStep

\* Both hold throughout.
LEMMA HistoryInvariant == SysSpec => [](HistoryInv /\ ToldInv)
  <1>1. SysInit => HistoryInv /\ ToldInv
    BY DEF SysInit, Init, EngineInit, HistoryInv, ToldInv, Plain
  <1>2. /\ SessionFacts /\ EngineType /\ StreamInv /\ SyncInv
        /\ HistoryInv /\ ToldInv /\ [SysNext]_sysVars
        => HistoryInv' /\ ToldInv'
    BY HistoryStep, ToldStep
  <1> QED BY <1>1, <1>2, PairInvariant, PTL DEF SysSpec

\* At most once, and once if told: the engine runs every request at most once,
\* and a call that reports a result or a remote error was run.
THEOREM RunsAtMostOnce == SysSpec => []AtMostOnce
  <1>1. HistoryInv /\ ToldInv => AtMostOnce
    BY DEF HistoryInv, ToldInv, Ran, AtMostOnce
  <1> QED BY <1>1, HistoryInvariant, PTL

-----------------------------------------------------------------------------
(* No work behind the caller.                                              *)

\* There is work for a running engine: a request it has not read, or one it has
\* not answered.
Working ==
    /\ child.proc = "running"
    /\ engine.pos < Len(stdin) \/ engine.pc \in {"execute", "respond"}

\* The caller that asked for it still holds the token.
WorkInv == Working => \E c \in Callers : LastMine(c) /\ Holding(c)

\* Every step preserves WorkInv: who leaves has its answer, or waited for the
\* child to exit.
LEMMA WorkStep ==
  ASSUME SessionFacts, EngineType, StreamInv, SyncInv, WorkInv, [SysNext]_sysVars
  PROVE  WorkInv'
  <1> USE DEF At, Goto, Return, Decide, Begin, KillAndReap, TxnDone, TxnGoto,
             TxnReceived, ChildStep, Plain, lockVars, pipeVars, callVars, txnVars,
             WorkInv, Working, Holding, LastMine, SessionFacts, TypeOK, Child,
             ByProcess, Control, ControlOf, KillChain, Requests
  <1>0. engine.pos \in Nat /\ Len(stdin) \in Nat /\ engine.pos <= Len(stdin)
    BY LenProperties DEF EngineType, StreamInv
  <1>1. ASSUME NEW c \in Callers, StartCall(c), UNCHANGED engine PROVE WorkInv'
    <2>1. stdin = <<>> /\ engine.pc = "read"
      BY <1>1 DEF StartCall, SyncInv
    <2>2. ~Working'
      BY <1>1, <1>0, <2>1 DEF StartCall
    <2> QED BY <2>2
  <1>2. ASSUME NEW c \in Callers, StartReturn(c), UNCHANGED engine PROVE WorkInv'
    <2>1. CASE cancelled[c]
      BY <1>2, <2>1 DEF StartReturn
    <2>2. CASE ~cancelled[c]
      BY <1>2, <2>2 DEF StartReturn
    <2> QED BY <2>1, <2>2
  <1>3. ASSUME NEW c \in Callers, NEW o \in {"execute", "shutdown"}, RequestCall(c, o),
               UNCHANGED engine
        PROVE  WorkInv'
    BY <1>3 DEF RequestCall
  <1>4. ASSUME NEW c \in Callers, AcquireSelect(c), UNCHANGED engine PROVE WorkInv'
    BY <1>4 DEF AcquireSelect
  <1>5. ASSUME NEW c \in Callers, AcquireRecheck(c), UNCHANGED engine PROVE WorkInv'
    <2>1. ~LastMine(c)
      BY <1>5, NotMine DEF AcquireRecheck, Asking
    <2> HIDE DEF LastMine
    <2>2. \A d \in Callers : LastMine(d)' = LastMine(d)
      BY <1>5 DEF AcquireRecheck, LastMine
    <2> QED BY <1>5, <2>1, <2>2 DEF AcquireRecheck
  <1>6. ASSUME NEW c \in Callers, CheckOpen(c), UNCHANGED engine PROVE WorkInv'
    <2>1. ~LastMine(c)
      BY <1>6, NotMine DEF CheckOpen, Asking
    <2> HIDE DEF LastMine
    <2>2. \A d \in Callers : LastMine(d)' = LastMine(d)
      BY <1>6 DEF CheckOpen, LastMine
    <2> QED BY <1>6, <2>1, <2>2 DEF CheckOpen
  <1>7. ASSUME NEW c \in Callers, CheckFindsExit(c), UNCHANGED engine PROVE WorkInv'
    BY <1>7 DEF CheckFindsExit
  <1>8. ASSUME NEW c \in Callers, CheckExited(c), UNCHANGED engine PROVE WorkInv'
    <2>1. ~LastMine(c)
      BY <1>8, NotMine DEF CheckExited, Asking
    <2> HIDE DEF LastMine
    <2>2. \A d \in Callers : LastMine(d)' = LastMine(d)
      BY <1>8 DEF CheckExited, LastMine
    <2> QED BY <1>8, <2>1, <2>2 DEF CheckExited
  <1>9. ASSUME NEW c \in Callers, RequestFails(c), UNCHANGED engine PROVE WorkInv'
    <2>1. ~LastMine(c)
      BY <1>9, NotMine DEF RequestFails, Asking
    <2> HIDE DEF LastMine
    <2>2. \A d \in Callers : LastMine(d)' = LastMine(d)
      BY <1>9 DEF RequestFails, LastMine
    <2> QED BY <1>9, <2>1, <2>2 DEF RequestFails
  <1>10. ASSUME NEW c \in Callers, SendRequest(c), UNCHANGED engine PROVE WorkInv'
    <2>1. ~Working
      BY <1>10, <1>0 DEF SendRequest, SyncInv, Settled
    <2>2. ~Working'
      BY <1>10, <2>1 DEF SendRequest
    <2> QED BY <2>2
  <1>11. ASSUME NEW c \in Callers, TxnWrite(c), UNCHANGED engine PROVE WorkInv'
    <2>1. LastMine(c)' /\ Holding(c)'
      BY <1>11, FrameBegun DEF LastFrame
    <2> QED BY <2>1
  <1>12. ASSUME NEW c \in Callers, TxnWritten(c), UNCHANGED engine PROVE WorkInv'
    <2>1. LastFrame.op = op[c]
      BY <1>12 DEF TxnWritten, SyncInv
    <2>2. LastMine(c)' /\ Holding(c)'
      BY <1>12, <2>1, FrameFinished DEF LastFrame
    <2> QED BY <2>2
  <1>13. ASSUME NEW c \in Callers, TxnWriteFails(c), UNCHANGED engine PROVE WorkInv'
    BY <1>13 DEF TxnWriteFails
  <1>14. ASSUME NEW c \in Callers, TxnRead(c), UNCHANGED engine PROVE WorkInv'
    BY <1>14 DEF TxnRead
  <1>15. ASSUME NEW c \in Callers, TxnReadFails(c), UNCHANGED engine PROVE WorkInv'
    BY <1>15 DEF TxnReadFails
  <1>16. ASSUME NEW c \in Callers, TakeResult(c), UNCHANGED engine PROVE WorkInv'
    <2>1. CASE result[c].kind \in {"completed", "remote"}
      <3>1. ~Working
        BY <1>16, <1>0, <2>1 DEF TakeResult, SyncInv, Settled
      <3>2. ~Working'
        BY <1>16, <3>1 DEF TakeResult
      <3> QED BY <3>2
    <2>2. CASE result[c].kind \notin {"completed", "remote"}
      BY <1>16, <2>2 DEF TakeResult
    <2> QED BY <2>1, <2>2
  <1>17. ASSUME NEW c \in Callers, AwaitCancelled(c), UNCHANGED engine PROVE WorkInv'
    BY <1>17 DEF AwaitCancelled
  <1>18. ASSUME NEW c \in Callers, AbandonRequest(c), UNCHANGED engine PROVE WorkInv'
    BY <1>18 DEF AbandonRequest
  <1>19. ASSUME NEW c \in Callers, DrainResult(c), UNCHANGED engine PROVE WorkInv'
    <2>1. ~Working
      BY <1>19, <1>0 DEF DrainResult, ReapInv
    <2>2. ~Working'
      BY <1>19, <2>1 DEF DrainResult
    <2> QED BY <2>2
  <1>20. ASSUME NEW c \in Callers, CloseCall(c), UNCHANGED engine PROVE WorkInv'
    BY <1>20 DEF CloseCall
  <1>21. ASSUME NEW c \in Callers, MarkClosed(c), UNCHANGED engine PROVE WorkInv'
    BY <1>21 DEF MarkClosed
  <1>22. ASSUME NEW c \in Callers, CloseInput(c), UNCHANGED engine PROVE WorkInv'
    BY <1>22 DEF CloseInput
  <1>23. ASSUME NEW c \in Callers, ShutdownSelect(c), UNCHANGED engine PROVE WorkInv'
    BY <1>23 DEF ShutdownSelect
  <1>24. ASSUME NEW c \in Callers, ShutdownReturn(c), UNCHANGED engine PROVE WorkInv'
    <2>1. ~Working
      BY <1>24, <1>0 DEF ShutdownReturn, ReapInv
    <2>2. ~Working'
      BY <1>24, <2>1 DEF ShutdownReturn
    <2> QED BY <2>2
  <1>25. ASSUME NEW c \in Callers, KillChild(c), UNCHANGED engine PROVE WorkInv'
    BY <1>25 DEF KillChild
  <1>26. ASSUME NEW c \in Callers, Reap(c), UNCHANGED engine PROVE WorkInv'
    BY <1>26 DEF Reap
  <1>27. ASSUME NEW c \in Callers, ReapStderr(c), UNCHANGED engine PROVE WorkInv'
    <2>1. ~Working
      BY <1>27, <1>0 DEF ReapStderr, ReapInv
    <2>2. ~Working'
      BY <1>27, <2>1 DEF ReapStderr
    <2> QED BY <2>2
  <1>28. ASSUME NEW c \in Callers, Cancel(c), UNCHANGED engine PROVE WorkInv'
    BY <1>28 DEF Cancel
  <1>29. CASE ChildKilled /\ UNCHANGED engine
    BY <1>29 DEF ChildKilled
  <1>30. CASE WaitReturns /\ UNCHANGED engine
    BY <1>30 DEF WaitReturns
  <1>31. CASE StderrDrained /\ UNCHANGED engine
    BY <1>31 DEF StderrDrained
  <1>32. CASE EngineReads /\ ByProcess
    <2>1. Working /\ UNCHANGED <<stdin, pc, op, reqId>>
      BY <1>32, EngineMoves DEF EngineReads
    <2> QED BY <2>1
  <1>33. CASE EngineRejects /\ ByProcess
    <2>1. child'.proc = "exited"
      BY <1>33 DEF EngineRejects, Exit
    <2> QED BY <2>1
  <1>34. CASE EngineEOF /\ ByProcess
    <2>1. child'.proc = "exited"
      BY <1>34 DEF EngineEOF, Exit
    <2> QED BY <2>1
  <1>35. CASE EngineExecutes /\ ByProcess
    <2>1. Working /\ UNCHANGED <<stdin, pc, op, reqId>>
      BY <1>35, EngineMoves DEF EngineExecutes
    <2> QED BY <2>1
  <1>36. CASE EngineResponds /\ ByProcess
    <2>1. UNCHANGED <<stdin, pc, op, reqId>>
      BY <1>36 DEF EngineResponds
    <2>2. Working
      BY <1>36, EngineMoves
    <2> QED BY <2>1, <2>2
  <1>37. CASE EngineReturns /\ ByProcess
    <2>1. child'.proc = "exited"
      BY <1>37 DEF EngineReturns, Exit
    <2> QED BY <2>1
  <1>38. CASE EngineCrashes /\ ByProcess
    <2>1. child'.proc = "exited"
      BY <1>38 DEF EngineCrashes, Exit
    <2> QED BY <2>1
  <1>39. CASE UNCHANGED sysVars
    BY <1>39 DEF sysVars, vars
  <1> HIDE DEF WorkInv
  <1> QED BY <1>1, <1>2, <1>3, <1>4, <1>5, <1>6, <1>7, <1>8, <1>9, <1>10, <1>11, <1>12,
             <1>13, <1>14, <1>15, <1>16, <1>17, <1>18, <1>19, <1>20, <1>21, <1>22,
             <1>23, <1>24, <1>25, <1>26, <1>27, <1>28, <1>29, <1>30, <1>31, <1>32,
             <1>33, <1>34, <1>35, <1>36, <1>37, <1>38, <1>39
             DEF SysNext, SessionNext, Calls, CallerStep, TxnEnds, EngineStep

\* It holds throughout.
LEMMA WorkInvariant == SysSpec => []WorkInv
  <1>1. SysInit => WorkInv
    BY DEF SysInit, Init, WorkInv, Working
  <1>2. /\ SessionFacts /\ EngineType /\ StreamInv /\ SyncInv /\ WorkInv
        /\ [SysNext]_sysVars
        => WorkInv'
    BY WorkStep
  <1> QED BY <1>1, <1>2, PairInvariant, PTL DEF SysSpec

\* A caller that gave up waits until the engine has stopped: while the process
\* executes, the call that asked for it has not returned.
THEOREM WorkHasItsCaller == SysSpec => []NoWorkBehindTheCaller
  <1>1. StreamInv /\ WorkInv => NoWorkBehindTheCaller
    <2> SUFFICES ASSUME StreamInv, WorkInv, child.proc = "running",
                        engine.pc \in {"execute", "respond"}
                 PROVE  \E c \in Callers : reqId[c] = engine.req.id /\ ~At(c, "idle")
      BY DEF NoWorkBehindTheCaller
    <2>1. PICK c \in Callers : LastMine(c) /\ Holding(c)
      BY DEF WorkInv, Working
    <2>2. engine.req.id = LastFrame.id
      BY DEF StreamInv
    <2> QED BY <2>1, <2>2 DEF LastMine, LastFrame, Holding, At
  <1> QED BY <1>1, WorkInvariant, PairInvariant, PTL

-----------------------------------------------------------------------------
(* No false alarm.                                                         *)

\* An open session has touched neither pipe nor process, and its engine is up
\* unless it acknowledged a shutdown or crashed.
OpenInv ==
    /\ state = "open" => inputOpen /\ ~child.killed
    /\ state = "open" /\ ~outputOpen => \E c \in Callers : At(c, "exited")
    /\ state = "open" /\ child.proc = "exited" => engine.pc \in {"return", "crashed"}
    /\ child.status = "killed" => child.killed
    /\ child.proc = "exited" => child.status # "none"
    /\ \A c \in Callers :
         /\ pc[c] \in {"request", "await", "prefer"} => state # "poisoned"
         /\ pc[c] \in KillChain => state # "open"

\* Failures that are reported have a cause; the first one is on its way to the
\* caller.
AlarmInv ==
    engine.pc # "crashed" =>
        \A c \in Callers :
            /\ /\ txn[c] = "done" /\ pc[c] \in {"await", "prefer"}
               /\ result[c].kind = "transport"
               => state = "closed"
            /\ out[c].kind = "transport" => state = "closed"
            /\ out[c].kind = "exit_error" => child.killed

\* Every step preserves OpenInv: a session is marked before anything of its child
\* is taken away.
LEMMA OpenStep ==
  ASSUME SessionFacts, EngineType, StreamInv, OpenInv, [SysNext]_sysVars
  PROVE  OpenInv'
  <1> USE DEF At, Goto, Return, Decide, Begin, KillAndReap, MarkPoisoned, TxnDone,
             TxnGoto, TxnReceived, ChildStep, Plain, lockVars, pipeVars, callVars,
             txnVars, SessionFacts, TypeOK, Child, ByProcess, Control, ControlOf,
             KillChain, OpenInv
  <1>1. ASSUME NEW c \in Callers, StartCall(c), UNCHANGED engine PROVE OpenInv'
    <2>1. pc[c] = "idle" /\ pc'[c] \in {"idle", "started"}
      BY <1>1 DEF StartCall
    <2>2. \A d \in Callers : d # c => pc'[d] = pc[d]
      BY <1>1 DEF StartCall
    <2>3. /\ child'.killed = child.killed /\ child'.status = child.status
          /\ child'.proc # "exited" /\ UNCHANGED <<state, inputOpen, outputOpen>>
      BY <1>1 DEF StartCall
    <2> QED BY <2>1, <2>2, <2>3, SMTT(30)
  <1>2. ASSUME NEW c \in Callers, StartReturn(c), UNCHANGED engine PROVE OpenInv'
    <2>1. CASE cancelled[c]
      <3>1. \A d \in Callers : pc[d] \notin {"request", "await", "prefer", "exited"}
        BY <1>2 DEF StartReturn, SessionInv, Requests
      <3>2. pc' = [pc EXCEPT ![c] = "close_input"] /\ state' # "open"
        BY <1>2, <2>1 DEF StartReturn
      <3>3. UNCHANGED <<inputOpen, outputOpen, child>>
        BY <1>2 DEF StartReturn
      <3> QED BY <3>1, <3>2, <3>3
    <2>2. CASE ~cancelled[c]
      BY <1>2, <2>2 DEF StartReturn
    <2> QED BY <2>1, <2>2
  <1>3. ASSUME NEW c \in Callers, NEW o \in {"execute", "shutdown"}, RequestCall(c, o),
               UNCHANGED engine
        PROVE  OpenInv'
    BY <1>3 DEF RequestCall
  <1>4. ASSUME NEW c \in Callers, AcquireSelect(c), UNCHANGED engine PROVE OpenInv'
    BY <1>4 DEF AcquireSelect
  <1>5. ASSUME NEW c \in Callers, AcquireRecheck(c), UNCHANGED engine PROVE OpenInv'
    BY <1>5 DEF AcquireRecheck
  <1>6. ASSUME NEW c \in Callers, CheckOpen(c), UNCHANGED engine PROVE OpenInv'
    BY <1>6 DEF CheckOpen
  <1>7. ASSUME NEW c \in Callers, CheckFindsExit(c), UNCHANGED engine PROVE OpenInv'
    BY <1>7 DEF CheckFindsExit
  <1>8. ASSUME NEW c \in Callers, CheckExited(c), UNCHANGED engine PROVE OpenInv'
    <2>1. \A d \in Callers : Holding(d) => d = c
      BY <1>8 DEF CheckExited, OneInFlight, Holding
    <2> QED BY <1>8, <2>1 DEF CheckExited, Holding
  <1>9. ASSUME NEW c \in Callers, RequestFails(c), UNCHANGED engine PROVE OpenInv'
    BY <1>9 DEF RequestFails
  <1>10. ASSUME NEW c \in Callers, SendRequest(c), UNCHANGED engine PROVE OpenInv'
    BY <1>10 DEF SendRequest
  <1>11. ASSUME NEW c \in Callers, TxnWrite(c), UNCHANGED engine PROVE OpenInv'
    BY <1>11 DEF TxnWrite
  <1>12. ASSUME NEW c \in Callers, TxnWritten(c), UNCHANGED engine PROVE OpenInv'
    BY <1>12 DEF TxnWritten
  <1>13. ASSUME NEW c \in Callers, TxnWriteFails(c), UNCHANGED engine PROVE OpenInv'
    BY <1>13 DEF TxnWriteFails
  <1>14. ASSUME NEW c \in Callers, TxnRead(c), UNCHANGED engine PROVE OpenInv'
    BY <1>14 DEF TxnRead
  <1>15. ASSUME NEW c \in Callers, TxnReadFails(c), UNCHANGED engine PROVE OpenInv'
    BY <1>15 DEF TxnReadFails
  <1>16. ASSUME NEW c \in Callers, TakeResult(c), UNCHANGED engine PROVE OpenInv'
    <2>1. \A d \in Callers : Holding(d) => d = c
      BY <1>16 DEF TakeResult, OneInFlight, Holding
    <2> QED BY <1>16, <2>1 DEF TakeResult, Holding
  <1>17. ASSUME NEW c \in Callers, AwaitCancelled(c), UNCHANGED engine PROVE OpenInv'
    BY <1>17 DEF AwaitCancelled
  <1>18. ASSUME NEW c \in Callers, AbandonRequest(c), UNCHANGED engine PROVE OpenInv'
    <2>1. \A d \in Callers : Holding(d) => d = c
      BY <1>18 DEF AbandonRequest, OneInFlight, Holding
    <2> QED BY <1>18, <2>1 DEF AbandonRequest, Holding, NothingToPrefer
  <1>19. ASSUME NEW c \in Callers, DrainResult(c), UNCHANGED engine PROVE OpenInv'
    BY <1>19 DEF DrainResult
  <1>20. ASSUME NEW c \in Callers, CloseCall(c), UNCHANGED engine PROVE OpenInv'
    BY <1>20 DEF CloseCall
  <1>21. ASSUME NEW c \in Callers, MarkClosed(c), UNCHANGED engine PROVE OpenInv'
    BY <1>21 DEF MarkClosed
  <1>22. ASSUME NEW c \in Callers, CloseInput(c), UNCHANGED engine PROVE OpenInv'
    BY <1>22 DEF CloseInput, FinalInv, Finishing
  <1>23. ASSUME NEW c \in Callers, ShutdownSelect(c), UNCHANGED engine PROVE OpenInv'
    BY <1>23 DEF ShutdownSelect, FinalInv, Finishing
  <1>24. ASSUME NEW c \in Callers, ShutdownReturn(c), UNCHANGED engine PROVE OpenInv'
    BY <1>24 DEF ShutdownReturn
  <1>25. ASSUME NEW c \in Callers, KillChild(c), UNCHANGED engine PROVE OpenInv'
    BY <1>25 DEF KillChild
  <1>26. ASSUME NEW c \in Callers, Reap(c), UNCHANGED engine PROVE OpenInv'
    BY <1>26 DEF Reap
  <1>27. ASSUME NEW c \in Callers, ReapStderr(c), UNCHANGED engine PROVE OpenInv'
    BY <1>27 DEF ReapStderr
  <1>28. ASSUME NEW c \in Callers, Cancel(c), UNCHANGED engine PROVE OpenInv'
    BY <1>28 DEF Cancel
  <1>29. CASE ChildKilled /\ UNCHANGED engine
    BY <1>29 DEF ChildKilled
  <1>30. CASE WaitReturns /\ UNCHANGED engine
    BY <1>30 DEF WaitReturns
  <1>31. CASE StderrDrained /\ UNCHANGED engine
    BY <1>31 DEF StderrDrained
  <1>32. CASE EngineReads /\ ByProcess
    <2>1. child.proc = "running" /\ UNCHANGED <<child, inputOpen, outputOpen>>
      BY <1>32 DEF EngineReads, Serving
    <2> QED BY <1>32, <2>1
  <1>33. CASE EngineRejects /\ ByProcess
    <2>1. ~inputOpen /\ child.proc = "running"
      BY <1>33 DEF EngineRejects, Readable, Decodes, Serving
    <2> QED BY <1>33, <2>1 DEF EngineRejects, Exit
  <1>34. CASE EngineEOF /\ ByProcess
    BY <1>34 DEF EngineEOF, Serving, Exit
  <1>35. CASE EngineExecutes /\ ByProcess
    <2>1. child.proc = "running" /\ UNCHANGED <<child, inputOpen, outputOpen>>
      BY <1>35 DEF EngineExecutes, Serving
    <2> QED BY <1>35, <2>1
  <1>36. CASE EngineResponds /\ ByProcess
    <2>1. child.proc = "running" /\ UNCHANGED <<child, inputOpen, outputOpen>>
      BY <1>36 DEF EngineResponds, Serving
    <2> QED BY <1>36, <2>1
  <1>37. CASE EngineReturns /\ ByProcess
    BY <1>37 DEF EngineReturns, Serving, Exit
  <1>38. CASE EngineCrashes /\ ByProcess
    <2>1. engine'.pc = "crashed"
      BY <1>38 DEF EngineCrashes, EngineType
    <2> QED BY <1>38, <2>1 DEF EngineCrashes, Exit
  <1>39. CASE UNCHANGED sysVars
    BY <1>39 DEF sysVars, vars
  <1> HIDE DEF OpenInv
  <1> QED BY <1>1, <1>2, <1>3, <1>4, <1>5, <1>6, <1>7, <1>8, <1>9, <1>10, <1>11, <1>12,
             <1>13, <1>14, <1>15, <1>16, <1>17, <1>18, <1>19, <1>20, <1>21, <1>22,
             <1>23, <1>24, <1>25, <1>26, <1>27, <1>28, <1>29, <1>30, <1>31, <1>32,
             <1>33, <1>34, <1>35, <1>36, <1>37, <1>38, <1>39
             DEF SysNext, SessionNext, Calls, CallerStep, TxnEnds, EngineStep

\* Every step preserves AlarmInv: an engine that has not crashed breaks off only
\* what the session broke off.
LEMMA AlarmStep ==
  ASSUME SessionFacts, EngineType, StreamInv, SyncInv, OpenInv, AlarmInv, [SysNext]_sysVars
  PROVE  AlarmInv'
  <1> USE DEF At, Goto, Return, Decide, Begin, KillAndReap, MarkPoisoned, TxnDone,
             TxnGoto, TxnReceived, ChildStep, Plain, lockVars, pipeVars, callVars,
             txnVars, SessionFacts, TypeOK, Child, ByProcess, Control, ControlOf,
             KillChain, AlarmInv
  <1>0. engine.pos \in Nat /\ Len(stdin) \in Nat
    BY LenProperties DEF EngineType
  <1>1. ASSUME NEW c \in Callers, StartCall(c), UNCHANGED engine PROVE AlarmInv'
    <2>1. \A d \in Callers : d # c => pc'[d] = pc[d] /\ out'[d] = out[d]
      BY <1>1 DEF StartCall
    <2>2. /\ pc'[c] \notin {"await", "prefer"}
          /\ out'[c].kind \notin {"transport", "exit_error"}
      BY <1>1 DEF StartCall
    <2>3. /\ UNCHANGED <<txn, result>> /\ child'.killed = child.killed
          /\ state = "closed" => state' = "closed"
      BY <1>1 DEF StartCall
    <2> HIDE DEF SessionFacts
    <2> QED BY <1>1, <2>1, <2>2, <2>3
  <1>2. ASSUME NEW c \in Callers, StartReturn(c), UNCHANGED engine PROVE AlarmInv'
    <2>1. \A d \in Callers : d # c => pc'[d] = pc[d] /\ out'[d] = out[d]
      BY <1>2 DEF StartReturn
    <2>2. /\ pc'[c] \notin {"await", "prefer"}
          /\ out'[c].kind \notin {"transport", "exit_error"}
      BY <1>2 DEF StartReturn
    <2>3. /\ UNCHANGED <<txn, result>> /\ child'.killed = child.killed
          /\ state = "closed" => state' = "closed"
      BY <1>2 DEF StartReturn
    <2> HIDE DEF SessionFacts
    <2> QED BY <1>2, <2>1, <2>2, <2>3
  <1>3. ASSUME NEW c \in Callers, NEW o \in {"execute", "shutdown"}, RequestCall(c, o),
               UNCHANGED engine
        PROVE  AlarmInv'
    <2>1. \A d \in Callers : d # c => pc'[d] = pc[d] /\ out'[d] = out[d]
      BY <1>3 DEF RequestCall
    <2>2. /\ pc'[c] \notin {"await", "prefer"}
          /\ out'[c].kind \notin {"transport", "exit_error"}
      BY <1>3 DEF RequestCall
    <2>3. /\ UNCHANGED <<txn, result>> /\ child'.killed = child.killed
          /\ state = "closed" => state' = "closed"
      BY <1>3 DEF RequestCall
    <2> HIDE DEF SessionFacts
    <2> QED BY <1>3, <2>1, <2>2, <2>3
  <1>4. ASSUME NEW c \in Callers, AcquireSelect(c), UNCHANGED engine PROVE AlarmInv'
    BY <1>4, SMTT(30) DEF AcquireSelect
  <1>5. ASSUME NEW c \in Callers, AcquireRecheck(c), UNCHANGED engine PROVE AlarmInv'
    BY <1>5, SMTT(30) DEF AcquireRecheck
  <1>6. ASSUME NEW c \in Callers, CheckOpen(c), UNCHANGED engine PROVE AlarmInv'
    <2>1. \A d \in Callers : d # c => pc'[d] = pc[d] /\ out'[d] = out[d]
      BY <1>6 DEF CheckOpen
    <2>2. /\ pc'[c] \notin {"await", "prefer"}
          /\ out'[c].kind \notin {"transport", "exit_error"}
      <3>1. CASE state # "open" /\ Return(c, Plain(state))
        BY <1>6, <3>1
      <3>2. CASE Goto(c, "request")
        <4>1. out'[c] = out[c] /\ out[c].kind = "none" /\ pc'[c] = "request"
          BY <1>6, <3>2 DEF CheckOpen, AnswerInv, Asking
        <4> QED BY <4>1
      <3> QED BY <1>6, <3>1, <3>2 DEF CheckOpen
    <2>3. /\ UNCHANGED <<txn, result>> /\ child'.killed = child.killed
          /\ state = "closed" => state' = "closed"
      BY <1>6 DEF CheckOpen
    <2> HIDE DEF SessionFacts
    <2> QED BY <1>6, <2>1, <2>2, <2>3
  <1>7. ASSUME NEW c \in Callers, CheckFindsExit(c), UNCHANGED engine PROVE AlarmInv'
    BY <1>7 DEF CheckFindsExit
  <1>8. ASSUME NEW c \in Callers, CheckExited(c), UNCHANGED engine PROVE AlarmInv'
    <2>1. state = "open"
      BY <1>8 DEF CheckExited, SessionInv
    <2> QED BY <1>8, <2>1 DEF CheckExited
  <1>9. ASSUME NEW c \in Callers, RequestFails(c), UNCHANGED engine PROVE AlarmInv'
    BY <1>9, SMTT(30) DEF RequestFails
  <1>10. ASSUME NEW c \in Callers, SendRequest(c), UNCHANGED engine PROVE AlarmInv'
    BY <1>10 DEF SendRequest
  <1>11. ASSUME NEW c \in Callers, TxnWrite(c), UNCHANGED engine PROVE AlarmInv'
    BY <1>11 DEF TxnWrite
  <1>12. ASSUME NEW c \in Callers, TxnWritten(c), UNCHANGED engine PROVE AlarmInv'
    BY <1>12 DEF TxnWritten
  <1>13. ASSUME NEW c \in Callers, TxnWriteFails(c), UNCHANGED engine PROVE AlarmInv'
    <2>1. ASSUME state = "open", engine.pc # "crashed" PROVE FALSE
      <3>1. child.proc = "exited" /\ inputOpen /\ engine.pc = "return"
        BY <1>13, <2>1 DEF TxnWriteFails, OpenInv
      <3>2. engine.pos = Len(stdin)
        BY <3>1 DEF StreamInv
      <3> QED BY <1>13, <1>0, <3>1, <3>2 DEF TxnWriteFails, SyncInv, Settled
    <2>2. pc[c] \in {"await", "prefer"} => state # "poisoned"
      BY DEF OpenInv
    <2> QED BY <1>13, <2>1, <2>2 DEF TxnWriteFails
  <1>14. ASSUME NEW c \in Callers, TxnRead(c), UNCHANGED engine PROVE AlarmInv'
    <2>1. LastFrame.op = op[c]
      BY <1>14 DEF TxnRead, SyncInv
    <2> QED BY <1>14, <2>1, ReplyTaken
  <1>15. ASSUME NEW c \in Callers, TxnReadFails(c), UNCHANGED engine PROVE AlarmInv'
    <2>1. ASSUME state = "open", engine.pc # "crashed" PROVE FALSE
      <3>1. \A d \in Callers : ~At(d, "exited")
        BY <1>15 DEF TxnReadFails, OneInFlight, Holding
      <3>2. child.proc = "exited" /\ stdout = <<>> /\ engine.pc = "return"
        BY <1>15, <2>1, <3>1 DEF TxnReadFails, OpenInv
      <3> QED BY <1>15, <3>2 DEF TxnReadFails, SyncInv
    <2>2. pc[c] \in {"await", "prefer"} => state # "poisoned"
      BY DEF OpenInv
    <2> QED BY <1>15, <2>1, <2>2 DEF TxnReadFails
  <1>16. ASSUME NEW c \in Callers, TakeResult(c), UNCHANGED engine PROVE AlarmInv'
    BY <1>16 DEF TakeResult
  <1>17. ASSUME NEW c \in Callers, AwaitCancelled(c), UNCHANGED engine PROVE AlarmInv'
    BY <1>17 DEF AwaitCancelled
  <1>18. ASSUME NEW c \in Callers, AbandonRequest(c), UNCHANGED engine PROVE AlarmInv'
    BY <1>18 DEF AbandonRequest, NothingToPrefer
  <1>19. ASSUME NEW c \in Callers, DrainResult(c), UNCHANGED engine PROVE AlarmInv'
    BY <1>19 DEF DrainResult
  <1>20. ASSUME NEW c \in Callers, CloseCall(c), UNCHANGED engine PROVE AlarmInv'
    BY <1>20 DEF CloseCall
  <1>21. ASSUME NEW c \in Callers, MarkClosed(c), UNCHANGED engine PROVE AlarmInv'
    BY <1>21 DEF MarkClosed
  <1>22. ASSUME NEW c \in Callers, CloseInput(c), UNCHANGED engine PROVE AlarmInv'
    BY <1>22 DEF CloseInput
  <1>23. ASSUME NEW c \in Callers, ShutdownSelect(c), UNCHANGED engine PROVE AlarmInv'
    BY <1>23 DEF ShutdownSelect
  <1>24. ASSUME NEW c \in Callers, ShutdownReturn(c), UNCHANGED engine PROVE AlarmInv'
    <2>1. engine.pc # "crashed" /\ child.status # "ok" => child.killed
      <3>1. child.proc = "exited"
        BY <1>24 DEF ShutdownReturn, ReapInv
      <3>2. engine.pc \in {"return", "crashed"}
        BY <1>24 DEF ShutdownReturn, SyncInv, Finishing
      <3>3. engine.pc = "return" => child.status # "fail"
        BY DEF StreamInv
      <3> QED BY <3>1, <3>2, <3>3 DEF OpenInv
    <2> QED BY <1>24, <2>1 DEF ShutdownReturn
  <1>25. ASSUME NEW c \in Callers, KillChild(c), UNCHANGED engine PROVE AlarmInv'
    BY <1>25 DEF KillChild
  <1>26. ASSUME NEW c \in Callers, Reap(c), UNCHANGED engine PROVE AlarmInv'
    BY <1>26 DEF Reap
  <1>27. ASSUME NEW c \in Callers, ReapStderr(c), UNCHANGED engine PROVE AlarmInv'
    BY <1>27 DEF ReapStderr
  <1>28. ASSUME NEW c \in Callers, Cancel(c), UNCHANGED engine PROVE AlarmInv'
    BY <1>28 DEF Cancel
  <1>29. CASE ChildKilled /\ UNCHANGED engine
    BY <1>29 DEF ChildKilled
  <1>30. CASE WaitReturns /\ UNCHANGED engine
    BY <1>30 DEF WaitReturns
  <1>31. CASE StderrDrained /\ UNCHANGED engine
    BY <1>31 DEF StderrDrained
  <1>32. CASE EngineReads /\ ByProcess
    <2>1. engine.pc # "crashed" /\ UNCHANGED child
      BY <1>32 DEF EngineReads, Serving
    <2> QED BY <1>32, <2>1
  <1>33. CASE EngineRejects /\ ByProcess
    <2>1. UNCHANGED engine /\ child'.killed = child.killed
      BY <1>33 DEF EngineRejects, Exit
    <2> QED BY <1>33, <2>1
  <1>34. CASE EngineEOF /\ ByProcess
    <2>1. UNCHANGED engine /\ child'.killed = child.killed
      BY <1>34 DEF EngineEOF, Exit
    <2> QED BY <1>34, <2>1
  <1>35. CASE EngineExecutes /\ ByProcess
    <2>1. engine.pc # "crashed" /\ UNCHANGED child
      BY <1>35 DEF EngineExecutes, Serving
    <2> QED BY <1>35, <2>1
  <1>36. CASE EngineResponds /\ ByProcess
    <2>1. engine.pc # "crashed" /\ UNCHANGED child
      BY <1>36 DEF EngineResponds, Serving
    <2> QED BY <1>36, <2>1
  <1>37. CASE EngineReturns /\ ByProcess
    <2>1. UNCHANGED engine /\ child'.killed = child.killed
      BY <1>37 DEF EngineReturns, Exit
    <2> QED BY <1>37, <2>1
  <1>38. CASE EngineCrashes /\ ByProcess
    <2>1. engine'.pc = "crashed"
      BY <1>38 DEF EngineCrashes, EngineType
    <2> QED BY <2>1
  <1>39. CASE UNCHANGED sysVars
    BY <1>39 DEF sysVars, vars
  <1> HIDE DEF AlarmInv
  <1> QED BY <1>1, <1>2, <1>3, <1>4, <1>5, <1>6, <1>7, <1>8, <1>9, <1>10, <1>11, <1>12,
             <1>13, <1>14, <1>15, <1>16, <1>17, <1>18, <1>19, <1>20, <1>21, <1>22,
             <1>23, <1>24, <1>25, <1>26, <1>27, <1>28, <1>29, <1>30, <1>31, <1>32,
             <1>33, <1>34, <1>35, <1>36, <1>37, <1>38, <1>39
             DEF SysNext, SessionNext, Calls, CallerStep, TxnEnds, EngineStep

\* As long as the engine does not crash, a call fails with a transport error
\* only because the session was closed under it, and an acknowledged shutdown
\* ends badly only because the child was killed.
THEOREM AlarmsAreTrue == SysSpec => []NoFalseAlarm
  <1>1. SysInit => OpenInv /\ AlarmInv
    BY DEF SysInit, Init, OpenInv, AlarmInv, KillChain, Plain
  <1>2. /\ SessionFacts /\ EngineType /\ StreamInv /\ SyncInv /\ OpenInv /\ AlarmInv
        /\ [SysNext]_sysVars
        => OpenInv' /\ AlarmInv'
    BY OpenStep, AlarmStep
  <1>3. AlarmInv => NoFalseAlarm
    BY DEF AlarmInv, NoFalseAlarm
  <1> QED BY <1>1, <1>2, <1>3, PairInvariant, PTL DEF SysSpec

=============================================================================
