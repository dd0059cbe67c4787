------------------------ MODULE WorkerSessionProofs ------------------------
(***************************************************************************)
(* Proofs about WorkerSession, for any set of callers, any roles, any      *)
(* width of the request sequence and any child.                            *)
(*                                                                         *)
(* The argument is layered.  Control relates where a caller is to which    *)
(* method it runs and to the phase of its transaction goroutine; with the  *)
(* types it is inductive by itself.  OneInFlight is inductive relative to  *)
(* it.  The remaining invariants rest on both.  The second half shows that *)
(* answers belong to their requests, that a successful Shutdown is final,  *)
(* and that WorkerSession implements SerialSession.                        *)
(***************************************************************************)
EXTENDS WorkerSession, SequenceTheorems, TLAPS

KillChain == {"close_input", "kill", "reap", "stderr"}
Requests  == {"execute", "shutdown"}

\* Where a caller can be in which method, and when a transaction exists.
ControlOf(c) ==
    /\ pc[c] \in {"select", "recheck", "check", "exited", "request",
                       "await", "prefer", "drain"} => op[c] \in Requests
    /\ pc[c] \in {"acked", "closing", "exit_wait", "exit_stderr"} =>
            op[c] = "shutdown"
    /\ pc[c] = "started" => op[c] = "start"
    /\ pc[c] = "mark" => op[c] = "close"
    /\ pc[c] = "mark" => out[c].kind = "close_ok"
    /\ pc[c] \in KillChain =>
            /\ op[c] = "close" => out[c].kind = "close_ok"
            /\ op[c] = "start" => out[c].kind = "start_aborted"
            /\ op[c] # "none"
            /\ out[c].kind \in {"close_ok", "start_aborted", "transport",
                                     "protocol", "ctx_transact", "ctx_exit"}
    /\ pc[c] = "drain" => out[c].kind = "ctx_transact"
    /\ txn[c] = "none" => result[c] = Plain("none")
    /\ txn[c] = "done" =>
            /\ result[c].kind \in {"transport", "protocol", "completed", "remote", "acked"}
            /\ result[c].kind = "acked" => op[c] = "shutdown"
    /\ txn[c] = "writing" => stdin # <<>>
    /\ txn[c] # "none" <=>
            \/ pc[c] \in {"await", "prefer", "drain"}
            \/ pc[c] \in KillChain /\ out[c].kind = "ctx_transact"

Control == \A c \in Callers : ControlOf(c)

\* The session object: who has seen it, who keeps stateMu, and what a
\* poisoned session excludes.
SessionInv ==
    /\ handle => child.proc # "unstarted"
    /\ \A c \in Callers :
         /\ At(c, "started") => ~handle /\ child.proc # "unstarted"
         /\ ~At(c, "idle") /\ op[c] # "start" => handle
         /\ At(c, "exited") => mu = c /\ state = "open"
         /\ At(c, "request") => state # "poisoned"
    /\ \A c, d \in Callers : At(c, "started") /\ At(d, "started") => c = d

\* The request numbers: everything written is below the next number, a frame
\* that is still to be written is above everything written, and a frame being
\* written is the last one in the pipe.
NextNumber == IF sequence = 0 THEN SeqModulus ELSE sequence
IdInv ==
    /\ RequestIdsIncrease
    /\ \A i \in DOMAIN stdin : stdin[i].id < NextNumber
    /\ \A c \in Callers : txn[c] = "write" =>
         /\ 0 < reqId[c] /\ reqId[c] < NextNumber
         /\ \A i \in DOMAIN stdin : stdin[i].id < reqId[c]
    /\ \A c \in Callers : txn[c] = "writing" =>
         stdin[Len(stdin)].id = reqId[c]

\* How much of the child is gone at each point of killAndReap and Shutdown.
ReapInv ==
    /\ child.waitDone \/ child.stderrDone => child.proc = "exited"
    /\ \A c \in Callers :
         /\ pc[c] \in {"kill", "reap", "stderr", "drain", "exit_wait",
                            "exit_stderr"} => ~inputOpen
         /\ pc[c] \in {"stderr", "drain", "exit_stderr"} =>
                child.waitDone /\ ~outputOpen
         /\ At(c, "drain") => child.stderrDone
    /\ GiveUpReaps

-----------------------------------------------------------------------------
(* Types.                                                                  *)

\* The variables of the callers.
CallTypeOK ==
    /\ pc \in [Callers -> PCs]
    /\ op \in [Callers -> {"none", "start", "execute", "shutdown", "close"}]
    /\ cancelled \in [Callers -> BOOLEAN]
    /\ reqId \in [Callers -> Ids]
    /\ out \in [Callers -> Outcome]

\* An outcome without a response is an outcome.
LEMMA PlainType == \A k \in Kinds : Plain(k) \in Outcome
  BY ModulusAssumption DEF Plain, Outcome, Ids

\* The uint64 increment stays in range; it gives 0 after the last number.
LEMMA NextSequenceType ==
  ASSUME TypeOK
  PROVE  /\ NextSequence \in Ids
         /\ NextSequence = IF sequence + 1 = SeqModulus THEN 0 ELSE sequence + 1
  <1>1. ASSUME NEW s \in 0 .. SeqModulus - 1
        PROVE  (s + 1) % SeqModulus = IF s + 1 = SeqModulus THEN 0 ELSE s + 1
    BY ModulusAssumption
  <1>2. sequence \in 0 .. SeqModulus - 1
    BY DEF TypeOK, Ids
  <1>3. NextSequence = IF sequence + 1 = SeqModulus THEN 0 ELSE sequence + 1
    BY <1>1, <1>2 DEF NextSequence
  <1>4. NextSequence \in Ids
    BY <1>2, <1>3, ModulusAssumption DEF Ids
  <1> QED BY <1>3, <1>4

\* Whatever DecodeResponse makes of a response is an outcome.
LEMMA DecodeType ==
  ASSUME NEW reply \in Reply, NEW id \in Ids, NEW o
  PROVE  DecodeResponse(reply, id, o) \in Outcome
  <1>1. CASE reply.id = id /\ reply.kind \in Answers(o)
    <2>1. reply.kind \in {"completed", "error", "shutdown_ack"}
      BY <1>1 DEF Answers
    <2>2. Meaning[reply.kind] \in Kinds
      BY <2>1 DEF Meaning, Kinds
    <2> QED BY <1>1, <2>2 DEF DecodeResponse, Outcome
  <1>2. CASE ~(reply.id = id /\ reply.kind \in Answers(o))
    BY <1>2, PlainType DEF DecodeResponse, Kinds
  <1> QED BY <1>1, <1>2

\* The four ways a caller moves preserve its types.
LEMMA MoveType ==
  ASSUME TypeOK, NEW c \in Callers, NEW label \in PCs, NEW o \in Outcome,
         NEW m \in {"start", "execute", "shutdown", "close"},
         \/ Goto(c, label) \/ Return(c, o) \/ Decide(c, label, o)
         \/ Begin(c, m, label, o)
  PROVE  CallTypeOK'
  <1>1. 0 \in Ids
    BY ModulusAssumption DEF Ids
  <1>2. CASE Goto(c, label)
    BY <1>2 DEF TypeOK, CallTypeOK, Goto
  <1>3. CASE Return(c, o)
    BY <1>3 DEF TypeOK, CallTypeOK, Return, PCs
  <1>4. CASE Decide(c, label, o)
    BY <1>4 DEF TypeOK, CallTypeOK, Decide
  <1>5. CASE Begin(c, m, label, o)
    BY <1>1, <1>5 DEF TypeOK, CallTypeOK, Begin
  <1> QED BY <1>2, <1>3, <1>4, <1>5

\* Every step preserves the types; Control says what a frame is made of.
LEMMA TypeStep ==
  ASSUME TypeOK, Control, [Next]_vars
  PROVE  TypeOK'
  <1> USE PlainType
  <1>1. ASSUME NEW c \in Callers, StartCall(c) PROVE TypeOK'
    <2>1. CallTypeOK'
      BY <1>1, MoveType DEF StartCall, PCs, Kinds
    <2>2. child' \in Child
      BY <1>1 DEF StartCall, TypeOK, Child
    <2> QED
      BY <1>1, <2>1, <2>2 DEF StartCall, Release, TypeOK, CallTypeOK, lockVars,
           pipeVars, callVars, txnVars
  <1>2. ASSUME NEW c \in Callers, StartReturn(c) PROVE TypeOK'
    <2>1. CallTypeOK'
      BY <1>2, MoveType DEF StartReturn, PCs, Kinds, KillAndReap
    <2> QED
      BY <1>2, <2>1 DEF StartReturn, Release, TypeOK, CallTypeOK, lockVars,
           pipeVars, callVars, txnVars, MarkPoisoned
  <1>3. ASSUME NEW c \in Callers, NEW o \in {"execute", "shutdown"}, RequestCall(c, o)
        PROVE  TypeOK'
    <2>1. CallTypeOK'
      BY <1>3, MoveType DEF RequestCall, PCs, Kinds
    <2> QED
      BY <1>3, <2>1 DEF RequestCall, Release, TypeOK, CallTypeOK, lockVars,
           pipeVars, callVars, txnVars
  <1>4. ASSUME NEW c \in Callers, AcquireSelect(c) PROVE TypeOK'
    <2>1. CallTypeOK'
      BY <1>4, MoveType DEF AcquireSelect, PCs, Kinds
    <2> QED
      BY <1>4, <2>1 DEF AcquireSelect, Release, TypeOK, CallTypeOK, lockVars,
           pipeVars, callVars, txnVars
  <1>5. ASSUME NEW c \in Callers, AcquireRecheck(c) PROVE TypeOK'
    <2>1. CallTypeOK'
      BY <1>5, MoveType DEF AcquireRecheck, PCs, Kinds
    <2> QED
      BY <1>5, <2>1 DEF AcquireRecheck, Release, TypeOK, CallTypeOK, lockVars,
           pipeVars, callVars, txnVars
  <1>6. ASSUME NEW c \in Callers, CheckOpen(c) PROVE TypeOK'
    <2>1. state # "open" => Plain(state) \in Outcome
      BY PlainType DEF TypeOK, Kinds
    <2>2. CallTypeOK'
      BY <1>6, <2>1, MoveType DEF CheckOpen, PCs, Kinds
    <2> QED
      BY <1>6, <2>2 DEF CheckOpen, Release, TypeOK, CallTypeOK, lockVars,
           pipeVars, callVars, txnVars
  <1>7. ASSUME NEW c \in Callers, CheckFindsExit(c) PROVE TypeOK'
    <2>1. CallTypeOK'
      BY <1>7, MoveType DEF CheckFindsExit, PCs, Kinds
    <2> QED
      BY <1>7, <2>1 DEF CheckFindsExit, Release, TypeOK, CallTypeOK, lockVars,
           pipeVars, callVars, txnVars
  <1>8. ASSUME NEW c \in Callers, CheckExited(c) PROVE TypeOK'
    <2>1. CallTypeOK'
      BY <1>8, MoveType DEF CheckExited, PCs, Kinds
    <2> QED
      BY <1>8, <2>1 DEF CheckExited, Release, TypeOK, CallTypeOK, lockVars,
           pipeVars, callVars, txnVars
  <1>9. ASSUME NEW c \in Callers, RequestFails(c) PROVE TypeOK'
    <2>1. CallTypeOK'
      BY <1>9, MoveType DEF RequestFails, PCs, Kinds
    <2> QED
      BY <1>9, <2>1, NextSequenceType DEF RequestFails, Release, TypeOK,
           CallTypeOK, lockVars, pipeVars, callVars, txnVars
  <1>10. ASSUME NEW c \in Callers, SendRequest(c) PROVE TypeOK'
    BY <1>10, NextSequenceType DEF SendRequest, TypeOK, PCs, lockVars, pipeVars
  <1>11. ASSUME NEW c \in Callers, TxnWrite(c) PROVE TypeOK'
    <2>1. op[c] \in {"execute", "shutdown"}
      BY <1>11 DEF TxnWrite, ControlOf, Control, KillChain, Requests, TypeOK
    <2>2. \A part \in {"prefix", "payload"} :
          [id |-> reqId[c], op |-> op[c], part |-> part] \in Frame
      BY <2>1 DEF Frame, TypeOK
    <2>3. stdin' \in Seq(Frame)
      BY <1>11, <2>1, <2>2, AppendProperties DEF TxnWrite, TypeOK
    <2> QED
      BY <1>11, <2>3 DEF TxnWrite, TxnGoto, Release, TypeOK, CallTypeOK,
           lockVars, pipeVars, callVars, txnVars
  <1>12. ASSUME NEW c \in Callers, TxnWritten(c) PROVE TypeOK'
    <2>1. op[c] \in {"execute", "shutdown"} /\ Len(stdin) \in 1 .. Len(stdin)
      BY <1>12 DEF TxnWritten, ControlOf, Control, KillChain, Requests, TypeOK
    <2>2. [id |-> reqId[c], op |-> op[c], part |-> "line"] \in Frame
      BY <2>1 DEF Frame, TypeOK
    <2>3. stdin' \in Seq(Frame)
      BY <1>12, <2>1, <2>2, ExceptSeq DEF TxnWritten, TypeOK
    <2> QED
      BY <1>12, <2>3 DEF TxnWritten, TxnGoto, Release, TypeOK, CallTypeOK,
           lockVars, pipeVars, callVars, txnVars
  <1>13. ASSUME NEW c \in Callers, TxnWriteFails(c) PROVE TypeOK'
    BY <1>13 DEF TxnWriteFails, TxnDone, Release, TypeOK, CallTypeOK, lockVars,
         pipeVars, callVars, txnVars, Kinds
  <1>14. ASSUME NEW c \in Callers, TxnRead(c) PROVE TypeOK'
    <2>1. stdout \in Seq(Reply) /\ stdout # <<>> /\ reqId[c] \in Ids
      BY <1>14 DEF TxnRead, TypeOK
    <2>2. Head(stdout) \in Reply /\ Tail(stdout) \in Seq(Reply)
      BY <2>1, HeadTailProperties
    <2>3. DecodeResponse(Head(stdout), reqId[c], op[c]) \in Outcome
      BY <2>1, <2>2, DecodeType
    <2> QED
      BY <1>14, <2>2, <2>3 DEF TxnRead, TxnDone, Release, TypeOK, CallTypeOK,
           lockVars, pipeVars, callVars, txnVars
  <1>15. ASSUME NEW c \in Callers, TxnReadFails(c) PROVE TypeOK'
    BY <1>15 DEF TxnReadFails, TxnDone, Release, TypeOK, CallTypeOK, lockVars,
         pipeVars, callVars, txnVars, Kinds
  <1>16. ASSUME NEW c \in Callers, TakeResult(c) PROVE TypeOK'
    <2>1. result[c] \in Outcome
      BY <1>16 DEF TypeOK
    <2>2. CallTypeOK'
      BY <1>16, <2>1, MoveType DEF TakeResult, PCs, Kinds, KillAndReap
    <2> QED
      BY <1>16, <2>2 DEF TakeResult, Release, TypeOK, CallTypeOK, lockVars,
           pipeVars, callVars, txnVars, TxnReceived, MarkPoisoned, Kinds
  <1>17. ASSUME NEW c \in Callers, AwaitCancelled(c) PROVE TypeOK'
    <2>1. CallTypeOK'
      BY <1>17, MoveType DEF AwaitCancelled, PCs, Kinds
    <2> QED
      BY <1>17, <2>1 DEF AwaitCancelled, Release, TypeOK, CallTypeOK, lockVars,
           pipeVars, callVars, txnVars
  <1>18. ASSUME NEW c \in Callers, AbandonRequest(c) PROVE TypeOK'
    <2>1. CallTypeOK'
      BY <1>18, MoveType DEF AbandonRequest, PCs, Kinds, KillAndReap
    <2> QED
      BY <1>18, <2>1 DEF AbandonRequest, Release, TypeOK, CallTypeOK, lockVars,
           pipeVars, callVars, txnVars, MarkPoisoned
  <1>19. ASSUME NEW c \in Callers, DrainResult(c) PROVE TypeOK'
    <2>1. out[c] \in Outcome
      BY <1>19 DEF TypeOK
    <2>2. CallTypeOK'
      BY <1>19, <2>1, MoveType DEF DrainResult, PCs, Kinds
    <2> QED
      BY <1>19, <2>2 DEF DrainResult, Release, TypeOK, CallTypeOK, lockVars,
           pipeVars, callVars, txnVars, TxnReceived, Kinds
  <1>20. ASSUME NEW c \in Callers, CloseCall(c) PROVE TypeOK'
    <2>1. CallTypeOK'
      BY <1>20, MoveType DEF CloseCall, PCs, Kinds
    <2> QED
      BY <1>20, <2>1 DEF CloseCall, Release, TypeOK, CallTypeOK, lockVars,
           pipeVars, callVars, txnVars
  <1>21. ASSUME NEW c \in Callers, MarkClosed(c) PROVE TypeOK'
    <2>1. CallTypeOK'
      BY <1>21, MoveType DEF MarkClosed, PCs, Kinds
    <2> QED
      BY <1>21, <2>1 DEF MarkClosed, Release, TypeOK, CallTypeOK, lockVars,
           pipeVars, callVars, txnVars
  <1>22. ASSUME NEW c \in Callers, CloseInput(c) PROVE TypeOK'
    <2>1. CallTypeOK'
      BY <1>22, MoveType DEF CloseInput, PCs, Kinds
    <2> QED
      BY <1>22, <2>1 DEF CloseInput, Release, TypeOK, CallTypeOK, lockVars,
           pipeVars, callVars, txnVars
  <1>23. ASSUME NEW c \in Callers, ShutdownSelect(c) PROVE TypeOK'
    <2>1. CallTypeOK'
      BY <1>23, MoveType DEF ShutdownSelect, PCs, Kinds, KillAndReap
    <2> QED
      BY <1>23, <2>1 DEF ShutdownSelect, Release, TypeOK, CallTypeOK, lockVars,
           pipeVars, callVars, txnVars
  <1>24. ASSUME NEW c \in Callers, ShutdownReturn(c) PROVE TypeOK'
    <2>1. [kind |-> IF child.status = "ok" THEN "shutdown_ok" ELSE "exit_error",
          id |-> out[c].id] \in Outcome
      BY <1>24 DEF TypeOK, Outcome, Kinds
    <2>2. CallTypeOK'
      BY <1>24, <2>1, MoveType DEF ShutdownReturn, PCs, Kinds
    <2> QED
      BY <1>24, <2>2 DEF ShutdownReturn, Release, TypeOK, CallTypeOK, lockVars,
           pipeVars, callVars, txnVars
  <1>25. ASSUME NEW c \in Callers, KillChild(c) PROVE TypeOK'
    <2>1. CallTypeOK'
      BY <1>25, MoveType DEF KillChild, PCs, Kinds
    <2>2. child' \in Child
      BY <1>25 DEF KillChild, TypeOK, Child
    <2> QED
      BY <1>25, <2>1, <2>2 DEF KillChild, Release, TypeOK, CallTypeOK,
           lockVars, pipeVars, callVars, txnVars
  <1>26. ASSUME NEW c \in Callers, Reap(c) PROVE TypeOK'
    <2>1. CallTypeOK'
      BY <1>26, MoveType DEF Reap, PCs, Kinds
    <2> QED
      BY <1>26, <2>1 DEF Reap, Release, TypeOK, CallTypeOK, lockVars, pipeVars,
           callVars, txnVars
  <1>27. ASSUME NEW c \in Callers, ReapStderr(c) PROVE TypeOK'
    <2>1. out[c] \in Outcome
      BY <1>27 DEF TypeOK
    <2>2. CallTypeOK'
      BY <1>27, <2>1, MoveType DEF ReapStderr, PCs, Kinds
    <2> QED
      BY <1>27, <2>2 DEF ReapStderr, Release, TypeOK, CallTypeOK, lockVars,
           pipeVars, callVars, txnVars
  <1>28. ASSUME NEW c \in Callers, Cancel(c) PROVE TypeOK'
    BY <1>28 DEF Cancel, Release, TypeOK, CallTypeOK, lockVars, pipeVars,
         callVars, txnVars
  <1>29. CASE ChildKilled
    BY <1>29 DEF ChildKilled, ChildStep, Child, Release, TypeOK, CallTypeOK,
         lockVars, pipeVars, callVars, txnVars
  <1>30. CASE WaitReturns
    BY <1>30 DEF WaitReturns, ChildStep, Child, Release, TypeOK, CallTypeOK,
         lockVars, pipeVars, callVars, txnVars
  <1>31. CASE StderrDrained
    BY <1>31 DEF StderrDrained, ChildStep, Child, Release, TypeOK, CallTypeOK,
         lockVars, pipeVars, callVars, txnVars
  <1>32. ASSUME NEW r \in Reply, ChildWrites(r)
        PROVE  TypeOK'
    BY <1>32 DEF ChildWrites, Release, TypeOK, CallTypeOK, lockVars, pipeVars,
         callVars, txnVars
  <1>33. ASSUME NEW how \in {"ok", "fail"}, ChildExits(how)
        PROVE  TypeOK'
    BY <1>33 DEF ChildExits, ChildStep, Child, Release, TypeOK, CallTypeOK,
         lockVars, pipeVars, callVars, txnVars
  <1>34. ASSUME NEW c \in Callers, ChildHangsUp(c) PROVE TypeOK'
    BY <1>34 DEF ChildHangsUp, TxnDone, Release, TypeOK, CallTypeOK, lockVars,
         pipeVars, callVars, txnVars, Kinds
  <1>35. CASE UNCHANGED vars
    BY <1>35 DEF vars, Release, TypeOK, CallTypeOK, lockVars, pipeVars,
         callVars, txnVars
  <1> QED BY <1>1, <1>2, <1>3, <1>4, <1>5, <1>6, <1>7, <1>8, <1>9, <1>10,
             <1>11, <1>12, <1>13, <1>14, <1>15, <1>16, <1>17, <1>18, <1>19,
             <1>20, <1>21, <1>22, <1>23, <1>24, <1>25, <1>26, <1>27, <1>28,
             <1>29, <1>30, <1>31, <1>32, <1>33, <1>34, <1>35 DEF Next, SessionNext,
             Calls, CallerStep, TxnEnds, UntrustedChild

\* Every step preserves Control.
LEMMA ControlStep ==
  ASSUME TypeOK, Control, [Next]_vars
  PROVE  Control'
  <1> USE DEF At, Goto, Return, Decide, Begin, MarkPoisoned, KillAndReap,
             TxnDone, TxnGoto, TxnReceived, ChildStep, Plain, lockVars,
             pipeVars, callVars, txnVars, ControlOf, Control, KillChain,
             Requests, TypeOK
  <1>1. ASSUME NEW c \in Callers, StartCall(c) PROVE Control'
    BY <1>1 DEF StartCall
  <1>2. ASSUME NEW c \in Callers, StartReturn(c) PROVE Control'
    BY <1>2 DEF StartReturn
  <1>3. ASSUME NEW c \in Callers, NEW o \in {"execute", "shutdown"}, RequestCall(c, o)
        PROVE  Control'
    BY <1>3, SMTT(30) DEF RequestCall
  <1>4. ASSUME NEW c \in Callers, AcquireSelect(c) PROVE Control'
    BY <1>4 DEF AcquireSelect
  <1>5. ASSUME NEW c \in Callers, AcquireRecheck(c) PROVE Control'
    BY <1>5 DEF AcquireRecheck
  <1>6. ASSUME NEW c \in Callers, CheckOpen(c) PROVE Control'
    BY <1>6 DEF CheckOpen
  <1>7. ASSUME NEW c \in Callers, CheckFindsExit(c) PROVE Control'
    BY <1>7 DEF CheckFindsExit
  <1>8. ASSUME NEW c \in Callers, CheckExited(c) PROVE Control'
    BY <1>8 DEF CheckExited
  <1>9. ASSUME NEW c \in Callers, RequestFails(c) PROVE Control'
    BY <1>9 DEF RequestFails
  <1>10. ASSUME NEW c \in Callers, SendRequest(c) PROVE Control'
    BY <1>10 DEF SendRequest
  <1>11. ASSUME NEW c \in Callers, TxnWrite(c) PROVE Control'
    BY <1>11 DEF TxnWrite
  <1>12. ASSUME NEW c \in Callers, TxnWritten(c) PROVE Control'
    BY <1>12 DEF TxnWritten
  <1>13. ASSUME NEW c \in Callers, TxnWriteFails(c) PROVE Control'
    BY <1>13 DEF TxnWriteFails
  <1>14. ASSUME NEW c \in Callers, TxnRead(c) PROVE Control'
    BY <1>14 DEF TxnRead, DecodeResponse, Answers, Meaning, Reply
  <1>15. ASSUME NEW c \in Callers, TxnReadFails(c) PROVE Control'
    BY <1>15 DEF TxnReadFails
  <1>16. ASSUME NEW c \in Callers, TakeResult(c) PROVE Control'
    BY <1>16 DEF TakeResult
  <1>17. ASSUME NEW c \in Callers, AwaitCancelled(c) PROVE Control'
    BY <1>17 DEF AwaitCancelled
  <1>18. ASSUME NEW c \in Callers, AbandonRequest(c) PROVE Control'
    BY <1>18 DEF AbandonRequest
  <1>19. ASSUME NEW c \in Callers, DrainResult(c) PROVE Control'
    BY <1>19 DEF DrainResult
  <1>20. ASSUME NEW c \in Callers, CloseCall(c) PROVE Control'
    BY <1>20 DEF CloseCall
  <1>21. ASSUME NEW c \in Callers, MarkClosed(c) PROVE Control'
    BY <1>21 DEF MarkClosed
  <1>22. ASSUME NEW c \in Callers, CloseInput(c) PROVE Control'
    BY <1>22 DEF CloseInput
  <1>23. ASSUME NEW c \in Callers, ShutdownSelect(c) PROVE Control'
    BY <1>23 DEF ShutdownSelect
  <1>24. ASSUME NEW c \in Callers, ShutdownReturn(c) PROVE Control'
    BY <1>24 DEF ShutdownReturn
  <1>25. ASSUME NEW c \in Callers, KillChild(c) PROVE Control'
    BY <1>25 DEF KillChild
  <1>26. ASSUME NEW c \in Callers, Reap(c) PROVE Control'
    BY <1>26 DEF Reap
  <1>27. ASSUME NEW c \in Callers, ReapStderr(c) PROVE Control'
    BY <1>27 DEF ReapStderr
  <1>28. ASSUME NEW c \in Callers, Cancel(c) PROVE Control'
    BY <1>28 DEF Cancel
  <1>29. CASE ChildKilled
    BY <1>29 DEF ChildKilled
  <1>30. CASE WaitReturns
    BY <1>30 DEF WaitReturns
  <1>31. CASE StderrDrained
    BY <1>31 DEF StderrDrained
  <1>32. ASSUME NEW r \in Reply, ChildWrites(r)
        PROVE  Control'
    BY <1>32 DEF ChildWrites
  <1>33. ASSUME NEW how \in {"ok", "fail"}, ChildExits(how)
        PROVE  Control'
    BY <1>33 DEF ChildExits
  <1>34. ASSUME NEW c \in Callers, ChildHangsUp(c) PROVE Control'
    BY <1>34 DEF ChildHangsUp
  <1>35. CASE UNCHANGED vars
    BY <1>35 DEF vars
  <1> HIDE DEF Control, TypeOK
  <1> QED BY <1>1, <1>2, <1>3, <1>4, <1>5, <1>6, <1>7, <1>8, <1>9, <1>10,
             <1>11, <1>12, <1>13, <1>14, <1>15, <1>16, <1>17, <1>18, <1>19,
             <1>20, <1>21, <1>22, <1>23, <1>24, <1>25, <1>26, <1>27, <1>28,
             <1>29, <1>30, <1>31, <1>32, <1>33, <1>34, <1>35 DEF Next, SessionNext,
             Calls, CallerStep, TxnEnds, UntrustedChild

\* Initially no caller is in a call and nothing was written.
LEMMA InitTypes == Init => TypeOK /\ Control
  <1> SUFFICES ASSUME Init PROVE TypeOK /\ Control
    OBVIOUS
  <1>1. 1 \in Ids /\ 0 \in Ids
    BY ModulusAssumption DEF Ids
  <1>2. TypeOK
    <2>1. Plain("none") \in Outcome
      BY PlainType DEF Kinds
    <2>2. child \in Child
      BY DEF Init, Child
    <2>3. stdin \in Seq(Frame) /\ stdout \in Seq(Reply)
      BY DEF Init
    <2> QED BY <1>1, <2>1, <2>2, <2>3 DEF Init, TypeOK, PCs
  <1>3. Control
    BY DEF Init, Control, ControlOf, KillChain, Requests
  <1> QED BY <1>2, <1>3

\* Type correctness: whatever the callers and the child do, every variable of
\* the session, its pipes and its goroutines keeps its type.
THEOREM TypeCorrect == Spec => [](TypeOK /\ Control)
  <1>1. TypeOK /\ Control /\ [Next]_vars => (TypeOK /\ Control)'
    BY TypeStep, ControlStep
  <1> QED BY InitTypes, <1>1, PTL DEF Spec

\* No call returns before its transaction goroutine has ended.
THEOREM GoroutinesEnd == Spec => []NoGoroutineOutlivesItsCall
  <1>1. TypeOK /\ Control => NoGoroutineOutlivesItsCall
    BY DEF Control, ControlOf, KillChain, NoGoroutineOutlivesItsCall, At
  <1> QED BY <1>1, TypeCorrect, PTL

-----------------------------------------------------------------------------
(* Serialisation.                                                          *)

\* Every step preserves OneInFlight: who takes the token empties the slot, who
\* returns without it never had it.
LEMMA TokenStep ==
  ASSUME TypeOK, Control, OneInFlight, [Next]_vars
  PROVE  OneInFlight'
  <1> USE DEF At, Goto, Return, Decide, Begin, MarkPoisoned, KillAndReap,
             TxnDone, TxnGoto, TxnReceived, ChildStep, Plain, lockVars,
             pipeVars, callVars, txnVars, Release, Holding, OneInFlight,
             ControlOf, Control, KillChain, Requests, TypeOK
  <1>1. ASSUME NEW c \in Callers, StartCall(c) PROVE OneInFlight'
    BY <1>1, SMTT(30) DEF StartCall
  <1>2. ASSUME NEW c \in Callers, StartReturn(c) PROVE OneInFlight'
    BY <1>2 DEF StartReturn
  <1>3. ASSUME NEW c \in Callers, NEW o \in {"execute", "shutdown"}, RequestCall(c, o)
        PROVE  OneInFlight'
    <2>1. CASE Begin(c, o, "idle", Plain("ctx"))
      BY <1>3, <2>1 DEF RequestCall
    <2>2. CASE Begin(c, o, "select", Plain("none"))
      BY <1>3, <2>2 DEF RequestCall
    <2> QED BY <1>3, <2>1, <2>2 DEF RequestCall
  <1>4. ASSUME NEW c \in Callers, AcquireSelect(c) PROVE OneInFlight'
    BY <1>4 DEF AcquireSelect
  <1>5. ASSUME NEW c \in Callers, AcquireRecheck(c) PROVE OneInFlight'
    <2>1. CASE cancelled[c]
      BY <1>5, <2>1 DEF AcquireRecheck
    <2>2. CASE ~cancelled[c]
      BY <1>5, <2>2 DEF AcquireRecheck
    <2> QED BY <1>5, <2>1, <2>2 DEF AcquireRecheck
  <1>6. ASSUME NEW c \in Callers, CheckOpen(c) PROVE OneInFlight'
    <2>1. CASE state = "open"
      BY <1>6, <2>1 DEF CheckOpen
    <2>2. CASE state # "open"
      BY <1>6, <2>2, SMTT(30) DEF CheckOpen
    <2> QED BY <1>6, <2>1, <2>2 DEF CheckOpen
  <1>7. ASSUME NEW c \in Callers, CheckFindsExit(c) PROVE OneInFlight'
    BY <1>7 DEF CheckFindsExit
  <1>8. ASSUME NEW c \in Callers, CheckExited(c) PROVE OneInFlight'
    BY <1>8 DEF CheckExited
  <1>9. ASSUME NEW c \in Callers, RequestFails(c) PROVE OneInFlight'
    <2>1. CASE Exhausted
      BY <1>9, <2>1 DEF RequestFails
    <2>2. CASE ~Exhausted
      BY <1>9, <2>2 DEF RequestFails
    <2> QED BY <1>9, <2>1, <2>2 DEF RequestFails
  <1>10. ASSUME NEW c \in Callers, SendRequest(c) PROVE OneInFlight'
    BY <1>10 DEF SendRequest
  <1>11. ASSUME NEW c \in Callers, TxnWrite(c) PROVE OneInFlight'
    BY <1>11 DEF TxnWrite
  <1>12. ASSUME NEW c \in Callers, TxnWritten(c) PROVE OneInFlight'
    BY <1>12 DEF TxnWritten
  <1>13. ASSUME NEW c \in Callers, TxnWriteFails(c) PROVE OneInFlight'
    BY <1>13 DEF TxnWriteFails
  <1>14. ASSUME NEW c \in Callers, TxnRead(c) PROVE OneInFlight'
    BY <1>14 DEF TxnRead
  <1>15. ASSUME NEW c \in Callers, TxnReadFails(c) PROVE OneInFlight'
    BY <1>15 DEF TxnReadFails
  <1>16. ASSUME NEW c \in Callers, TakeResult(c) PROVE OneInFlight'
    BY <1>16 DEF TakeResult
  <1>17. ASSUME NEW c \in Callers, AwaitCancelled(c) PROVE OneInFlight'
    BY <1>17 DEF AwaitCancelled
  <1>18. ASSUME NEW c \in Callers, AbandonRequest(c) PROVE OneInFlight'
    BY <1>18 DEF AbandonRequest
  <1>19. ASSUME NEW c \in Callers, DrainResult(c) PROVE OneInFlight'
    BY <1>19 DEF DrainResult
  <1>20. ASSUME NEW c \in Callers, CloseCall(c) PROVE OneInFlight'
    BY <1>20 DEF CloseCall
  <1>21. ASSUME NEW c \in Callers, MarkClosed(c) PROVE OneInFlight'
    BY <1>21 DEF MarkClosed
  <1>22. ASSUME NEW c \in Callers, CloseInput(c) PROVE OneInFlight'
    BY <1>22 DEF CloseInput
  <1>23. ASSUME NEW c \in Callers, ShutdownSelect(c) PROVE OneInFlight'
    <2>1. CASE Goto(c, "exit_stderr")
      BY <1>23, <2>1 DEF ShutdownSelect
    <2>2. CASE KillAndReap(c, Plain("ctx_exit"))
      BY <1>23, <2>2 DEF ShutdownSelect
    <2> QED BY <1>23, <2>1, <2>2 DEF ShutdownSelect
  <1>24. ASSUME NEW c \in Callers, ShutdownReturn(c) PROVE OneInFlight'
    BY <1>24 DEF ShutdownReturn
  <1>25. ASSUME NEW c \in Callers, KillChild(c) PROVE OneInFlight'
    BY <1>25 DEF KillChild
  <1>26. ASSUME NEW c \in Callers, Reap(c) PROVE OneInFlight'
    BY <1>26 DEF Reap
  <1>27. ASSUME NEW c \in Callers, ReapStderr(c) PROVE OneInFlight'
    BY <1>27 DEF ReapStderr
  <1>28. ASSUME NEW c \in Callers, Cancel(c) PROVE OneInFlight'
    BY <1>28 DEF Cancel
  <1>29. CASE ChildKilled
    BY <1>29 DEF ChildKilled
  <1>30. CASE WaitReturns
    BY <1>30 DEF WaitReturns
  <1>31. CASE StderrDrained
    BY <1>31 DEF StderrDrained
  <1>32. ASSUME NEW r \in Reply, ChildWrites(r)
        PROVE  OneInFlight'
    BY <1>32 DEF ChildWrites
  <1>33. ASSUME NEW how \in {"ok", "fail"}, ChildExits(how)
        PROVE  OneInFlight'
    BY <1>33 DEF ChildExits
  <1>34. ASSUME NEW c \in Callers, ChildHangsUp(c) PROVE OneInFlight'
    BY <1>34 DEF ChildHangsUp
  <1>35. CASE UNCHANGED vars
    BY <1>35 DEF vars
  <1> HIDE DEF At, Goto, Return, Decide, Begin, MarkPoisoned, KillAndReap,
             TxnDone, TxnGoto, TxnReceived, ChildStep, Plain, lockVars,
             pipeVars, callVars, txnVars, Release, Holding, OneInFlight,
             ControlOf, Control, KillChain, Requests, TypeOK
  <1> QED BY <1>1, <1>2, <1>3, <1>4, <1>5, <1>6, <1>7, <1>8, <1>9, <1>10,
             <1>11, <1>12, <1>13, <1>14, <1>15, <1>16, <1>17, <1>18, <1>19,
             <1>20, <1>21, <1>22, <1>23, <1>24, <1>25, <1>26, <1>27, <1>28,
             <1>29, <1>30, <1>31, <1>32, <1>33, <1>34, <1>35 DEF Next, SessionNext,
             Calls, CallerStep, TxnEnds, UntrustedChild

\* Serialisation: for any number of callers at most one holds the token, the
\* pipes belong to its transaction alone, and no path loses the token.
THEOREM Serialised == Spec => []OneInFlight
  <1>1. Init => OneInFlight
    BY DEF Init, OneInFlight, Holding
  <1>2. TypeOK /\ Control /\ OneInFlight /\ [Next]_vars => OneInFlight'
    BY TokenStep
  <1> QED BY <1>1, <1>2, TypeCorrect, PTL DEF Spec

-----------------------------------------------------------------------------
(* The state of the session.                                               *)

\* Every step preserves SessionInv.
LEMMA SessionStep ==
  ASSUME TypeOK, Control, OneInFlight, SessionInv, [Next]_vars
  PROVE  SessionInv'
  <1> USE CallersAssumption DEF At, Goto, Return, Decide, Begin, MarkPoisoned,
             KillAndReap, TxnDone, TxnGoto, TxnReceived, ChildStep, Plain,
             lockVars, pipeVars, callVars, txnVars, Release, SessionInv,
             Holding, OneInFlight, Child, ControlOf, Control, KillChain,
             Requests, TypeOK
  <1>1. ASSUME NEW c \in Callers, StartCall(c) PROVE SessionInv'
    BY <1>1 DEF StartCall
  <1>2. ASSUME NEW c \in Callers, StartReturn(c) PROVE SessionInv'
    <2>1. CASE cancelled[c]
      BY <1>2, <2>1 DEF StartReturn
    <2>2. CASE ~cancelled[c]
      BY <1>2, <2>2 DEF StartReturn
    <2> QED BY <1>2, <2>1, <2>2 DEF StartReturn
  <1>3. ASSUME NEW c \in Callers, NEW o \in {"execute", "shutdown"}, RequestCall(c, o)
        PROVE  SessionInv'
    BY <1>3 DEF RequestCall
  <1>4. ASSUME NEW c \in Callers, AcquireSelect(c) PROVE SessionInv'
    BY <1>4, SMTT(30) DEF AcquireSelect
  <1>5. ASSUME NEW c \in Callers, AcquireRecheck(c) PROVE SessionInv'
    BY <1>5 DEF AcquireRecheck
  <1>6. ASSUME NEW c \in Callers, CheckOpen(c) PROVE SessionInv'
    BY <1>6 DEF CheckOpen
  <1>7. ASSUME NEW c \in Callers, CheckFindsExit(c) PROVE SessionInv'
    BY <1>7 DEF CheckFindsExit
  <1>8. ASSUME NEW c \in Callers, CheckExited(c) PROVE SessionInv'
    BY <1>8 DEF CheckExited
  <1>9. ASSUME NEW c \in Callers, RequestFails(c) PROVE SessionInv'
    BY <1>9 DEF RequestFails
  <1>10. ASSUME NEW c \in Callers, SendRequest(c) PROVE SessionInv'
    BY <1>10 DEF SendRequest
  <1>11. ASSUME NEW c \in Callers, TxnWrite(c) PROVE SessionInv'
    BY <1>11 DEF TxnWrite
  <1>12. ASSUME NEW c \in Callers, TxnWritten(c) PROVE SessionInv'
    BY <1>12 DEF TxnWritten
  <1>13. ASSUME NEW c \in Callers, TxnWriteFails(c) PROVE SessionInv'
    BY <1>13 DEF TxnWriteFails
  <1>14. ASSUME NEW c \in Callers, TxnRead(c) PROVE SessionInv'
    BY <1>14 DEF TxnRead
  <1>15. ASSUME NEW c \in Callers, TxnReadFails(c) PROVE SessionInv'
    BY <1>15 DEF TxnReadFails
  <1>16. ASSUME NEW c \in Callers, TakeResult(c) PROVE SessionInv'
    BY <1>16, SMTT(30) DEF TakeResult
  <1>17. ASSUME NEW c \in Callers, AwaitCancelled(c) PROVE SessionInv'
    BY <1>17 DEF AwaitCancelled
  <1>18. ASSUME NEW c \in Callers, AbandonRequest(c) PROVE SessionInv'
    BY <1>18 DEF AbandonRequest
  <1>19. ASSUME NEW c \in Callers, DrainResult(c) PROVE SessionInv'
    BY <1>19 DEF DrainResult
  <1>20. ASSUME NEW c \in Callers, CloseCall(c) PROVE SessionInv'
    BY <1>20 DEF CloseCall
  <1>21. ASSUME NEW c \in Callers, MarkClosed(c) PROVE SessionInv'
    BY <1>21 DEF MarkClosed
  <1>22. ASSUME NEW c \in Callers, CloseInput(c) PROVE SessionInv'
    BY <1>22 DEF CloseInput
  <1>23. ASSUME NEW c \in Callers, ShutdownSelect(c) PROVE SessionInv'
    BY <1>23 DEF ShutdownSelect
  <1>24. ASSUME NEW c \in Callers, ShutdownReturn(c) PROVE SessionInv'
    BY <1>24 DEF ShutdownReturn
  <1>25. ASSUME NEW c \in Callers, KillChild(c) PROVE SessionInv'
    BY <1>25 DEF KillChild
  <1>26. ASSUME NEW c \in Callers, Reap(c) PROVE SessionInv'
    BY <1>26 DEF Reap
  <1>27. ASSUME NEW c \in Callers, ReapStderr(c) PROVE SessionInv'
    BY <1>27 DEF ReapStderr
  <1>28. ASSUME NEW c \in Callers, Cancel(c) PROVE SessionInv'
    BY <1>28 DEF Cancel
  <1>29. CASE ChildKilled
    BY <1>29 DEF ChildKilled
  <1>30. CASE WaitReturns
    BY <1>30 DEF WaitReturns
  <1>31. CASE StderrDrained
    BY <1>31 DEF StderrDrained
  <1>32. ASSUME NEW r \in Reply, ChildWrites(r)
        PROVE  SessionInv'
    BY <1>32 DEF ChildWrites
  <1>33. ASSUME NEW how \in {"ok", "fail"}, ChildExits(how)
        PROVE  SessionInv'
    BY <1>33 DEF ChildExits
  <1>34. ASSUME NEW c \in Callers, ChildHangsUp(c) PROVE SessionInv'
    BY <1>34 DEF ChildHangsUp
  <1>35. CASE UNCHANGED vars
    BY <1>35 DEF vars
  <1> QED BY <1>1, <1>2, <1>3, <1>4, <1>5, <1>6, <1>7, <1>8, <1>9, <1>10,
             <1>11, <1>12, <1>13, <1>14, <1>15, <1>16, <1>17, <1>18, <1>19,
             <1>20, <1>21, <1>22, <1>23, <1>24, <1>25, <1>26, <1>27, <1>28,
             <1>29, <1>30, <1>31, <1>32, <1>33, <1>34, <1>35 DEF Next, SessionNext,
             Calls, CallerStep, TxnEnds, UntrustedChild

\* In a poisoned session nobody is about to issue a number.
LEMMA SessionInvariant == Spec => []SessionInv
  <1>1. Init => SessionInv
    BY DEF Init, SessionInv, At
  <1>2. /\ TypeOK /\ Control /\ OneInFlight /\ SessionInv
        /\ [Next]_vars
        => SessionInv'
    BY SessionStep
  <1> QED BY <1>1, <1>2, TypeCorrect, Serialised, PTL DEF Spec

-----------------------------------------------------------------------------
(* Giving up.                                                              *)

\* Every step preserves ReapInv: pipes stay closed and a reaped child stays
\* reaped, so only the steps of killAndReap and Shutdown matter.
LEMMA ReapStep ==
  ASSUME TypeOK, Control, ReapInv, [Next]_vars
  PROVE  ReapInv'
  <1> USE DEF At, Goto, Return, Decide, Begin, MarkPoisoned, KillAndReap,
             TxnDone, TxnGoto, TxnReceived, ChildStep, Plain, lockVars,
             pipeVars, callVars, txnVars, Release, ReapInv, GiveUpReaps, Child,
             ControlOf, Control, KillChain, Requests, TypeOK
  <1>1. ASSUME NEW c \in Callers, StartCall(c) PROVE ReapInv'
    <2>1. CASE /\ Begin(c, "start", "started", Plain("none"))
               /\ child' = [child EXCEPT !.proc = "running"]
      <3>1. ~child.waitDone /\ ~child.stderrDone
        BY <1>1 DEF StartCall
      <3>2. ~child'.waitDone /\ ~child'.stderrDone
        BY <2>1, <3>1
      <3> QED BY <1>1, <2>1, <3>1, <3>2 DEF StartCall
    <2>2. CASE Begin(c, "start", "idle", Plain("ctx"))
      BY <1>1, <2>2 DEF StartCall
    <2>3. CASE Begin(c, "start", "idle", Plain("start_failed"))
      BY <1>1, <2>3 DEF StartCall
    <2> QED BY <1>1, <2>1, <2>2, <2>3 DEF StartCall
  <1>2. ASSUME NEW c \in Callers, StartReturn(c) PROVE ReapInv'
    <2>1. CASE cancelled[c]
      BY <1>2, <2>1, SMTT(30) DEF StartReturn
    <2>2. CASE ~cancelled[c]
      BY <1>2, <2>2 DEF StartReturn
    <2> QED BY <1>2, <2>1, <2>2 DEF StartReturn
  <1>3. ASSUME NEW c \in Callers, NEW o \in {"execute", "shutdown"}, RequestCall(c, o)
        PROVE  ReapInv'
    <2>1. CASE Begin(c, o, "idle", Plain("ctx"))
      BY <1>3, <2>1 DEF RequestCall
    <2>2. CASE Begin(c, o, "select", Plain("none"))
      BY <1>3, <2>2 DEF RequestCall
    <2> QED BY <1>3, <2>1, <2>2 DEF RequestCall
  <1>4. ASSUME NEW c \in Callers, AcquireSelect(c) PROVE ReapInv'
    BY <1>4 DEF AcquireSelect
  <1>5. ASSUME NEW c \in Callers, AcquireRecheck(c) PROVE ReapInv'
    BY <1>5 DEF AcquireRecheck
  <1>6. ASSUME NEW c \in Callers, CheckOpen(c) PROVE ReapInv'
    BY <1>6 DEF CheckOpen
  <1>7. ASSUME NEW c \in Callers, CheckFindsExit(c) PROVE ReapInv'
    BY <1>7 DEF CheckFindsExit
  <1>8. ASSUME NEW c \in Callers, CheckExited(c) PROVE ReapInv'
    BY <1>8 DEF CheckExited
  <1>9. ASSUME NEW c \in Callers, RequestFails(c) PROVE ReapInv'
    <2>1. CASE Exhausted
      BY <1>9, <2>1 DEF RequestFails
    <2>2. CASE ~Exhausted
      BY <1>9, <2>2 DEF RequestFails
    <2> QED BY <1>9, <2>1, <2>2 DEF RequestFails
  <1>10. ASSUME NEW c \in Callers, SendRequest(c) PROVE ReapInv'
    BY <1>10 DEF SendRequest
  <1>11. ASSUME NEW c \in Callers, TxnWrite(c) PROVE ReapInv'
    BY <1>11 DEF TxnWrite
  <1>12. ASSUME NEW c \in Callers, TxnWritten(c) PROVE ReapInv'
    BY <1>12 DEF TxnWritten
  <1>13. ASSUME NEW c \in Callers, TxnWriteFails(c) PROVE ReapInv'
    BY <1>13 DEF TxnWriteFails
  <1>14. ASSUME NEW c \in Callers, TxnRead(c) PROVE ReapInv'
    BY <1>14 DEF TxnRead
  <1>15. ASSUME NEW c \in Callers, TxnReadFails(c) PROVE ReapInv'
    BY <1>15 DEF TxnReadFails
  <1>16. ASSUME NEW c \in Callers, TakeResult(c) PROVE ReapInv'
    BY <1>16 DEF TakeResult
  <1>17. ASSUME NEW c \in Callers, AwaitCancelled(c) PROVE ReapInv'
    BY <1>17 DEF AwaitCancelled
  <1>18. ASSUME NEW c \in Callers, AbandonRequest(c) PROVE ReapInv'
    BY <1>18 DEF AbandonRequest
  <1>19. ASSUME NEW c \in Callers, DrainResult(c) PROVE ReapInv'
    BY <1>19 DEF DrainResult
  <1>20. ASSUME NEW c \in Callers, CloseCall(c) PROVE ReapInv'
    BY <1>20 DEF CloseCall
  <1>21. ASSUME NEW c \in Callers, MarkClosed(c) PROVE ReapInv'
    BY <1>21 DEF MarkClosed
  <1>22. ASSUME NEW c \in Callers, CloseInput(c) PROVE ReapInv'
    BY <1>22 DEF CloseInput
  <1>23. ASSUME NEW c \in Callers, ShutdownSelect(c) PROVE ReapInv'
    BY <1>23 DEF ShutdownSelect
  <1>24. ASSUME NEW c \in Callers, ShutdownReturn(c) PROVE ReapInv'
    BY <1>24 DEF ShutdownReturn
  <1>25. ASSUME NEW c \in Callers, KillChild(c) PROVE ReapInv'
    BY <1>25 DEF KillChild
  <1>26. ASSUME NEW c \in Callers, Reap(c) PROVE ReapInv'
    BY <1>26 DEF Reap
  <1>27. ASSUME NEW c \in Callers, ReapStderr(c) PROVE ReapInv'
    BY <1>27 DEF ReapStderr
  <1>28. ASSUME NEW c \in Callers, Cancel(c) PROVE ReapInv'
    BY <1>28 DEF Cancel
  <1>29. CASE ChildKilled
    BY <1>29 DEF ChildKilled
  <1>30. CASE WaitReturns
    BY <1>30 DEF WaitReturns
  <1>31. CASE StderrDrained
    BY <1>31 DEF StderrDrained
  <1>32. ASSUME NEW r \in Reply, ChildWrites(r)
        PROVE  ReapInv'
    BY <1>32 DEF ChildWrites
  <1>33. ASSUME NEW how \in {"ok", "fail"}, ChildExits(how)
        PROVE  ReapInv'
    BY <1>33 DEF ChildExits
  <1>34. ASSUME NEW c \in Callers, ChildHangsUp(c) PROVE ReapInv'
    BY <1>34 DEF ChildHangsUp
  <1>35. CASE UNCHANGED vars
    BY <1>35 DEF vars
  <1> HIDE DEF At, Goto, Return, Decide, Begin, MarkPoisoned, KillAndReap,
             TxnDone, TxnGoto, TxnReceived, ChildStep, Plain, lockVars,
             pipeVars, callVars, txnVars, Release, ReapInv, GiveUpReaps, Child,
             ControlOf, Control, KillChain, Requests, TypeOK
  <1> QED BY <1>1, <1>2, <1>3, <1>4, <1>5, <1>6, <1>7, <1>8, <1>9, <1>10,
             <1>11, <1>12, <1>13, <1>14, <1>15, <1>16, <1>17, <1>18, <1>19,
             <1>20, <1>21, <1>22, <1>23, <1>24, <1>25, <1>26, <1>27, <1>28,
             <1>29, <1>30, <1>31, <1>32, <1>33, <1>34, <1>35 DEF Next, SessionNext,
             Calls, CallerStep, TxnEnds, UntrustedChild

\* Giving up reaps: the child, the pipes and the stderr goroutine are gone
\* when a call that gave up on the child returns.
THEOREM GivingUpReaps == Spec => []GiveUpReaps
  <1>1. Init => ReapInv
    BY DEF Init, ReapInv, GiveUpReaps, At, Plain
  <1>2. TypeOK /\ Control /\ ReapInv /\ [Next]_vars => ReapInv'
    BY ReapStep
  <1>3. ReapInv => GiveUpReaps
    BY DEF ReapInv
  <1> QED BY <1>1, <1>2, <1>3, TypeCorrect, PTL DEF Spec

-----------------------------------------------------------------------------
(* What a step may never do.                                               *)

\* Only these steps touch the state of the session or the request number.
Issues(c) == RequestFails(c) \/ SendRequest(c)
Stops(c)  == StartReturn(c) \/ CheckExited(c) \/ TakeResult(c)
             \/ AbandonRequest(c) \/ MarkClosed(c)

\* Every other step leaves both alone.
LEMMA StateStep ==
  ASSUME [Next]_vars
  PROVE  \/ \E c \in Callers : Issues(c) \/ Stops(c)
         \/ UNCHANGED <<state, sequence>>
  <1>1. ASSUME NEW c \in Callers, Calls(c) PROVE UNCHANGED <<state, sequence>>
    BY <1>1 DEF Calls, StartCall, RequestCall, CloseCall, Cancel
  <1>2. ASSUME NEW c \in Callers, CallerStep(c)
        PROVE  Issues(c) \/ Stops(c) \/ UNCHANGED <<state, sequence>>
    BY <1>2 DEF CallerStep, Issues, Stops, AcquireSelect, AcquireRecheck,
         CheckOpen, CheckFindsExit, AwaitCancelled, DrainResult, CloseInput,
         ShutdownSelect, ShutdownReturn, KillChild, Reap, ReapStderr
  <1>3. ASSUME NEW c \in Callers, TxnWrite(c) \/ TxnWritten(c) \/ TxnEnds(c)
        PROVE  UNCHANGED <<state, sequence>>
    BY <1>3 DEF TxnWrite, TxnWritten, TxnEnds, TxnWriteFails, TxnRead, TxnReadFails
  <1>4. ChildKilled \/ WaitReturns \/ StderrDrained => UNCHANGED <<state, sequence>>
    BY DEF ChildKilled, WaitReturns, StderrDrained, ChildStep
  <1>5. UntrustedChild => UNCHANGED <<state, sequence>>
    BY DEF UntrustedChild, ChildWrites, ChildExits, ChildHangsUp, ChildStep
  <1>6. UNCHANGED vars => UNCHANGED <<state, sequence>>
    BY DEF vars
  <1> QED BY <1>1, <1>2, <1>3, <1>4, <1>5, <1>6 DEF Next, SessionNext

\* A closed session stays closed, a poisoned one is never open again and
\* issues no further request number.
THEOREM StaysStopped == Spec => NeverReopened
  <1>1. ASSUME SessionInv, [Next]_vars
        PROVE  /\ state = "closed" => state' = "closed"
               /\ state = "poisoned" => state' # "open" /\ sequence' = sequence
    <2>1. ASSUME NEW c \in Callers, Issues(c)
          PROVE  UNCHANGED state /\ state # "poisoned"
      BY <1>1, <2>1 DEF Issues, RequestFails, SendRequest, SessionInv, At
    <2>2. ASSUME NEW c \in Callers, Stops(c)
          PROVE  /\ UNCHANGED sequence
                 /\ state = "closed" => state' = "closed"
                 /\ state = "poisoned" => state' # "open"
      BY <1>1, <2>2 DEF Stops, StartReturn, CheckExited, TakeResult,
           AbandonRequest, MarkClosed, MarkPoisoned, SessionInv, At
    <2> QED BY <1>1, <2>1, <2>2, StateStep
  <1>2. SessionInv /\ [Next]_vars =>
          [ /\ state = "closed" => state' = "closed"
            /\ state = "poisoned" => state' # "open" /\ sequence' = sequence ]_vars
    BY <1>1
  <1> QED BY <1>2, SessionInvariant, PTL DEF Spec, NeverReopened

\* What DeliveredAnswerKept says of one caller and one step.
Kept(c) ==
    /\ reqId'[c] = reqId[c]
    /\ \/ Delivered(c)' /\ result'[c] = result[c]
       \/ At(c, "idle")' /\ out'[c] = result[c]
    /\ state = "open" => state' # "poisoned"

\* Steps that disturb neither the call of c nor the state of the session.
Aloof(c) ==
    /\ pc'[c] \in {"await", "prefer"}
    /\ txn'[c] = txn[c] /\ result'[c] = result[c] /\ reqId'[c] = reqId[c]
    /\ state' = state \/ state' = "closed"

LEMMA AloofKeeps ==
  ASSUME NEW c \in Callers, Delivered(c), Aloof(c)
  PROVE  Kept(c)
  BY DEF Aloof, Kept, Delivered

\* Only c itself can end the delivery, by taking the answer: it holds the
\* token, so nobody else can find the child gone, fail in its own transaction
\* or abort a Start, and its own transaction goroutine has ended.
LEMMA KeptStep ==
  ASSUME TypeOK, Control, OneInFlight, SessionInv, [Next]_vars,
         NEW c \in Callers, Delivered(c)
  PROVE  Kept(c)
  <1>1. /\ Holding(c) /\ handle
        /\ \A d \in Callers : Holding(d) => d = c
        /\ \A d \in Callers : ~At(d, "started")
        /\ \A d \in Callers : At(d, "exited") => FALSE
    BY DEF Delivered, Holding, OneInFlight, SessionInv, Control, ControlOf,
       Requests, At
  <1> USE DEF Delivered, Aloof, TypeOK, lockVars, pipeVars, callVars, txnVars
  <1>2. ASSUME NEW d \in Callers, Calls(d) PROVE Aloof(c)
    <2>1. CASE StartCall(d)
      BY <2>1, SMTT(30) DEF StartCall, Begin, At
    <2>2. ASSUME NEW o \in {"execute", "shutdown"}, RequestCall(d, o)
          PROVE  Aloof(c)
      BY <2>2, SMTT(30) DEF RequestCall, Begin, At
    <2>3. CASE CloseCall(d)
      BY <2>3 DEF CloseCall, Begin, At
    <2>4. CASE Cancel(d)
      BY <2>4 DEF Cancel
    <2> QED BY <1>2, <2>1, <2>2, <2>3, <2>4 DEF Calls
  <1>3. ASSUME NEW d \in Callers, TakeResult(d) PROVE Kept(c)
    <2>1. d = c
      BY <1>1, <1>3 DEF TakeResult, Holding
    <2>2. Return(c, result[c]) /\ UNCHANGED state
      BY <1>3, <2>1 DEF TakeResult
    <2> QED BY <2>2 DEF Return, Kept, At
  <1>4. ASSUME NEW d \in Callers, AwaitCancelled(d) PROVE Aloof(c)
    BY <1>4 DEF AwaitCancelled, Goto
  <1>5. ASSUME NEW d \in Callers, AbandonRequest(d) PROVE FALSE
    BY <1>1, <1>5 DEF AbandonRequest, NothingToPrefer, Holding, At
  <1>6. ASSUME NEW d \in Callers,
               \/ StartReturn(d) \/ AcquireRecheck(d) \/ CheckOpen(d)
               \/ CheckFindsExit(d) \/ CheckExited(d) \/ RequestFails(d)
               \/ SendRequest(d) \/ DrainResult(d) \/ ShutdownSelect(d)
               \/ ShutdownReturn(d)
        PROVE  FALSE
    BY <1>1, <1>6 DEF StartReturn, AcquireRecheck, CheckOpen, CheckFindsExit,
       CheckExited, RequestFails, SendRequest, DrainResult, ShutdownSelect,
       ShutdownReturn, Holding, At
  <1>7. ASSUME NEW d \in Callers,
               \/ AcquireSelect(d) \/ MarkClosed(d) \/ CloseInput(d)
               \/ KillChild(d) \/ Reap(d) \/ ReapStderr(d)
        PROVE  Aloof(c)
    BY <1>7 DEF AcquireSelect, MarkClosed, CloseInput, KillChild, Reap,
       ReapStderr, Goto, Return, At
  <1>8. ASSUME NEW d \in Callers, TxnWrite(d) \/ TxnWritten(d) \/ TxnEnds(d)
        PROVE  Aloof(c)
    BY <1>8 DEF TxnWrite, TxnWritten, TxnEnds, TxnWriteFails, TxnRead,
       TxnReadFails, TxnGoto, TxnDone
  <1>9. ASSUME ChildKilled \/ WaitReturns \/ StderrDrained PROVE Aloof(c)
    BY <1>9 DEF ChildKilled, WaitReturns, StderrDrained, ChildStep
  <1>10. ASSUME UntrustedChild PROVE Aloof(c)
    BY <1>10 DEF UntrustedChild, ChildWrites, ChildExits, ChildHangsUp,
       ChildStep, TxnDone
  <1>11. ASSUME UNCHANGED vars PROVE Aloof(c)
    BY <1>11 DEF vars
  <1> QED BY <1>2, <1>3, <1>4, <1>5, <1>6, <1>7, <1>8, <1>9, <1>10, <1>11,
             AloofKeeps DEF Next, SessionNext, CallerStep

\* An answer that reached the result channel is neither dropped, nor replaced,
\* nor followed by poisoning, whoever moves, until its caller has returned it.
THEOREM AnswersAreKept == Spec => DeliveredAnswerKept
  <1>1. TypeOK /\ Control /\ OneInFlight /\ SessionInv /\ [Next]_vars =>
          [ \A c \in Callers : Delivered(c) =>
              /\ reqId'[c] = reqId[c]
              /\ \/ Delivered(c)' /\ result'[c] = result[c]
                 \/ At(c, "idle")' /\ out'[c] = result[c]
              /\ state = "open" => state' # "poisoned" ]_vars
    BY KeptStep DEF Kept
  <1> QED BY <1>1, TypeCorrect, Serialised, SessionInvariant,
             PTL DEF Spec, DeliveredAnswerKept

-----------------------------------------------------------------------------
(* Request IDs.                                                            *)

\* Steps that spend no number, start no write and write nothing.
IdSilent ==
    /\ UNCHANGED <<stdin, sequence>>
    /\ \A c \in Callers : /\ txn'[c] = "write" => txn[c] = "write"
                          /\ txn'[c] = "writing" => txn[c] = "writing"
                          /\ txn'[c] # "none" => reqId'[c] = reqId[c]

\* All steps but four are of that kind.
LEMMA IdStepKinds ==
  ASSUME TypeOK, Control, [Next]_vars
  PROVE  \/ \E c \in Callers : \/ RequestFails(c) \/ SendRequest(c)
                               \/ TxnWrite(c) \/ TxnWritten(c)
         \/ IdSilent
  <1> USE DEF TypeOK, IdSilent, pipeVars, callVars, txnVars
  <1>1. ASSUME NEW c \in Callers, Calls(c) PROVE IdSilent
    BY <1>1 DEF Calls, StartCall, RequestCall, CloseCall, Cancel, Begin, At,
         Control, ControlOf, KillChain
  <1>2. ASSUME NEW c \in Callers, CallerStep(c)
        PROVE  RequestFails(c) \/ SendRequest(c) \/ IdSilent
    BY <1>2 DEF CallerStep, StartReturn, AcquireSelect, AcquireRecheck,
         CheckOpen, CheckFindsExit, CheckExited, TakeResult, AwaitCancelled,
         AbandonRequest, DrainResult, MarkClosed, CloseInput, ShutdownSelect,
         ShutdownReturn, KillChild, Reap, ReapStderr, Goto, Return, Decide,
         KillAndReap, TxnReceived
  <1>3. ASSUME NEW c \in Callers, TxnEnds(c) PROVE IdSilent
    BY <1>3 DEF TxnEnds, TxnWriteFails, TxnRead, TxnReadFails, TxnDone
  <1>4. ChildKilled \/ WaitReturns \/ StderrDrained \/ UntrustedChild => IdSilent
    BY DEF ChildKilled, WaitReturns, StderrDrained, ChildStep, UntrustedChild,
         ChildWrites, ChildExits, ChildHangsUp, TxnDone
  <1>5. UNCHANGED vars => IdSilent
    BY DEF vars
  <1> QED BY <1>1, <1>2, <1>3, <1>4, <1>5 DEF Next, SessionNext

\* Every step preserves IdInv.
LEMMA IdStep ==
  ASSUME TypeOK, Control, OneInFlight, IdInv, [Next]_vars
  PROVE  IdInv'
  <1>1. sequence \in Nat /\ SeqModulus \in Nat /\ sequence < SeqModulus
    BY ModulusAssumption DEF TypeOK, Ids
  <1>2. stdin \in Seq(Frame) /\ \A i \in DOMAIN stdin : stdin[i].id \in Nat
    <2>1. \A f \in Frame : f.id \in Nat
      BY ModulusAssumption DEF Frame, Ids
    <2>2. stdin \in Seq(Frame)
      BY DEF TypeOK
    <2> QED BY <2>1, <2>2, ElementOfSeq, LenProperties
  <1>3. \A c \in Callers : reqId[c] \in Nat
    BY ModulusAssumption DEF TypeOK, Ids
  <1>4. CASE IdSilent
    BY <1>4 DEF IdSilent, IdInv, RequestIdsIncrease, NextNumber
  <1>5. ASSUME ~Exhausted, sequence' = NextSequence
        PROVE  NextNumber' = sequence + 1 /\ NextNumber = sequence
    <2>1. sequence' = IF sequence + 1 = SeqModulus THEN 0 ELSE sequence + 1
      BY <1>5, NextSequenceType
    <2>2. NextNumber' = IF sequence' = 0 THEN SeqModulus ELSE sequence'
      BY DEF NextNumber
    <2>3. NextNumber = sequence
      BY <1>5 DEF NextNumber, Exhausted
    <2> QED BY <1>1, <2>1, <2>2, <2>3
  <1>6. ASSUME NEW c \in Callers, RequestFails(c) PROVE IdInv'
    <2>1. NextNumber <= NextNumber' /\ NextNumber \in Nat /\ NextNumber' \in Nat
      <3>1. CASE Exhausted /\ UNCHANGED sequence
        BY <1>1, <3>1 DEF NextNumber
      <3>2. CASE ~Exhausted /\ sequence' = NextSequence
        BY <1>1, <1>5, <3>2
      <3> QED BY <1>6, <3>1, <3>2 DEF RequestFails
    <2> QED
      BY <1>1, <1>2, <1>3, <1>6, <2>1 DEF RequestFails, Return, pipeVars,
           txnVars, IdInv, RequestIdsIncrease
  <1>7. ASSUME NEW c \in Callers, SendRequest(c) PROVE IdInv'
    <2>1. \A d \in Callers : d # c => txn[d] = "none"
      BY <1>7 DEF SendRequest, At, OneInFlight, Holding
    <2>2. NextNumber' = sequence + 1 /\ NextNumber = sequence /\ sequence > 0
      BY <1>1, <1>5, <1>7 DEF SendRequest, Exhausted
    <2>3. \A d \in Callers : /\ txn'[d] = "write" => d = c
                             /\ txn'[d] # "writing"
      BY <1>7, <2>1 DEF SendRequest, TypeOK
    <2>4. reqId'[c] = sequence /\ UNCHANGED stdin
      BY <1>7 DEF SendRequest, TypeOK, pipeVars
    <2> QED
      BY <1>1, <1>2, <2>2, <2>3, <2>4 DEF IdInv, RequestIdsIncrease
  <1>8. ASSUME NEW c \in Callers, TxnWrite(c) PROVE IdInv'
    <2>1. PICK part \in {"prefix", "payload"} :
            stdin' = Append(stdin, [id |-> reqId[c], op |-> op[c], part |-> part])
      BY <1>8 DEF TxnWrite
    <2>2. op[c] \in {"execute", "shutdown"}
      BY <1>8 DEF TxnWrite, Control, ControlOf, KillChain, Requests, TypeOK
    <2>3. [id |-> reqId[c], op |-> op[c], part |-> part] \in Frame
      BY <2>2 DEF Frame, TypeOK
    <2>4. /\ Len(stdin') = Len(stdin) + 1
          /\ DOMAIN stdin' = 1 .. Len(stdin) + 1 /\ DOMAIN stdin = 1 .. Len(stdin)
          /\ \A i \in 1 .. Len(stdin) : stdin'[i] = stdin[i]
          /\ stdin'[Len(stdin) + 1].id = reqId[c]
          /\ Len(stdin) \in Nat
      BY <1>2, <2>1, <2>3, AppendProperties, LenProperties
    <2>5. \A d \in Callers : /\ txn'[d] # "write"
                             /\ txn'[d] = "writing" => d = c
      BY <1>8 DEF TxnWrite, TxnGoto, TypeOK, OneInFlight
    <2>6. UNCHANGED <<sequence, reqId>> /\ txn[c] = "write"
      BY <1>8 DEF TxnWrite, callVars
    <2>7. RequestIdsIncrease'
      BY <1>2, <1>3, <2>4, <2>6 DEF IdInv, RequestIdsIncrease
    <2>8. \A i \in DOMAIN stdin' : stdin'[i].id < NextNumber'
      BY <2>4, <2>6 DEF IdInv, NextNumber
    <2> QED BY <2>4, <2>5, <2>6, <2>7, <2>8 DEF IdInv
  <1>9. ASSUME NEW c \in Callers, TxnWritten(c) PROVE IdInv'
    <2>1. txn[c] = "writing" /\ stdin # <<>>
      BY <1>9 DEF TxnWritten, Control, ControlOf
    <2>2. Len(stdin) \in DOMAIN stdin /\ DOMAIN stdin = 1 .. Len(stdin)
      BY <1>2, <2>1, LenProperties, EmptySeq
    <2>3. /\ DOMAIN stdin' = DOMAIN stdin
          /\ \A i \in DOMAIN stdin : stdin'[i].id = stdin[i].id
      BY <1>9, <2>1, <2>2 DEF TxnWritten, IdInv
    <2>4. \A d \in Callers : txn'[d] # "write" /\ txn'[d] # "writing"
      BY <1>9 DEF TxnWritten, TxnGoto, TypeOK, OneInFlight
    <2>5. UNCHANGED sequence
      BY <1>9 DEF TxnWritten
    <2> QED BY <2>3, <2>4, <2>5 DEF IdInv, RequestIdsIncrease, NextNumber
  <1> QED BY <1>4, <1>6, <1>7, <1>8, <1>9, IdStepKinds

\* Request IDs on the wire increase strictly and are never zero, for every
\* width of the counter: it is refused before it could wrap.
THEOREM IdsIncrease == Spec => []RequestIdsIncrease
  <1>1. Init => IdInv
    BY DEF Init, IdInv, RequestIdsIncrease
  <1>2. TypeOK /\ Control /\ OneInFlight /\ IdInv /\ [Next]_vars => IdInv'
    BY IdStep
  <1>3. IdInv => RequestIdsIncrease
    BY DEF IdInv
  <1> QED BY <1>1, <1>2, <1>3, TypeCorrect, Serialised, PTL DEF Spec

-----------------------------------------------------------------------------
(* Answers, the end of the session, and the refinement.                    *)

\* Where a caller has not sent its request, where it ends the session, and
\* the outcomes that an answer of the child brings.
Asking    == {"select", "recheck", "check", "exited", "request"}
Finishing == {"acked", "closing", "exit_wait", "exit_stderr"}
Good      == {"completed", "remote", "acked"}

\* The caller's request went out, newline included.
Whole(c) ==
    \E i \in DOMAIN stdin : stdin[i] = [id |-> reqId[c], op |-> op[c], part |-> "line"]

\* The caller's request is the last one in the pipe.
LastMine(c) == stdin # <<>> /\ stdin[Len(stdin)].id = reqId[c]

\* From the first byte of a request to its answer, and on to the return of the
\* call that asked: nothing is decided before, nothing is mixed up on the way.
AnswerInv ==
    \A c \in Callers :
        /\ pc[c] \in Asking \cup {"await", "prefer"} => out[c].kind = "none"
        /\ pc[c] \in Asking => reqId[c] = 0
        /\ pc[c] \in Finishing => out[c].kind = "acked"
        /\ txn[c] # "done" => result[c] = Plain("none")
        /\ txn[c] = "writing" => stdin[Len(stdin)].part # "line"
        /\ txn[c] = "read" => Whole(c)
        /\ txn[c] = "done" /\ result[c].kind \in Good =>
              result[c].id = reqId[c] /\ Whole(c)
        /\ out[c].kind \in Good \cup {"shutdown_ok"} =>
              out[c].id = reqId[c] /\ Whole(c)

\* Where a call gives up or finishes, the session is stopped, and what was
\* acknowledged is the last request in the pipe; after a successful Shutdown
\* nobody is left who could write another one.
FinalInv ==
    \A c \in Callers :
        /\ \/ txn[c] \in {"writing", "read"}
           \/ txn[c] = "done" /\ result[c].kind \in Good
           \/ pc[c] \in Finishing
           => LastMine(c)
        /\ pc[c] \in Finishing \ {"acked"} => state = "closed"
        /\ pc[c] \in KillChain \cup {"drain"} /\ op[c] \in Requests => state # "open"
        /\ out[c].kind = "shutdown_ok" =>
             /\ state = "closed" /\ child.waitDone /\ child.status = "ok" /\ LastMine(c)
             /\ \A d \in Callers : pc[d] # "request" /\ txn[d] \notin {"write", "writing"}

-----------------------------------------------------------------------------
\* Every step preserves AnswerInv: a number that is asked for is fresh, a frame
\* being written is not yet whole, and DecodeResponse compares the numbers.
LEMMA AnswerStep ==
  ASSUME TypeOK, Control, OneInFlight, AnswerInv, [Next]_vars
  PROVE  AnswerInv'
  <1> USE DEF At, Goto, Return, Decide, Begin, KillAndReap, TxnDone, TxnGoto,
             TxnReceived, ChildStep, Plain, lockVars, pipeVars, callVars, txnVars,
             AnswerInv, Asking, Finishing, Good, Whole, TypeOK, Control, ControlOf,
             KillChain, Requests
  <1>1. ASSUME NEW c \in Callers, StartCall(c) PROVE AnswerInv'
    BY <1>1 DEF StartCall
  <1>2. ASSUME NEW c \in Callers, StartReturn(c) PROVE AnswerInv'
    <2>1. CASE cancelled[c]
      BY <1>2, <2>1 DEF StartReturn
    <2>2. CASE ~cancelled[c]
      BY <1>2, <2>2 DEF StartReturn
    <2> QED BY <2>1, <2>2
  <1>3. ASSUME NEW c \in Callers, NEW o \in {"execute", "shutdown"}, RequestCall(c, o)
        PROVE  AnswerInv'
    <2>0. txn[c] = "none"
      BY <1>3 DEF RequestCall
    <2>1. CASE Begin(c, o, "idle", Plain("ctx"))
      BY <1>3, <2>0, <2>1 DEF RequestCall
    <2>2. CASE Begin(c, o, "select", Plain("none"))
      BY <1>3, <2>0, <2>2 DEF RequestCall
    <2> QED BY <1>3, <2>1, <2>2 DEF RequestCall
  <1>4. ASSUME NEW c \in Callers, AcquireSelect(c) PROVE AnswerInv'
    BY <1>4 DEF AcquireSelect
  <1>5. ASSUME NEW c \in Callers, AcquireRecheck(c) PROVE AnswerInv'
    BY <1>5 DEF AcquireRecheck
  <1>6. ASSUME NEW c \in Callers, CheckOpen(c) PROVE AnswerInv'
    BY <1>6 DEF CheckOpen
  <1>7. ASSUME NEW c \in Callers, CheckFindsExit(c) PROVE AnswerInv'
    BY <1>7 DEF CheckFindsExit
  <1>8. ASSUME NEW c \in Callers, CheckExited(c) PROVE AnswerInv'
    BY <1>8 DEF CheckExited
  <1>9. ASSUME NEW c \in Callers, RequestFails(c) PROVE AnswerInv'
    BY <1>9 DEF RequestFails
  <1>10. ASSUME NEW c \in Callers, SendRequest(c) PROVE AnswerInv'
    BY <1>10 DEF SendRequest
  <1>11. ASSUME NEW c \in Callers, TxnWrite(c) PROVE AnswerInv'
    <2>1. PICK part \in {"prefix", "payload"} :
            stdin' = Append(stdin, [id |-> reqId[c], op |-> op[c], part |-> part])
      BY <1>11 DEF TxnWrite
    <2>2. op[c] \in {"execute", "shutdown"}
      BY <1>11 DEF TxnWrite
    <2>3. [id |-> reqId[c], op |-> op[c], part |-> part] \in Frame
      BY <2>2 DEF Frame
    <2>4. /\ Len(stdin') = Len(stdin) + 1 /\ Len(stdin) \in Nat
          /\ DOMAIN stdin' = 1 .. Len(stdin) + 1 /\ DOMAIN stdin = 1 .. Len(stdin)
          /\ \A i \in 1 .. Len(stdin) : stdin'[i] = stdin[i]
          /\ stdin'[Len(stdin) + 1].part = part
      BY <2>1, <2>3, AppendProperties, LenProperties
    <2>5. \A d \in Callers : Whole(d) => Whole(d)'
      BY <1>11, <2>4 DEF TxnWrite
    <2>6. \A d \in Callers : txn'[d] = "writing" => stdin'[Len(stdin')].part # "line"
      BY <2>4
    <2> HIDE DEF Whole
    <2> QED BY <1>11, <2>5, <2>6 DEF TxnWrite
  <1>12. ASSUME NEW c \in Callers, TxnWritten(c) PROVE AnswerInv'
    <2>1. stdin # <<>> /\ stdin[Len(stdin)].part # "line" /\ stdin \in Seq(Frame)
      BY <1>12 DEF TxnWritten
    <2>2. Len(stdin) \in DOMAIN stdin
      BY <2>1, LenProperties, EmptySeq
    <2> DEFINE f == [id |-> reqId[c], op |-> op[c], part |-> "line"]
    <2>3. /\ DOMAIN stdin' = DOMAIN stdin /\ stdin'[Len(stdin)] = f
          /\ \A i \in DOMAIN stdin : i # Len(stdin) => stdin'[i] = stdin[i]
      BY <1>12, <2>2 DEF TxnWritten
    <2>4. \A d \in Callers : Whole(d) => Whole(d)'
      <3> SUFFICES ASSUME NEW d \in Callers, Whole(d) PROVE Whole(d)'
        OBVIOUS
      <3>1. PICK i \in DOMAIN stdin :
              stdin[i] = [id |-> reqId[d], op |-> op[d], part |-> "line"]
        OBVIOUS
      <3>2. i # Len(stdin)
        BY <2>1, <3>1
      <3> QED BY <1>12, <2>3, <3>1, <3>2 DEF TxnWritten
    <2>5. Whole(c)'
      BY <1>12, <2>2, <2>3 DEF TxnWritten
    <2>6. \A d \in Callers : txn'[d] # "writing"
      BY <1>12 DEF TxnWritten, OneInFlight
    <2> HIDE DEF Whole
    <2> QED BY <1>12, <2>4, <2>5, <2>6 DEF TxnWritten
  <1>13. ASSUME NEW c \in Callers, TxnWriteFails(c) PROVE AnswerInv'
    BY <1>13 DEF TxnWriteFails
  <1>14. ASSUME NEW c \in Callers, TxnRead(c) PROVE AnswerInv'
    <2> DEFINE o == DecodeResponse(Head(stdout), reqId[c], op[c])
    <2>1. o.kind \in Good => o.id = reqId[c]
      BY DEF DecodeResponse
    <2>2. Whole(c) /\ result'[c] = o /\ txn'[c] = "done" /\ UNCHANGED <<stdin, reqId, op>>
      BY <1>14 DEF TxnRead
    <2> HIDE DEF o
    <2>3. \A d \in Callers : Whole(d) <=> Whole(d)'
      BY <2>2
    <2> HIDE DEF Whole
    <2> QED BY <1>14, <2>1, <2>2, <2>3 DEF TxnRead, o
  <1>15. ASSUME NEW c \in Callers, TxnReadFails(c) PROVE AnswerInv'
    BY <1>15 DEF TxnReadFails
  <1>16. ASSUME NEW c \in Callers, TakeResult(c) PROVE AnswerInv'
    BY <1>16 DEF TakeResult
  <1>17. ASSUME NEW c \in Callers, AwaitCancelled(c) PROVE AnswerInv'
    BY <1>17 DEF AwaitCancelled
  <1>18. ASSUME NEW c \in Callers, AbandonRequest(c) PROVE AnswerInv'
    BY <1>18 DEF AbandonRequest
  <1>19. ASSUME NEW c \in Callers, DrainResult(c) PROVE AnswerInv'
    BY <1>19 DEF DrainResult
  <1>20. ASSUME NEW c \in Callers, CloseCall(c) PROVE AnswerInv'
    <2>1. txn[c] = "none"
      BY <1>20 DEF CloseCall
    <2> QED BY <1>20, <2>1 DEF CloseCall
  <1>21. ASSUME NEW c \in Callers, MarkClosed(c) PROVE AnswerInv'
    BY <1>21 DEF MarkClosed
  <1>22. ASSUME NEW c \in Callers, CloseInput(c) PROVE AnswerInv'
    BY <1>22 DEF CloseInput
  <1>23. ASSUME NEW c \in Callers, ShutdownSelect(c) PROVE AnswerInv'
    BY <1>23 DEF ShutdownSelect
  <1>24. ASSUME NEW c \in Callers, ShutdownReturn(c) PROVE AnswerInv'
    BY <1>24 DEF ShutdownReturn
  <1>25. ASSUME NEW c \in Callers, KillChild(c) PROVE AnswerInv'
    BY <1>25 DEF KillChild
  <1>26. ASSUME NEW c \in Callers, Reap(c) PROVE AnswerInv'
    BY <1>26 DEF Reap
  <1>27. ASSUME NEW c \in Callers, ReapStderr(c) PROVE AnswerInv'
    BY <1>27 DEF ReapStderr
  <1>28. ASSUME NEW c \in Callers, Cancel(c) PROVE AnswerInv'
    BY <1>28 DEF Cancel
  <1>29. CASE ChildKilled
    BY <1>29 DEF ChildKilled
  <1>30. CASE WaitReturns
    BY <1>30 DEF WaitReturns
  <1>31. CASE StderrDrained
    BY <1>31 DEF StderrDrained
  <1>32. ASSUME NEW r \in Reply, ChildWrites(r) PROVE AnswerInv'
    BY <1>32 DEF ChildWrites
  <1>33. ASSUME NEW how \in {"ok", "fail"}, ChildExits(how) PROVE AnswerInv'
    BY <1>33 DEF ChildExits
  <1>34. ASSUME NEW c \in Callers, ChildHangsUp(c) PROVE AnswerInv'
    BY <1>34 DEF ChildHangsUp
  <1>35. CASE UNCHANGED vars
    BY <1>35 DEF vars
  <1> HIDE DEF AnswerInv
  <1> QED BY <1>1, <1>2, <1>3, <1>4, <1>5, <1>6, <1>7, <1>8, <1>9, <1>10, <1>11, <1>12,
             <1>13, <1>14, <1>15, <1>16, <1>17, <1>18, <1>19, <1>20, <1>21, <1>22,
             <1>23, <1>24, <1>25, <1>26, <1>27, <1>28, <1>29, <1>30, <1>31, <1>32,
             <1>33, <1>34, <1>35
             DEF Next, SessionNext, Calls, CallerStep, TxnEnds, UntrustedChild

\* Every step preserves FinalInv: only the holder of the token writes, and it is
\* admitted only while the session is open.
LEMMA FinalStep ==
  ASSUME TypeOK, Control, OneInFlight, SessionInv, ReapInv, AnswerInv, FinalInv, [Next]_vars
  PROVE  FinalInv'
  <1> USE DEF At, Goto, Return, Decide, Begin, KillAndReap, MarkPoisoned, TxnDone,
             TxnGoto, TxnReceived, ChildStep, Plain, lockVars, pipeVars, callVars,
             txnVars, FinalInv, LastMine, Finishing, Good, TypeOK, Child, Control,
             ControlOf, KillChain, Requests
  <1>1. ASSUME NEW c \in Callers, StartCall(c) PROVE FinalInv'
    <2>1. \A d \in Callers : out[d].kind # "shutdown_ok"
      BY <1>1 DEF StartCall, ReapInv
    <2> QED BY <1>1, <2>1 DEF StartCall
  <1>2. ASSUME NEW c \in Callers, StartReturn(c) PROVE FinalInv'
    <2>1. CASE cancelled[c]
      BY <1>2, <2>1 DEF StartReturn
    <2>2. CASE ~cancelled[c]
      BY <1>2, <2>2 DEF StartReturn
    <2> QED BY <2>1, <2>2
  <1>3. ASSUME NEW c \in Callers, NEW o \in {"execute", "shutdown"}, RequestCall(c, o)
        PROVE  FinalInv'
    BY <1>3 DEF RequestCall
  <1>4. ASSUME NEW c \in Callers, AcquireSelect(c) PROVE FinalInv'
    BY <1>4 DEF AcquireSelect
  <1>5. ASSUME NEW c \in Callers, AcquireRecheck(c) PROVE FinalInv'
    BY <1>5 DEF AcquireRecheck
  <1>6. ASSUME NEW c \in Callers, CheckOpen(c) PROVE FinalInv'
    BY <1>6 DEF CheckOpen
  <1>7. ASSUME NEW c \in Callers, CheckFindsExit(c) PROVE FinalInv'
    BY <1>7 DEF CheckFindsExit
  <1>8. ASSUME NEW c \in Callers, CheckExited(c) PROVE FinalInv'
    <2>1. state = "open"
      BY <1>8 DEF CheckExited, SessionInv
    <2> QED BY <1>8, <2>1 DEF CheckExited
  <1>9. ASSUME NEW c \in Callers, RequestFails(c) PROVE FinalInv'
    BY <1>9 DEF RequestFails
  <1>10. ASSUME NEW c \in Callers, SendRequest(c) PROVE FinalInv'
    BY <1>10 DEF SendRequest
  <1>11. ASSUME NEW c \in Callers, TxnWrite(c) PROVE FinalInv'
    <2>1. PICK part \in {"prefix", "payload"} :
            stdin' = Append(stdin, [id |-> reqId[c], op |-> op[c], part |-> part])
      BY <1>11 DEF TxnWrite
    <2>2. [id |-> reqId[c], op |-> op[c], part |-> part] \in Frame
      BY <1>11 DEF TxnWrite, Frame
    <2>3. stdin' # <<>> /\ stdin'[Len(stdin')].id = reqId[c]
      BY <2>1, <2>2, AppendProperties
    <2>4. \A d \in Callers : d # c => txn[d] = "none" /\ pc[d] \notin Finishing
      BY <1>11 DEF TxnWrite, OneInFlight, Holding
    <2>5. \A d \in Callers : out[d].kind # "shutdown_ok"
      BY <1>11 DEF TxnWrite
    <2> QED BY <1>11, <2>3, <2>4, <2>5 DEF TxnWrite
  <1>12. ASSUME NEW c \in Callers, TxnWritten(c) PROVE FinalInv'
    <2>1. stdin # <<>> /\ stdin \in Seq(Frame)
      BY <1>12 DEF TxnWritten
    <2>2. Len(stdin) \in 1 .. Len(stdin)
      BY <2>1, EmptySeq
    <2>3. [id |-> reqId[c], op |-> op[c], part |-> "line"] \in Frame
      BY <1>12 DEF TxnWritten, Frame
    <2>4. stdin' \in Seq(Frame) /\ Len(stdin') = Len(stdin) /\ stdin'[Len(stdin)].id = reqId[c]
      BY <1>12, <2>1, <2>2, <2>3, ExceptSeq DEF TxnWritten
    <2>5. stdin' # <<>>
      BY <2>2, <2>4, EmptySeq
    <2>6. \A d \in Callers : d # c => txn[d] = "none" /\ pc[d] \notin Finishing
      BY <1>12 DEF TxnWritten, OneInFlight, Holding
    <2>7. \A d \in Callers : out[d].kind # "shutdown_ok"
      BY <1>12 DEF TxnWritten
    <2> QED BY <1>12, <2>4, <2>5, <2>6, <2>7 DEF TxnWritten
  <1>13. ASSUME NEW c \in Callers, TxnWriteFails(c) PROVE FinalInv'
    BY <1>13 DEF TxnWriteFails
  <1>14. ASSUME NEW c \in Callers, TxnRead(c) PROVE FinalInv'
    BY <1>14 DEF TxnRead
  <1>15. ASSUME NEW c \in Callers, TxnReadFails(c) PROVE FinalInv'
    BY <1>15 DEF TxnReadFails
  <1>16. ASSUME NEW c \in Callers, TakeResult(c) PROVE FinalInv'
    BY <1>16 DEF TakeResult
  <1>17. ASSUME NEW c \in Callers, AwaitCancelled(c) PROVE FinalInv'
    BY <1>17 DEF AwaitCancelled
  <1>18. ASSUME NEW c \in Callers, AbandonRequest(c) PROVE FinalInv'
    BY <1>18 DEF AbandonRequest
  <1>19. ASSUME NEW c \in Callers, DrainResult(c) PROVE FinalInv'
    BY <1>19 DEF DrainResult
  <1>20. ASSUME NEW c \in Callers, CloseCall(c) PROVE FinalInv'
    BY <1>20 DEF CloseCall
  <1>21. ASSUME NEW c \in Callers, MarkClosed(c) PROVE FinalInv'
    BY <1>21 DEF MarkClosed
  <1>22. ASSUME NEW c \in Callers, CloseInput(c) PROVE FinalInv'
    BY <1>22 DEF CloseInput
  <1>23. ASSUME NEW c \in Callers, ShutdownSelect(c) PROVE FinalInv'
    BY <1>23 DEF ShutdownSelect
  <1>24. ASSUME NEW c \in Callers, ShutdownReturn(c) PROVE FinalInv'
    <2>1. state = "closed" /\ child.waitDone /\ LastMine(c) /\ txn[c] = "none"
      BY <1>24 DEF ShutdownReturn, ReapInv
    <2>2. \A d \in Callers : d # c => pc[d] # "request" /\ txn[d] = "none"
      BY <1>24 DEF ShutdownReturn, OneInFlight, Holding
    <2>3. UNCHANGED <<stdin, reqId, state, child, txn, result, op>>
      BY <1>24 DEF ShutdownReturn
    <2>4. pc' = [pc EXCEPT ![c] = "idle"] /\ \A d \in Callers : d # c => out'[d] = out[d]
      BY <1>24 DEF ShutdownReturn
    <2>5. out'[c].kind = "shutdown_ok" => child.status = "ok"
      BY <1>24 DEF ShutdownReturn
    <2> QED BY <2>1, <2>2, <2>3, <2>4, <2>5
  <1>25. ASSUME NEW c \in Callers, KillChild(c) PROVE FinalInv'
    BY <1>25 DEF KillChild
  <1>26. ASSUME NEW c \in Callers, Reap(c) PROVE FinalInv'
    BY <1>26 DEF Reap
  <1>27. ASSUME NEW c \in Callers, ReapStderr(c) PROVE FinalInv'
    BY <1>27 DEF ReapStderr
  <1>28. ASSUME NEW c \in Callers, Cancel(c) PROVE FinalInv'
    BY <1>28 DEF Cancel
  <1>29. CASE ChildKilled
    <2>1. \A d \in Callers : out[d].kind # "shutdown_ok"
      BY <1>29 DEF ChildKilled, ReapInv
    <2> QED BY <1>29, <2>1 DEF ChildKilled
  <1>30. CASE WaitReturns
    BY <1>30 DEF WaitReturns
  <1>31. CASE StderrDrained
    BY <1>31 DEF StderrDrained
  <1>32. ASSUME NEW r \in Reply, ChildWrites(r) PROVE FinalInv'
    BY <1>32 DEF ChildWrites
  <1>33. ASSUME NEW how \in {"ok", "fail"}, ChildExits(how) PROVE FinalInv'
    <2>1. \A d \in Callers : out[d].kind # "shutdown_ok"
      BY <1>33 DEF ChildExits, ReapInv
    <2> QED BY <1>33, <2>1 DEF ChildExits
  <1>34. ASSUME NEW c \in Callers, ChildHangsUp(c) PROVE FinalInv'
    BY <1>34 DEF ChildHangsUp
  <1>35. CASE UNCHANGED vars
    BY <1>35 DEF vars
  <1> HIDE DEF FinalInv
  <1> QED BY <1>1, <1>2, <1>3, <1>4, <1>5, <1>6, <1>7, <1>8, <1>9, <1>10, <1>11, <1>12,
             <1>13, <1>14, <1>15, <1>16, <1>17, <1>18, <1>19, <1>20, <1>21, <1>22,
             <1>23, <1>24, <1>25, <1>26, <1>27, <1>28, <1>29, <1>30, <1>31, <1>32,
             <1>33, <1>34, <1>35
             DEF Next, SessionNext, Calls, CallerStep, TxnEnds, UntrustedChild

\* The session's numbers, and what is left of the child, at every point.
LEMMA NumbersAndReaping == Spec => [](IdInv /\ ReapInv)
  <1>1. Init => IdInv /\ ReapInv
    BY DEF Init, IdInv, RequestIdsIncrease, ReapInv, GiveUpReaps, At, Plain
  <1>2. /\ TypeOK /\ Control /\ OneInFlight /\ IdInv /\ ReapInv /\ [Next]_vars
        => IdInv' /\ ReapInv'
    BY IdStep, ReapStep
  <1> QED BY <1>1, <1>2, TypeCorrect, Serialised, PTL DEF Spec

\* Both invariants of this module hold throughout.
LEMMA AnswersAndFinals == Spec => [](AnswerInv /\ FinalInv)
  <1>1. Init => AnswerInv /\ FinalInv
    BY DEF Init, AnswerInv, FinalInv, Asking, Finishing, Good, KillChain, Plain
  <1>2. /\ TypeOK /\ Control /\ OneInFlight /\ SessionInv /\ ReapInv
        /\ AnswerInv /\ FinalInv /\ [Next]_vars
        => AnswerInv' /\ FinalInv'
    BY AnswerStep, FinalStep
  <1> QED BY <1>1, <1>2, TypeCorrect, Serialised, SessionInvariant,
             NumbersAndReaping, PTL DEF Spec

\* No answer is taken for another: a call that reports a response reports one
\* with the number of its own request, which went out whole, whatever the
\* child writes and however the callers interleave.
THEOREM Correlated == Spec => []AnswersCorrelate
  <1>1. AnswerInv => AnswersCorrelate
    BY DEF AnswerInv, AnswersCorrelate, Good, Whole
  <1> QED BY <1>1, AnswersAndFinals, PTL

\* A Shutdown that returns nil is the end: the session is closed, the child
\* exited with status zero and was reaped, and nothing was sent behind the
\* shutdown request.
THEOREM FinalShutdown == Spec => []ShutdownIsFinal
  <1>1. FinalInv => ShutdownIsFinal
    BY DEF FinalInv, ShutdownIsFinal, LastMine
  <1> QED BY <1>1, AnswersAndFinals, PTL

-----------------------------------------------------------------------------
(* The refinement: each step of the session is a step of SerialSession, or *)
(* leaves the served caller, its phase and the wire as they were.          *)

\* The phase of the service of caller c, wherever it is.
PhaseOf(c) ==
    LET o == IF out[c].kind = "none" THEN result[c] ELSE out[c]
    IN  IF pc[c] \in {"recheck", "check", "exited"} THEN "entered"
        ELSE IF o.kind \in {"completed", "remote", "acked", "exit_error", "ctx_exit"}
          THEN "answered"
        ELSE IF LastMine(c) THEN "sent"
        ELSE "admitted"

\* What the refinement mapping is, in terms of the token and its holder.
ServedMap ==
    /\ token => Served = NoCaller /\ ServedPhase = "free"
    /\ ~token => \E c \in Callers : Holding(c)
    /\ \A c \in Callers : Holding(c) =>
         ~token /\ Served = c /\ ServedPhase = PhaseOf(c)

\* The numbers on the wire, without the rest of the frames.
Wire == [i \in DOMAIN stdin |-> stdin[i].id]

\* The kinds of steps.  A quiet one may at most stop the session.
Quiet ==
    /\ token' = token /\ Wire' = Wire
    /\ state # "open" => state' # "open"
    /\ \A c \in Callers : Holding(c) => Holding(c)' /\ PhaseOf(c)' = PhaseOf(c)
Enters(c) ==
    /\ token /\ Holding(c)' /\ PhaseOf(c)' = "entered"
    /\ UNCHANGED <<stdin, state>>
Advances(c, from, to) ==
    /\ Holding(c) /\ Holding(c)' /\ UNCHANGED state
    /\ PhaseOf(c) = from /\ PhaseOf(c)' = to
Admits(c) == Advances(c, "entered", "admitted") /\ state = "open" /\ UNCHANGED stdin
Sends(c) ==
    /\ Advances(c, "admitted", "sent")
    /\ \E fr \in Frame : stdin' = Append(stdin, fr) /\ fr.id > 0
                         /\ \A i \in DOMAIN stdin : stdin[i].id < fr.id
Answered(c) == Advances(c, "sent", "answered") /\ UNCHANGED stdin
Leaves(c) ==
    /\ Holding(c) /\ token' /\ UNCHANGED stdin
    /\ state # "open" => state' # "open"
    /\ PhaseOf(c) = "sent" => state' # "open"
Service(c) == Enters(c) \/ Admits(c) \/ Sends(c) \/ Answered(c) \/ Leaves(c)

\* Every step is a step of SerialSession or none of its business.
Classified == Quiet \/ \E c \in Callers : Service(c)

\* The mapping is what it is meant to be.
LEMMA Mapping == Spec => []ServedMap
  <1>1. ASSUME OneInFlight PROVE ServedMap
    <2>1. ASSUME NEW c \in Callers, Holding(c)
          PROVE  ~token /\ Served = c /\ ServedPhase = PhaseOf(c)
      <3>1. ~token /\ \A d \in Callers : Holding(d) => d = c
        BY <1>1, <2>1 DEF OneInFlight
      <3> HIDE DEF Holding
      <3>2. Served = c
        BY <2>1, <3>1 DEF Served
      <3>3. c # NoCaller
        BY CallersAssumption
      <3> QED BY <3>1, <3>2, <3>3 DEF ServedPhase, PhaseOf, LastMine
    <2>2. token => Served = NoCaller /\ ServedPhase = "free"
      BY DEF Served, ServedPhase
    <2>3. ~token => \E c \in Callers : Holding(c)
      BY <1>1 DEF OneInFlight
    <2> QED BY <2>1, <2>2, <2>3 DEF ServedMap
  <1> QED BY <1>1, Serialised, PTL

\* A caller without a number has nothing in the pipe: no request has number 0.
LEMMA NotMine ==
  ASSUME TypeOK, IdInv, AnswerInv, NEW c \in Callers, pc[c] \in Asking
  PROVE  ~LastMine(c)
  <1>1. reqId[c] = 0
    BY DEF AnswerInv
  <1>2. stdin # <<>> => Len(stdin) \in DOMAIN stdin
    BY LenProperties, EmptySeq DEF TypeOK
  <1> QED BY <1>1, <1>2 DEF IdInv, RequestIdsIncrease, LastMine

\* Every step is quiet, or a step of the service of one caller.
LEMMA StepKinds ==
  ASSUME TypeOK, Control, OneInFlight, SessionInv, IdInv, AnswerInv, FinalInv, [Next]_vars
  PROVE  Classified
  <1> USE DEF At, Goto, Return, Decide, Begin, KillAndReap, MarkPoisoned, TxnDone,
             TxnGoto, TxnReceived, ChildStep, Plain, Release, lockVars, pipeVars,
             callVars, txnVars, TypeOK, Control, ControlOf, AnswerInv, FinalInv,
             Asking, Finishing, Good, KillChain, Requests, Holding, PhaseOf, LastMine,
             Wire, Quiet, Classified
  <1>1. ASSUME NEW c \in Callers, StartCall(c) PROVE Classified
    BY <1>1 DEF StartCall
  <1>2. ASSUME NEW c \in Callers, StartReturn(c) PROVE Classified
    <2>1. CASE cancelled[c]
      BY <1>2, <2>1 DEF StartReturn
    <2>2. CASE ~cancelled[c]
      BY <1>2, <2>2 DEF StartReturn
    <2> QED BY <2>1, <2>2
  <1>3. ASSUME NEW c \in Callers, NEW o \in {"execute", "shutdown"}, RequestCall(c, o)
        PROVE  Classified
    BY <1>3 DEF RequestCall
  <1>4. ASSUME NEW c \in Callers, AcquireSelect(c) PROVE Classified
    <2>1. CASE cancelled[c] /\ Return(c, Plain("ctx")) /\ UNCHANGED token
      BY <1>4, <2>1 DEF AcquireSelect
    <2>2. CASE token /\ token' = FALSE /\ Goto(c, "recheck")
      <3>1. Enters(c)
        BY <1>4, <2>2 DEF AcquireSelect, Enters
      <3> QED BY <3>1 DEF Service
    <2> QED BY <1>4, <2>1, <2>2 DEF AcquireSelect
  <1>5. ASSUME NEW c \in Callers, AcquireRecheck(c) PROVE Classified
    <2>1. CASE cancelled[c]
      <3>1. Leaves(c)
        BY <1>5, <2>1 DEF AcquireRecheck, Leaves
      <3> QED BY <3>1 DEF Service
    <2>2. CASE ~cancelled[c]
      BY <1>5, <2>2 DEF AcquireRecheck
    <2> QED BY <2>1, <2>2
  <1>6. ASSUME NEW c \in Callers, CheckOpen(c) PROVE Classified
    <2>0. ~LastMine(c)
      BY <1>6, NotMine DEF CheckOpen
    <2>1. CASE state # "open" /\ Return(c, Plain(state)) /\ Release
      <3>1. Leaves(c)
        BY <1>6, <2>1 DEF CheckOpen, Leaves
      <3> QED BY <3>1 DEF Service
    <2>2. CASE state = "open" /\ Goto(c, "request") /\ UNCHANGED token
      <3>1. Admits(c)
        BY <1>6, <2>0, <2>2 DEF CheckOpen, Admits, Advances
      <3> QED BY <3>1 DEF Service
    <2> QED BY <1>6, <2>1, <2>2 DEF CheckOpen
  <1>7. ASSUME NEW c \in Callers, CheckFindsExit(c) PROVE Classified
    BY <1>7 DEF CheckFindsExit
  <1>8. ASSUME NEW c \in Callers, CheckExited(c) PROVE Classified
    <2>1. Leaves(c)
      BY <1>8 DEF CheckExited, Leaves
    <2> QED BY <2>1 DEF Service
  <1>9. ASSUME NEW c \in Callers, RequestFails(c) PROVE Classified
    <2>0. ~LastMine(c)
      BY <1>9, NotMine DEF RequestFails
    <2>1. Leaves(c)
      BY <1>9, <2>0 DEF RequestFails, Leaves
    <2> QED BY <2>1 DEF Service
  <1>10. ASSUME NEW c \in Callers, SendRequest(c) PROVE Classified
    <2>0. ~LastMine(c)
      BY <1>10, NotMine DEF SendRequest
    <2>1. ~LastMine(c)'
      <3>1. SUFFICES ASSUME LastMine(c)' PROVE FALSE
        OBVIOUS
      <3>2. Len(stdin) \in DOMAIN stdin /\ stdin[Len(stdin)].id = sequence
        BY <1>10, <3>1, LenProperties, EmptySeq DEF SendRequest
      <3>3. stdin[Len(stdin)].id < sequence /\ sequence \in Nat
        BY <1>10, <3>2, ModulusAssumption DEF SendRequest, Exhausted, IdInv, NextNumber, Ids
      <3> QED BY <3>2, <3>3
    <2>2. \A d \in Callers : Holding(d) => d = c
      BY <1>10 DEF SendRequest, OneInFlight
    <2> HIDE DEF LastMine
    <2> QED BY <1>10, <2>0, <2>1, <2>2 DEF SendRequest
  <1>11. ASSUME NEW c \in Callers, TxnWrite(c) PROVE Classified
    <2>1. PICK part \in {"prefix", "payload"} :
            stdin' = Append(stdin, [id |-> reqId[c], op |-> op[c], part |-> part])
      BY <1>11 DEF TxnWrite
    <2> DEFINE fr == [id |-> reqId[c], op |-> op[c], part |-> part]
    <2>2. fr \in Frame /\ fr.id = reqId[c]
      <3>1. reqId[c] \in Ids /\ op[c] \in {"execute", "shutdown"}
        BY <1>11 DEF TxnWrite
      <3> QED BY ONLY <3>1, part \in {"prefix", "payload"} DEF Frame
    <2>3. fr.id > 0 /\ \A i \in DOMAIN stdin : stdin[i].id < fr.id
      BY <1>11 DEF TxnWrite, IdInv
    <2>4. LastMine(c)'
      <3>1. stdin' # <<>> /\ stdin'[Len(stdin')] = fr
        BY <2>1, <2>2, AppendProperties, LenProperties
      <3> QED BY <1>11, <2>2, <3>1 DEF TxnWrite
    <2>5. ~LastMine(c)
      <3>1. stdin # <<>> => Len(stdin) \in DOMAIN stdin
        BY LenProperties, EmptySeq
      <3>2. reqId[c] \in Nat
        BY ModulusAssumption DEF Ids
      <3> QED BY <2>2, <2>3, <3>1, <3>2
    <2> HIDE DEF LastMine
    <2>6. Advances(c, "admitted", "sent")
      BY <1>11, <2>4, <2>5 DEF TxnWrite, Advances
    <2>7. Sends(c)
      BY <2>1, <2>2, <2>3, <2>6 DEF Sends
    <2> QED BY <2>7 DEF Service
  <1>12. ASSUME NEW c \in Callers, TxnWritten(c) PROVE Classified
    <2>1. stdin # <<>> /\ stdin \in Seq(Frame) /\ stdin[Len(stdin)].id = reqId[c]
      BY <1>12 DEF TxnWritten
    <2>2. Len(stdin) \in DOMAIN stdin
      BY <2>1, LenProperties, EmptySeq
    <2>3. /\ DOMAIN stdin' = DOMAIN stdin
          /\ \A i \in DOMAIN stdin : stdin'[i].id = stdin[i].id
      BY <1>12, <2>1, <2>2 DEF TxnWritten
    <2>4. Wire' = Wire
      BY <2>3
    <2>5. LastMine(c) /\ LastMine(c)'
      <3>1. Len(stdin') = Len(stdin) /\ stdin' # <<>>
        BY <1>12, <2>1, <2>2, ExceptSeq, LenProperties DEF TxnWritten
      <3> QED BY <1>12, <2>1, <2>2, <2>3, <3>1 DEF TxnWritten
    <2>6. \A d \in Callers : Holding(d) => d = c
      BY <1>12 DEF TxnWritten, OneInFlight
    <2> HIDE DEF LastMine, Wire
    <2> QED BY <1>12, <2>4, <2>5, <2>6 DEF TxnWritten
  <1>13. ASSUME NEW c \in Callers, TxnWriteFails(c) PROVE Classified
    BY <1>13 DEF TxnWriteFails
  <1>14. ASSUME NEW c \in Callers, TxnRead(c) PROVE Classified
    <2> DEFINE o == DecodeResponse(Head(stdout), reqId[c], op[c])
    <2>1. o.kind \in {"completed", "remote", "acked", "protocol"}
      BY DEF DecodeResponse, Meaning, Answers
    <2>2. LastMine(c) /\ UNCHANGED <<pc, op, out, reqId, stdin, state, token>>
      BY <1>14 DEF TxnRead
    <2>3. /\ result' = [result EXCEPT ![c] = o] /\ result[c] = Plain("none")
          /\ txn[c] # "none"
      BY <1>14 DEF TxnRead
    <2> HIDE DEF o, LastMine
    <2>4. CASE out[c].kind = "none" /\ o.kind # "protocol"
      <3>1. LastMine(c)'
        BY <2>2 DEF LastMine
      <3>2. Answered(c)
        BY <2>1, <2>2, <2>3, <2>4, <3>1 DEF Answered, Advances
      <3> QED BY <3>2 DEF Service
    <2>5. CASE ~(out[c].kind = "none" /\ o.kind # "protocol")
      <3>1. \A d \in Callers : LastMine(d)' = LastMine(d)
        BY <2>2 DEF LastMine
      <3> QED BY <2>1, <2>2, <2>3, <2>5, <3>1
    <2> QED BY <2>4, <2>5
  <1>15. ASSUME NEW c \in Callers, TxnReadFails(c) PROVE Classified
    BY <1>15 DEF TxnReadFails
  <1>16. ASSUME NEW c \in Callers, TakeResult(c) PROVE Classified
    <2> DEFINE o == result[c]
    <2>1. /\ pc[c] \in {"await", "prefer"} /\ out[c].kind = "none"
          /\ TxnReceived(c) /\ UNCHANGED <<stdin, reqId, op>>
      BY <1>16 DEF TakeResult
    <2>2. CASE o.kind \in {"completed", "remote"} /\ Release /\ UNCHANGED state
      <3>1. Leaves(c)
        BY <2>1, <2>2 DEF Leaves
      <3> QED BY <3>1 DEF Service
    <2>3. CASE /\ o.kind \in {"transport", "protocol"}
               /\ MarkPoisoned /\ KillAndReap(c, o) /\ UNCHANGED token
      BY <2>1, <2>3
    <2>4. CASE o.kind = "acked" /\ Decide(c, "acked", o) /\ UNCHANGED <<token, state>>
      BY <2>1, <2>4
    <2> QED BY <1>16, <2>2, <2>3, <2>4 DEF TakeResult
  <1>17. ASSUME NEW c \in Callers, AwaitCancelled(c) PROVE Classified
    BY <1>17 DEF AwaitCancelled
  <1>18. ASSUME NEW c \in Callers, AbandonRequest(c) PROVE Classified
    BY <1>18 DEF AbandonRequest, NothingToPrefer
  <1>19. ASSUME NEW c \in Callers, DrainResult(c) PROVE Classified
    <2>1. Leaves(c)
      BY <1>19 DEF DrainResult, Leaves
    <2> QED BY <2>1 DEF Service
  <1>20. ASSUME NEW c \in Callers, CloseCall(c) PROVE Classified
    BY <1>20 DEF CloseCall
  <1>21. ASSUME NEW c \in Callers, MarkClosed(c) PROVE Classified
    BY <1>21 DEF MarkClosed
  <1>22. ASSUME NEW c \in Callers, CloseInput(c) PROVE Classified
    BY <1>22 DEF CloseInput
  <1>23. ASSUME NEW c \in Callers, ShutdownSelect(c) PROVE Classified
    BY <1>23 DEF ShutdownSelect
  <1>24. ASSUME NEW c \in Callers, ShutdownReturn(c) PROVE Classified
    <2>1. Leaves(c)
      BY <1>24 DEF ShutdownReturn, Leaves
    <2> QED BY <2>1 DEF Service
  <1>25. ASSUME NEW c \in Callers, KillChild(c) PROVE Classified
    BY <1>25 DEF KillChild
  <1>26. ASSUME NEW c \in Callers, Reap(c) PROVE Classified
    BY <1>26 DEF Reap
  <1>27. ASSUME NEW c \in Callers, ReapStderr(c) PROVE Classified
    <2>1. CASE op[c] \in {"start", "close"} /\ Return(c, out[c]) /\ UNCHANGED token
      BY <1>27, <2>1 DEF ReapStderr
    <2>2. CASE op[c] \in {"execute", "shutdown"} /\ Return(c, out[c]) /\ Release
      <3>1. Leaves(c)
        BY <1>27, <2>2 DEF ReapStderr, Leaves
      <3> QED BY <3>1 DEF Service
    <2>3. CASE out[c].kind = "ctx_transact" /\ Goto(c, "drain") /\ UNCHANGED token
      BY <1>27, <2>3 DEF ReapStderr
    <2> QED BY <1>27, <2>1, <2>2, <2>3 DEF ReapStderr
  <1>28. ASSUME NEW c \in Callers, Cancel(c) PROVE Classified
    BY <1>28 DEF Cancel
  <1>29. CASE ChildKilled
    BY <1>29 DEF ChildKilled
  <1>30. CASE WaitReturns
    BY <1>30 DEF WaitReturns
  <1>31. CASE StderrDrained
    BY <1>31 DEF StderrDrained
  <1>32. ASSUME NEW r \in Reply, ChildWrites(r) PROVE Classified
    BY <1>32 DEF ChildWrites
  <1>33. ASSUME NEW how \in {"ok", "fail"}, ChildExits(how) PROVE Classified
    BY <1>33 DEF ChildExits
  <1>34. ASSUME NEW c \in Callers, ChildHangsUp(c) PROVE Classified
    BY <1>34 DEF ChildHangsUp
  <1>35. CASE UNCHANGED vars
    BY <1>35 DEF vars
  <1> HIDE DEF Classified
  <1> QED BY <1>1, <1>2, <1>3, <1>4, <1>5, <1>6, <1>7, <1>8, <1>9, <1>10, <1>11, <1>12,
             <1>13, <1>14, <1>15, <1>16, <1>17, <1>18, <1>19, <1>20, <1>21, <1>22,
             <1>23, <1>24, <1>25, <1>26, <1>27, <1>28, <1>29, <1>30, <1>31, <1>32,
             <1>33, <1>34, <1>35
             DEF Next, SessionNext, Calls, CallerStep, TxnEnds, UntrustedChild

\* A function on 1 .. n is a sequence of length n.
LEMMA Table ==
  ASSUME NEW n \in Nat, NEW S, NEW w, w \in [1 .. n -> S]
  PROVE  w \in Seq(S) /\ Len(w) = n
  OBVIOUS

\* A longer table with the same beginning has the shorter one in front.
LEMMA TablePrefix ==
  ASSUME NEW n \in Nat, NEW S, NEW w \in [1 .. n -> S], NEW v \in [1 .. n + 1 -> S],
         \A i \in 1 .. n : w[i] = v[i]
  PROVE  w = SubSeq(v, 1, n)
  <1>1. v \in Seq(S) /\ Len(v) = n + 1 /\ w \in Seq(S) /\ Len(w) = n
    BY Table
  <1>2. SubSeq(v, 1, n) \in Seq(S) /\ Len(SubSeq(v, 1, n)) = n
        /\ \A i \in 1 .. n : SubSeq(v, 1, n)[i] = v[i]
    BY <1>1, SubSeqProperties
  <1> QED BY <1>1, <1>2, SeqEqual

\* A frame that is appended appends its number to the wire.
LEMMA WireGrows ==
  ASSUME NEW s \in Seq(Frame), NEW fr \in Frame, NEW t, t = Append(s, fr),
         \A i \in DOMAIN s : s[i].id \in Nat \ {0}, fr.id \in Nat \ {0},
         \A i \in DOMAIN s : s[i].id < fr.id,
         NEW w, w = [i \in DOMAIN s |-> s[i].id],
         NEW v, v = [i \in DOMAIN t |-> t[i].id]
  PROVE  /\ v \in Seq(Nat \ {0}) /\ Len(v) = Len(w) + 1
         /\ w = SubSeq(v, 1, Len(w))
         /\ \A i \in DOMAIN w : w[i] < v[Len(v)]
  <1>1. /\ Len(s) \in Nat /\ DOMAIN s = 1 .. Len(s)
        /\ DOMAIN t = 1 .. Len(s) + 1
        /\ \A i \in 1 .. Len(s) : t[i] = s[i]
        /\ t[Len(s) + 1] = fr
    BY AppendProperties, LenProperties
  <1>2. PICK n \in Nat : n = Len(s)
    BY <1>1
  <1>3. w \in [1 .. n -> Nat \ {0}]
    BY <1>1, <1>2
  <1>4. \A i \in 1 .. n + 1 : t[i].id \in Nat \ {0}
    BY <1>1, <1>2
  <1>5. v \in [1 .. n + 1 -> Nat \ {0}]
    BY <1>1, <1>2, <1>4
  <1>6. \A i \in 1 .. n : w[i] = v[i] /\ w[i] < v[n + 1]
    <2>1. \A i \in 1 .. n : i \in 1 .. n + 1 /\ n + 1 \in 1 .. n + 1
      OBVIOUS
    <2>2. \A i \in 1 .. n + 1 : v[i] = t[i].id
      BY <1>1, <1>2
    <2>3. \A i \in 1 .. n : w[i] = s[i].id /\ t[i] = s[i] /\ s[i].id < fr.id
      BY <1>1, <1>2
    <2>4. t[n + 1] = fr
      BY <1>1, <1>2
    <2> QED BY <2>1, <2>2, <2>3, <2>4
  <1>7. n + 1 \in Nat
    OBVIOUS
  <1>8. v \in Seq(Nat \ {0}) /\ Len(v) = n + 1 /\ Len(w) = n
    BY <1>3, <1>5, <1>7, Table
  <1>9. w = SubSeq(v, 1, n)
    BY <1>3, <1>5, <1>6, TablePrefix
  <1> QED BY <1>3, <1>6, <1>8, <1>9

\* A step of one of these kinds is a step of SerialSession under the mapping.
LEMMA KindsRefine ==
  ASSUME TypeOK, TypeOK', IdInv, ServedMap, ServedMap', Classified
  PROVE  [Promise!Next]_(Promise!vars)
  <1> USE DEF Promise!Next, Promise!vars, Promise!Service, Promise!Enter,
             Promise!Admit, Promise!Send, Promise!Answer, Promise!Leave, Promise!Stop
  <1>1. ASSUME Quiet PROVE [Promise!Next]_(Promise!vars)
    <2>1. Served' = Served /\ ServedPhase' = ServedPhase
      <3> HIDE DEF Holding, PhaseOf
      <3> QED BY <1>1 DEF Quiet, ServedMap, TypeOK
    <2>2. [i \in DOMAIN stdin |-> stdin[i].id]' = [i \in DOMAIN stdin |-> stdin[i].id]
      BY <1>1 DEF Quiet, Wire
    <2>3. CASE state' # "open"
      BY <2>1, <2>2, <2>3
    <2>4. CASE state' = "open"
      <3>1. state = "open"
        BY <1>1, <2>4 DEF Quiet
      <3> QED BY <2>1, <2>2, <2>4, <3>1
    <2> QED BY <2>3, <2>4
  <1>2. ASSUME NEW c \in Callers, Enters(c) PROVE [Promise!Next]_(Promise!vars)
    <2>1. ServedPhase = "free" /\ Served' = c /\ ServedPhase' = "entered"
      BY <1>2 DEF Enters, ServedMap
    <2> QED BY <1>2, <2>1 DEF Enters
  <1>3. ASSUME NEW c \in Callers, NEW from, NEW to, Advances(c, from, to)
        PROVE  /\ Served' = Served /\ ServedPhase = from /\ ServedPhase' = to
               /\ UNCHANGED state
    BY <1>3 DEF Advances, ServedMap
  <1>4. ASSUME NEW c \in Callers, Admits(c) PROVE [Promise!Next]_(Promise!vars)
    BY <1>3, <1>4 DEF Admits
  <1>5. ASSUME NEW c \in Callers, Answered(c) PROVE [Promise!Next]_(Promise!vars)
    BY <1>3, <1>5 DEF Answered
  <1>6. ASSUME NEW c \in Callers, Sends(c) PROVE [Promise!Next]_(Promise!vars)
    <2>1. PICK fr \in Frame : stdin' = Append(stdin, fr) /\ fr.id > 0
                              /\ \A i \in DOMAIN stdin : stdin[i].id < fr.id
      BY <1>6 DEF Sends
    <2>2. Served' = Served /\ ServedPhase = "admitted" /\ ServedPhase' = "sent"
          /\ UNCHANGED state
      BY <1>3, <1>6 DEF Sends
    <2>3. /\ Wire' \in Seq(Nat \ {0}) /\ Len(Wire') = Len(Wire) + 1
          /\ Wire = SubSeq(Wire', 1, Len(Wire))
          /\ \A i \in DOMAIN Wire : Wire[i] < Wire'[Len(Wire')]
      <3>1. \A i \in DOMAIN stdin : stdin[i].id \in Nat \ {0}
        <4>1. \A i \in DOMAIN stdin : stdin[i] \in Frame
          BY ElementOfSeq, LenProperties DEF TypeOK
        <4> QED BY <4>1, ModulusAssumption DEF Frame, Ids, IdInv, RequestIdsIncrease
      <3>2. fr.id \in Nat \ {0}
        BY <2>1, ModulusAssumption DEF Frame, Ids
      <3>3. stdin \in Seq(Frame)
        BY DEF TypeOK
      <3> QED BY <2>1, <3>1, <3>2, <3>3, WireGrows DEF Wire
    <2> QED BY <2>2, <2>3 DEF Wire
  <1>7. ASSUME NEW c \in Callers, Leaves(c) PROVE [Promise!Next]_(Promise!vars)
    <2>1. /\ ServedPhase = PhaseOf(c) /\ PhaseOf(c) # "free"
          /\ ServedPhase' = "free" /\ Served' = NoCaller
      BY <1>7 DEF Leaves, ServedMap, PhaseOf
    <2>2. (state' # "open") \in {state # "open", TRUE}
      BY <1>7 DEF Leaves
    <2> QED BY <1>7, <2>1, <2>2 DEF Leaves
  <1> QED BY <1>1, <1>2, <1>4, <1>5, <1>6, <1>7 DEF Classified, Service

\* The session implements the serial server it promises to be: with any number
\* of callers, goroutines, cancellations and any child, what the callers see
\* are the steps of SerialSession.
THEOREM Implements == Spec => ImplementsSerialSession
  <1>1. Init => Promise!Init
    <2>1. Init => [i \in DOMAIN stdin |-> stdin[i].id] = <<>>
      BY DEF Init
    <2> QED BY <2>1 DEF Init, Promise!Init, Served, ServedPhase
  <1>2. /\ TypeOK /\ TypeOK' /\ Control /\ OneInFlight /\ SessionInv /\ IdInv
        /\ AnswerInv /\ FinalInv /\ ServedMap /\ ServedMap'
        /\ [Next]_vars
        => [Promise!Next]_(Promise!vars)
    BY StepKinds, KindsRefine
  <1> QED BY <1>1, <1>2, TypeCorrect, Serialised, SessionInvariant, NumbersAndReaping,
             AnswersAndFinals, Mapping, PTL
          DEF Spec, ImplementsSerialSession, Promise!Spec

=============================================================================
