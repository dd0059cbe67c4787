--------------------------- MODULE EngineSession ---------------------------
(***************************************************************************)
(* The session of module WorkerSession with the engine of EngineServer at  *)
(* the other end of the pipes, instead of an untrusted child.              *)
(***************************************************************************)
EXTENDS WorkerSession

VARIABLE engine     \* where the serve loop is

\* Pipes and process are shared; constants and variables keep their names.
INSTANCE EngineServer

sysVars == <<vars, engine>>

\* A step of the process changes nothing the session keeps for itself.
ByProcess == UNCHANGED <<handle, token, mu, state, sequence, callVars, txnVars>>

SysInit == Init /\ EngineInit

SysNext ==
    \/ SessionNext /\ UNCHANGED engine
    \/ (EngineStep \/ EngineCrashes) /\ ByProcess

SysSpec == SysInit /\ [][SysNext]_sysVars

\* The engine reads its stdin, computes and answers, so writes into the pipe
\* finish too.  Crashes, calls and contexts are left to chance.
SysFairSpec ==
    /\ SysSpec
    /\ \A c \in Callers :
         /\ WF_sysVars(CallerStep(c) /\ UNCHANGED engine)
         /\ WF_sysVars((TxnWrite(c) \/ TxnWritten(c) \/ TxnEnds(c)) /\ UNCHANGED engine)
    /\ WF_sysVars(ChildKilled /\ UNCHANGED engine)
    /\ WF_sysVars(WaitReturns /\ UNCHANGED engine)
    /\ WF_sysVars(StderrDrained /\ UNCHANGED engine)
    /\ WF_sysVars(EngineStep /\ ByProcess)

-----------------------------------------------------------------------------
(* Properties.                                                             *)

\* The engine is one of the children the session was designed against, so
\* every property of WorkerSession's Spec holds of the pair.
ImplementsWorkerSession == Spec

\* The two ends never misunderstand each other: no response of the engine is
\* a protocol error to the session, whatever was cancelled, closed or lost
\* before.  (The session relies on poisoning for this, not on the ID check.)
NoProtocolError ==
    \A c \in Callers : "protocol" \notin {result[c].kind, out[c].kind}

\* At most once: the engine runs requests in the order of their IDs and none
\* twice, and a call that reports a result or a remote error was run.
AtMostOnce ==
    /\ \A i, j \in DOMAIN engine.executed :
         i < j => engine.executed[i] < engine.executed[j]
    /\ \A c \in Callers :
         out[c].kind \in {"completed", "remote"} =>
            \E i \in DOMAIN engine.executed : engine.executed[i] = reqId[c]

\* While the process is executing, the call that asked for it has not
\* returned: a caller that gave up waits until the engine has stopped.
NoWorkBehindTheCaller ==
    child.proc = "running" /\ engine.pc \in {"execute", "respond"} =>
        \E c \in Callers : reqId[c] = engine.req.id /\ ~At(c, "idle")

\* No false alarm: as long as the engine does not crash, a call fails with a
\* transport error only because the session was closed under it, and an
\* acknowledged shutdown ends badly only because the child was killed.
NoFalseAlarm ==
    engine.pc # "crashed" =>
        \A c \in Callers :
            /\ out[c].kind = "transport" => state = "closed"
            /\ out[c].kind = "exit_error" => child.killed

\* A request sent to the engine comes back: with its answer, or with the
\* error of an engine that died on it.
RequestsAnswered ==
    \A c \in Callers : At(c, "await") ~> At(c, "idle")
=============================================================================
