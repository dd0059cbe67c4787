---------------------------- MODULE EngineServer ----------------------------
(***************************************************************************)
(* The Rust side of the worker boundary: the `paraflow-engine serve` loop  *)
(* (engine-rs/crates/paraflow-engine/src/server.rs).  It reads one frame,  *)
(* answers it, and reads the next, until end of file, an acknowledged      *)
(* shutdown, or an error that makes the process exit unsuccessfully.       *)
(*                                                                         *)
(* The pipes and the process are the ones of module WorkerSession; what    *)
(* the session may have done to them (a frame cut short, an end closed, a  *)
(* kill) is all this module has to cope with.                              *)
(***************************************************************************)
EXTENDS Naturals, Sequences

CONSTANT PipeReplies  \* bound on the frames queued on stdout

VARIABLES
    stdin,        \* all request frames the parent has written
    inputOpen,    \* the parent's end of stdin
    stdout,       \* responses the parent has not read
    outputOpen,   \* the parent's end of stdout
    child,        \* the process
    engine        \* pc, frames consumed, request or response at hand, and a
                  \* history of the execute requests it ran

NoFrame == [id |-> 0, op |-> "none"]
NoReply == [kind |-> "none", id |-> 0]

EngineInit ==
    engine = [pc |-> "read", pos |-> 0, req |-> NoFrame, reply |-> NoReply,
              executed |-> <<>>]

Serving(label) == child.proc = "running" /\ engine.pc = label

\* The process ends; main passes serve's verdict on as the exit status.
Exit(how) == child' = [child EXCEPT !.proc = "exited", !.status = how]

-----------------------------------------------------------------------------
(* read_frame and decode_request.                                          *)

\* read_frame returns a frame when it finds a newline; at end of file it
\* also returns what was left without one.
Readable ==
    /\ engine.pos < Len(stdin)
    /\ stdin[engine.pos + 1].part = "line" \/ ~inputOpen

\* A JSON text that was cut short does not decode; every other frame of the
\* session is a request the engine understands.
Decodes(frame) == frame.part # "prefix"

\* Mutant: the frame is not consumed from the buffered reader.
EngineReadsAgain ==
    /\ Serving("read") /\ Readable
    /\ LET frame == stdin[engine.pos + 1]
       IN  /\ Decodes(frame)
           /\ engine' = [engine EXCEPT
                 !.req = [id |-> frame.id, op |-> frame.op],
                 !.pc = IF frame.op = "execute" THEN "execute" ELSE "respond",
                 !.reply = IF frame.op = "execute" THEN NoReply
                           ELSE [kind |-> "shutdown_ack", id |-> frame.id]]
    /\ UNCHANGED <<stdin, inputOpen, stdout, outputOpen, child>>

EngineReads ==
    /\ Serving("read") /\ Readable
    /\ LET frame == stdin[engine.pos + 1]
       IN  /\ Decodes(frame)
           /\ engine' = [engine EXCEPT
                 !.pos = @ + 1,
                 !.req = [id |-> frame.id, op |-> frame.op],
                 !.pc = IF frame.op = "execute" THEN "execute" ELSE "respond",
                 !.reply = IF frame.op = "execute" THEN NoReply
                           ELSE [kind |-> "shutdown_ack", id |-> frame.id]]
    /\ UNCHANGED <<stdin, inputOpen, stdout, outputOpen, child>>

\* An undecodable frame is fatal: the stream cannot be trusted any more.
EngineRejects ==
    /\ Serving("read") /\ Readable /\ ~Decodes(stdin[engine.pos + 1])
    /\ Exit("fail")
    /\ UNCHANGED <<stdin, inputOpen, stdout, outputOpen, engine>>

\* End of file between two frames ends the loop without an error.
EngineEOF ==
    /\ Serving("read") /\ engine.pos = Len(stdin) /\ ~inputOpen
    /\ Exit("ok")
    /\ UNCHANGED <<stdin, inputOpen, stdout, outputOpen, engine>>

-----------------------------------------------------------------------------
(* execute and write_response.                                             *)

\* Mutants: an error response without the request's ID; no error response.
EngineExecutesAnonymous ==
    /\ Serving("execute")
    /\ \E kind \in {"completed", "error"} :
         engine' = [engine EXCEPT
            !.pc = "respond",
            !.reply = [kind |-> kind,
                       id |-> IF kind = "error" THEN 0 ELSE engine.req.id],
            !.executed = Append(@, engine.req.id)]
    /\ UNCHANGED <<stdin, inputOpen, stdout, outputOpen, child>>

EngineExecutesSilently ==
    /\ Serving("execute")
    /\ \E kind \in {"completed", "error"} :
         engine' = [engine EXCEPT
            !.pc = IF kind = "error" THEN "read" ELSE "respond",
            !.reply = [kind |-> kind, id |-> engine.req.id],
            !.executed = Append(@, engine.req.id)]
    /\ UNCHANGED <<stdin, inputOpen, stdout, outputOpen, child>>

\* A job that runs gives a completed response; an invalid workload or a
\* failed execution gives an error response.  Both carry the request's ID.
EngineExecutes ==
    /\ Serving("execute")
    /\ \E kind \in {"completed", "error"} :
         engine' = [engine EXCEPT
            !.pc = "respond",
            !.reply = [kind |-> kind, id |-> engine.req.id],
            !.executed = Append(@, engine.req.id)]
    /\ UNCHANGED <<stdin, inputOpen, stdout, outputOpen, child>>

\* Mutant: a write that was retried sends the response twice.
EngineRespondsTwice ==
    /\ Serving("respond") /\ outputOpen /\ Len(stdout) < PipeReplies
    /\ stdout' = stdout \o <<engine.reply, engine.reply>>
    /\ engine' = [engine EXCEPT !.reply = NoReply, !.req = NoFrame,
                    !.pc = IF engine.req.op = "execute" THEN "read" ELSE "return"]
    /\ UNCHANGED <<stdin, inputOpen, outputOpen, child>>

\* write_response; after an acknowledgement serve returns and the process
\* exits, whatever else is in the pipe.
EngineResponds ==
    /\ Serving("respond") /\ outputOpen /\ Len(stdout) < PipeReplies
    /\ stdout' = Append(stdout, engine.reply)
    /\ engine' = [engine EXCEPT !.reply = NoReply, !.req = NoFrame,
                    !.pc = IF engine.req.op = "execute" THEN "read" ELSE "return"]
    /\ UNCHANGED <<stdin, inputOpen, outputOpen, child>>

\* Mutant: the end of the loop is reported as a failure.
EngineReturnsFailure ==
    /\ Serving("return")
    /\ Exit("fail")
    /\ UNCHANGED <<stdin, inputOpen, stdout, outputOpen, engine>>

EngineReturns ==
    /\ Serving("return")
    /\ Exit("ok")
    /\ UNCHANGED <<stdin, inputOpen, stdout, outputOpen, engine>>

\* The process may also die by itself at any moment (panic, OOM, signal).
EngineCrashes ==
    /\ child.proc = "running" /\ Exit("fail")
    /\ engine' = [engine EXCEPT !.pc = "crashed"]
    /\ UNCHANGED <<stdin, inputOpen, stdout, outputOpen>>

EngineStep == \/ EngineReads \/ EngineRejects \/ EngineEOF
              \/ EngineExecutes \/ EngineResponds \/ EngineReturns
=============================================================================
