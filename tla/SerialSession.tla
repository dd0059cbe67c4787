--------------------------- MODULE SerialSession ---------------------------
(***************************************************************************)
(* What worker.Session promises, without saying how: a server of one       *)
(* request at a time over a stream that is given up at the first doubt.    *)
(* One caller is served at a time.  It is admitted only while the session  *)
(* is not stopped, its request gets a number that was never used before,   *)
(* and it may leave without its answer only once the session is stopped,   *)
(* which is for good.  So no request is ever sent behind one that was not  *)
(* answered, except by a caller that was admitted before another one       *)
(* stopped the session.                                                    *)
(*                                                                         *)
(* Module WorkerSession implements this with a token, a mutex, goroutines  *)
(* and a child process.                                                    *)
(***************************************************************************)
EXTENDS Naturals, Sequences

CONSTANTS Callers, NoCaller

VARIABLES
    serving,      \* the caller that is being served
    phase,        \* "free", "entered", "admitted", "sent", "answered"
    stopped,      \* the session has been given up or closed
    wire          \* the numbers of the requests sent, oldest first

vars == <<serving, phase, stopped, wire>>

Init == serving = NoCaller /\ phase = "free" /\ stopped = FALSE /\ wire = <<>>

Enter(c) ==
    /\ phase = "free" /\ serving' = c /\ phase' = "entered"
    /\ UNCHANGED <<stopped, wire>>

Admit ==
    /\ phase = "entered" /\ phase' = "admitted" /\ ~stopped
    /\ UNCHANGED <<serving, stopped, wire>>

Send ==
    /\ phase = "admitted" /\ phase' = "sent"
    /\ wire' \in Seq(Nat \ {0}) /\ Len(wire') = Len(wire) + 1
    /\ wire = SubSeq(wire', 1, Len(wire))
    /\ \A i \in DOMAIN wire : wire[i] < wire'[Len(wire')]
    /\ UNCHANGED <<serving, stopped>>

Answer ==
    /\ phase = "sent" /\ phase' = "answered"
    /\ UNCHANGED <<serving, stopped, wire>>

\* A caller that leaves may stop the session in the same step.
Leave ==
    /\ phase # "free" /\ phase' = "free" /\ serving' = NoCaller
    /\ stopped' \in {stopped, TRUE}
    /\ phase = "sent" => stopped'
    /\ UNCHANGED wire

\* Anybody may stop the session, also while a caller is being served.
Stop == stopped' /\ UNCHANGED <<serving, phase, wire>>

\* Each step of a service takes it to another phase.
Service == phase' # phase /\ ((\E c \in Callers : Enter(c)) \/ Admit \/ Send
                                                         \/ Answer \/ Leave)

Next == Service \/ Stop

Spec == Init /\ [][Next]_vars
=============================================================================
