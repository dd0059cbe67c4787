-------------------------- MODULE MCWorkerSession --------------------------
(* Instances of WorkerSession for TLC.                                     *)
EXTENDS WorkerSession, TLC

CONSTANTS c1, c2

\* Two interchangeable goroutines that may call everything.
TwoCallers == {c1, c2}
AnyRole == [c \in TwoCallers |-> {"start", "execute", "shutdown", "close"}]
CallerSymmetry == Permutations(TwoCallers)

\* One goroutine runs jobs and shuts down while another one closes.
RunAndClose == c1 :> {"start", "execute", "shutdown"} @@ c2 :> {"close"}
=============================================================================
