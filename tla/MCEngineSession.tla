-------------------------- MODULE MCEngineSession --------------------------
(* Instances of EngineSession for TLC.                                     *)
EXTENDS EngineSession, TLC

CONSTANTS c1, c2

TwoCallers == {c1, c2}
AnyRole == [c \in TwoCallers |-> {"start", "execute", "shutdown", "close"}]
CallerSymmetry == Permutations(TwoCallers)

\* Two goroutines run jobs; one of them also shuts the session down.
TwoRunners == c1 :> {"start", "execute"} @@ c2 :> {"execute", "shutdown"}
=============================================================================
