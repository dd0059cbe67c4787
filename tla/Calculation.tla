---------------------------- MODULE Calculation ----------------------------
(***************************************************************************)
(* The state shared by the modules of labctl's sequential functions: what  *)
(* a function was given (all at once, or item by item as it reads a        *)
(* stream), and what it made of it.                                        *)
(***************************************************************************)
EXTENDS Naturals

CONSTANT U64      \* 2^64

VARIABLES
    input,        \* what was given; its field "kind" names the function
    report        \* what was made of it

Uint64 == 0 .. U64 - 1

calcVars == <<input, report>>

Unanswered == [verdict |-> "none"]

\* A question of this kind is still to be answered.
Asked(kind) == input.kind = kind /\ report = Unanswered

Answer(r) == report' = r /\ UNCHANGED input
=============================================================================
