--------------------------- MODULE MCChildOutput ---------------------------
(* The instance of ChildOutput for TLC; its constants are numbers.         *)
EXTENDS ChildOutput, TLC
=============================================================================
