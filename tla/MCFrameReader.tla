--------------------------- MODULE MCFrameReader ---------------------------
(* The instance of FrameReader for TLC; its constants are numbers.         *)
EXTENDS FrameReader, TLC
=============================================================================
