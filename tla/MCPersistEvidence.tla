------------------------- MODULE MCPersistEvidence -------------------------
(* The instance of PersistEvidence for TLC.                                *)
EXTENDS PersistEvidence, TLC

CONSTANTS w1, w2, w3

ThreeWriters == {w1, w2, w3}
WriterSymmetry == Permutations(ThreeWriters)
=============================================================================
