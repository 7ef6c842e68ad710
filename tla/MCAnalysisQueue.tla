--------------------------- MODULE MCAnalysisQueue ---------------------------
(* Small instances of AnalysisQueue for TLC. *)
EXTENDS AnalysisQueue

CONSTANTS w1, w2, i1, i2
=============================================================================
