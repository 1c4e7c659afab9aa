--------------------------- MODULE MCHistorySweep ---------------------------
(* HistorySweep for TLC. *)
EXTENDS HistorySweep
=============================================================================
