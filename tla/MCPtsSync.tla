----------------------------- MODULE MCPtsSync -----------------------------
(* PtsSync for TLC. *)
EXTENDS PtsSync
=============================================================================
