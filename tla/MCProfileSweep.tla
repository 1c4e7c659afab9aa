--------------------------- MODULE MCProfileSweep ---------------------------
(* Three people, the last an admin, triaged two at a time with one           *)
(* enrichment slot per run, for TLC.                                         *)
EXTENDS ProfileSweep

MCPriority == <<3, 1, 0>>
=============================================================================
