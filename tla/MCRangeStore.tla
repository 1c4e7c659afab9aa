---------------------------- MODULE MCRangeStore ----------------------------
(* The range table on a handful of ids, for TLC.                            *)
EXTENDS RangeStore
=============================================================================
