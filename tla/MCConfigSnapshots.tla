--------------------------- MODULE MCConfigSnapshots ---------------------------
(* Two callers, two revisions and three directories: the published snapshot,   *)
(* the one that is made and one that was left.                                 *)
EXTENDS ConfigSnapshots

CONSTANTS c1, c2, r1, r2, d1, d2, d3
===============================================================================
