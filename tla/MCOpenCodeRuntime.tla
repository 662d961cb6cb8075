--------------------------- MODULE MCOpenCodeRuntime ---------------------------
(* The prompt of the run and one policy notice.                                *)
EXTENDS OpenCodeRuntime
===============================================================================
