---------------------------- MODULE MCSandboxSession ----------------------------
(* The specification as it is: its only constant is a bound.                   *)
EXTENDS SandboxSession
===============================================================================
