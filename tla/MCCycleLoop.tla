------------------------------ MODULE MCCycleLoop ------------------------------
(* One coordinator process launched again and again, and two that contend for  *)
(* one data directory.                                                         *)
EXTENDS CycleLoop

CONSTANTS alpha, beta

OneCoordinator == {alpha}
TwoCoordinators == {alpha, beta}
===============================================================================
