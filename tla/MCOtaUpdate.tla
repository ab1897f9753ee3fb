---------------------------- MODULE MCOtaUpdate ----------------------------
(* A task of each type, one for the FKZ9 and one for this device, with     *)
(* reboots of the FKZ9 and restarts of the program at any point.           *)
EXTENDS OtaUpdate

CONSTANTS now1, next1

MCNowTasks == {now1}
MCNextTasks == {next1}
MCLocalTasks == {next1}
=============================================================================
