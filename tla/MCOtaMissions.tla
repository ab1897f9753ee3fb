---------------------------- MODULE MCOtaMissions --------------------------
(* An AT_ONCE task and two NEXT_REBOOT tasks, of which one runs on this    *)
(* device and the others on the FKZ9.                                      *)
EXTENDS OtaUpdate

CONSTANTS now1, next1, next2

MCNowTasks == {now1}
MCNextTasks == {next1, next2}
MCLocalTasks == {next1}
=============================================================================
