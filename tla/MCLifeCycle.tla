---------------------------- MODULE MCLifeCycle ----------------------------
(* The program from start to exit; two attempts to connect in a row.       *)
EXTENDS LifeCycle
=============================================================================
