---------------------------- MODULE MCPeripherals ----------------------------
(* Five places of a buffer for the 256 bytes of an AT answer, which has at   *)
(* most three; seven for the 4096 of the receiver's.                         *)
EXTENDS Peripherals
=============================================================================
