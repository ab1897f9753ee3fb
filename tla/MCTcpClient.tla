---------------------------- MODULE MCTcpClient ----------------------------
(* Three attempts, at most two of them counted in a row, two frames and a   *)
(* queue of one.                                                           *)
EXTENDS TcpClient
=============================================================================
