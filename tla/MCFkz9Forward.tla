--------------------------- MODULE MCFkz9Forward ---------------------------
(* Two payloads, long ones of up to two frames, queues of one: full at     *)
(* once, so that a long payload waits in the middle.                       *)
EXTENDS Fkz9Forward
=============================================================================
